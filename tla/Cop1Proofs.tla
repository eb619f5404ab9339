----------------------------- MODULE Cop1Proofs -----------------------------
(***************************************************************************)
(* Proofs about the two ends together, for every value of the constants:   *)
(* each end does in the whole what it does alone, whatever it is sent, so  *)
(* that what is proved of a FOP and of a FARM holds of them here.  Then    *)
(* what every event of the sender makes of its numbers, unwound: an        *)
(* integer stands behind every number of the sent queue, of the frames and *)
(* of the control words under way (used by Cop1ServiceProofs).             *)
(***************************************************************************)
EXTENDS Cop1, FopProofs, FarmProofs, FiniteSetTheorems

(***************************************************************************)
(* The inductive invariant: both ends sound, the tx queue packed as a FARM *)
(* expects, and the types of what lies between.                            *)
(***************************************************************************)
CopSound ==
    /\ Sound(fop) /\ late \in BOOLEAN /\ Labelled(fop)
    /\ FarmTypeOK
    /\ down \in Seq(Clcw) /\ Len(down) <= DownCap
    /\ taken \in Seq(SDU)
    /\ accepted \in 0 .. Cardinality(SDU) /\ starts \in 0 .. MaxStarts

(* A frame packed right is a frame the FARM was modelled for. *)
LEMMA PackedUplinked == PackedFrame \subseteq Uplinked
BY SDUAssumption DEF PackedFrame, Uplinked, Frame, DataCodes, Codes

(* The head and the tail of a queue. *)
LEMMA Popped ==
    ASSUME NEW S, NEW q \in Seq(S), q # <<>>
    PROVE  Head(q) \in S /\ Tail(q) \in Seq(S) /\ Len(Tail(q)) = Len(q) - 1
BY HeadTailProperties

-----------------------------------------------------------------------------
(* The steps of the whole are steps of the ends. *)

(* What the FOP does here it does alone. *)
LEMMA FopStepInCop ==
    ASSUME CopSound, [CopNext]_copVars
    PROVE  [FopNext]_fopVars
<1>1. CASE Offer
  BY <1>1 DEF Offer, FopNext
<1>2. CASE TakeClcw
  <2>1. Head(down) \in Clcw
    BY <1>2, Popped DEF TakeClcw, CopSound
  <2> QED BY <1>2, <2>1 DEF TakeClcw, FopNext
<1>3. CASE Timer
  BY <1>3 DEF Timer, FopNext
<1>4. CASE Initiate \/ Manage
  BY <1>4, NewVrsAssumption DEF Initiate, Manage, FopNext, Directive
<1>5. CASE HearFrame \/ LoseFrame
  BY <1>5 DEF HearFrame, LoseFrame, FopNext
<1>6. CASE Report \/ LoseClcw \/ (\E n \in 1 .. RxCap : Take(n)) \/ Release
  BY <1>6 DEF Report, LoseClcw, Take, Release
<1>7. CASE UNCHANGED copVars
  BY <1>7 DEF copVars, fopVars
<1> QED BY <1>1, <1>2, <1>3, <1>4, <1>5, <1>6, <1>7 DEF CopNext

(* What the FARM does here it does alone. *)
LEMMA FarmStepInCop ==
    ASSUME CopSound, [CopNext]_copVars
    PROVE  [FarmNext]_farmVars
<1>1. CASE HearFrame
  <2>1. Head(fop.tx) \in PackedFrame
    BY <1>1, Popped DEF HearFrame, CopSound, Labelled
  <2> QED BY <1>1, <2>1, PackedUplinked DEF HearFrame, FarmNext
<1>2. CASE \E n \in 1 .. RxCap : Take(n)
  BY <1>2 DEF Take, FarmNext
<1>3. CASE Release
  BY <1>3 DEF Release, FarmNext
<1>4. CASE Offer \/ TakeClcw \/ Timer \/ Initiate \/ Manage
  BY <1>4 DEF Offer, TakeClcw, Timer, Initiate, Manage
<1>5. CASE LoseFrame \/ Report \/ LoseClcw
  BY <1>5 DEF LoseFrame, Report, LoseClcw
<1>6. CASE UNCHANGED copVars
  BY <1>6 DEF copVars, farmVars
<1> QED BY <1>1, <1>2, <1>3, <1>4, <1>5, <1>6 DEF CopNext

-----------------------------------------------------------------------------
(* The invariant. *)

(* What lies between keeps its type. *)
LEMMA BetweenStep ==
    ASSUME CopSound, [CopNext]_copVars
    PROVE  /\ down' \in Seq(Clcw) /\ Len(down') <= DownCap
           /\ taken' \in Seq(SDU)
           /\ accepted' \in 0 .. Cardinality(SDU) /\ starts' \in 0 .. MaxStarts
<1> USE DEF CopSound
<1>0. Cardinality(SDU) \in Nat
  BY SduNumbersAssumption, FS_CardinalityType
<1>1. CASE Offer
  <2>1. accepted + 1 \in 1 .. Cardinality(SDU)
    BY <1>1, SduNumbersAssumption DEF Offer
  <2> QED BY <1>0, <1>1, <2>1 DEF Offer
<1>2. CASE TakeClcw \/ LoseClcw
  <2>1. Tail(down) \in Seq(Clcw) /\ Len(Tail(down)) = Len(down) - 1
    BY <1>2, Popped DEF TakeClcw, LoseClcw
  <2>2. /\ down' = Tail(down) /\ UNCHANGED taken /\ UNCHANGED accepted
        /\ UNCHANGED starts
    BY <1>2 DEF TakeClcw, LoseClcw
  <2>3. Len(down) \in Nat /\ Len(down') = Len(down) - 1
    BY <2>1, <2>2
  <2>4. Len(down') <= DownCap
    BY <2>3, DownCapAssumption
  <2> QED BY <2>1, <2>2, <2>4
<1>3. CASE Report
  <2>1. ClcwReport \in Clcw
    BY DEF ClcwReport, Clcw, FarmTypeOK, FarmConfig
  <2> QED BY <1>3, <2>1, AppendProperties, DownCapAssumption DEF Report
<1>4. CASE \E n \in 1 .. RxCap : Take(n)
  <2>1. PICK n \in 1 .. RxCap : Take(n)
    BY <1>4
  <2>2. SubSeq(rx, 1, n) \in Seq(SDU)
    <3>1. n \in 1 .. Len(rx) /\ rx \in Seq(SDU)
      BY <2>1 DEF Take, Consume, FarmTypeOK
    <3>2. \A i \in 1 .. n : rx[i] \in SDU
      BY <3>1
    <3> QED BY <3>1, <3>2, SubSeqProperties
  <2>3. taken \o SubSeq(rx, 1, n) \in Seq(SDU)
    BY <2>2, ConcatProperties
  <2> QED BY <2>1, <2>3 DEF Take
<1>5. CASE Initiate
  BY <1>5, MaxStartsAssumption DEF Initiate
<1>6. CASE Timer \/ Manage \/ HearFrame \/ LoseFrame \/ Release
  BY <1>6 DEF Timer, Manage, HearFrame, LoseFrame, Release
<1>7. CASE UNCHANGED copVars
  BY <1>7 DEF copVars
<1> QED BY <1>1, <1>2, <1>3, <1>4, <1>5, <1>6, <1>7 DEF CopNext

(* The invariant holds at the start. *)
LEMMA CopSoundInit == CopInit => CopSound
<1> SUFFICES ASSUME CopInit PROVE CopSound
  OBVIOUS
<1>1. Sound(fop) /\ late \in BOOLEAN /\ Labelled(fop) /\ FarmTypeOK
  BY SoundInit, LabelledInit, FarmTypeInit DEF CopInit
<1>2. Cardinality(SDU) \in Nat
  BY SduNumbersAssumption, FS_CardinalityType
<1>3. down \in Seq(Clcw) /\ Len(down) <= DownCap /\ taken \in Seq(SDU)
  BY DownCapAssumption DEF CopInit
<1> QED BY <1>1, <1>2, <1>3, MaxStartsAssumption DEF CopInit, CopSound

(* And every step keeps it. *)
LEMMA CopSoundStep == CopSound /\ [CopNext]_copVars => CopSound'
<1> SUFFICES ASSUME CopSound, [CopNext]_copVars PROVE CopSound'
  OBVIOUS
<1>1. [FopNext]_fopVars /\ [FarmNext]_farmVars
  BY FopStepInCop, FarmStepInCop
<1>2. Sound(fop') /\ late' \in BOOLEAN /\ Labelled(fop')
  BY <1>1, SoundStep, LabelledStep DEF CopSound
<1>3. FarmTypeOK'
  BY <1>1, FarmTypeStep DEF CopSound
<1> QED BY <1>2, <1>3, BetweenStep DEF CopSound

(***************************************************************************)
(* It holds in every state of the two ends together.                       *)
(***************************************************************************)
THEOREM CopSoundAlways == CopSpec => []CopSound
  BY CopSoundInit, CopSoundStep, PTL DEF CopSpec

(***************************************************************************)
(* The type of the whole: the queues of both ends keep their capacities,   *)
(* and what lies between them its kind.                                    *)
(***************************************************************************)
THEOREM CopTypeCorrect == CopSpec => []CopTypeOK
<1>1. CopSound => CopTypeOK
  BY DEF CopSound, CopTypeOK, Sound, Fits, FopRecord, FopTypeOK
<1> QED BY <1>1, CopSoundAlways, PTL

(***************************************************************************)
(* The sending end of the whole behaves as a FOP alone, which assumes no   *)
(* more of the control words than their type: every invariant proved of    *)
(* Fop holds here.                                                         *)
(***************************************************************************)
THEOREM CopIsAFop == CopSpec => FopSpec
<1>1. CopInit => FopInit
  BY DEF CopInit
<1>2. CopSound /\ [CopNext]_copVars => [FopNext]_fopVars
  BY FopStepInCop
<1> QED BY <1>1, <1>2, CopSoundAlways, PTL DEF CopSpec, FopSpec

(***************************************************************************)
(* The receiving end behaves as a FARM alone: the frames it is sent are    *)
(* among those Farm assumes, and every invariant proved of Farm holds here. *)
(***************************************************************************)
THEOREM CopIsAFarm == CopSpec => FarmSpec
<1>1. CopInit => FarmInit
  BY DEF CopInit
<1>2. CopSound /\ [CopNext]_copVars => [FarmNext]_farmVars
  BY FarmStepInCop
<1> QED BY <1>1, <1>2, CopSoundAlways, PTL DEF CopSpec, FarmSpec

-----------------------------------------------------------------------------
(* Circular numbers. *)

Num(x) == x % SeqMod

(* The remainder is the only one in its range. *)
LEMMA RemainderUnique ==
    ASSUME NEW q \in Int, NEW s \in 0 .. SeqMod - 1
    PROVE  (SeqMod * q + s) % SeqMod = s
<1> DEFINE a == SeqMod * q + s
           p == a \div SeqMod
           r == a % SeqMod
<1>1. a \in Int /\ a = SeqMod * p + r /\ p \in Int /\ r \in 0 .. SeqMod - 1
  BY SeqModAssumption
<1>2. a = SeqMod * q + s
  OBVIOUS
<1> HIDE DEF a, p, r
<1>3. SeqMod * (q - p) = r - s
  BY <1>1, <1>2, SeqModAssumption
<1>4. \A k \in Int : k >= 1 => SeqMod * k >= SeqMod
  BY SeqModAssumption
<1>5. \A k \in Int : k <= -1 => SeqMod * k <= -SeqMod
  BY SeqModAssumption
<1>6. q - p \in Int /\ r - s < SeqMod /\ r - s > -SeqMod
  BY <1>1, SeqModAssumption
<1>7. q - p = 0
  <2>1. ~ (q - p >= 1)
    BY <1>3, <1>4, <1>6, SeqModAssumption
  <2>2. ~ (q - p <= -1)
    BY <1>3, <1>5, <1>6, SeqModAssumption
  <2> QED BY <1>6, <2>1, <2>2
<1>8. r = s
  BY <1>1, <1>3, <1>7, SeqModAssumption
<1> QED BY <1>2, <1>8 DEF r

(* Whole turns do not count. *)
LEMMA NumOfSum ==
    ASSUME NEW a \in Int, NEW d \in Int
    PROVE  Num(a) \in SeqNum /\ Num(a + d) = Num(Num(a) + d)
<1> DEFINE q == a \div SeqMod
           r == a % SeqMod
           t == r + d
           p == t \div SeqMod
           s == t % SeqMod
<1>1. a = SeqMod * q + r /\ q \in Int /\ r \in 0 .. SeqMod - 1
  BY SeqModAssumption
<1>2. t \in Int /\ t = SeqMod * p + s /\ p \in Int /\ s \in 0 .. SeqMod - 1
  BY <1>1, SeqModAssumption
<1>3. a + d = SeqMod * q + t
  BY <1>1, SeqModAssumption
<1>4. (SeqMod * (q + p) + s) % SeqMod = s
  <2> HIDE DEF p, s
  <2> QED BY <1>1, <1>2, RemainderUnique
<1>5. a + d = SeqMod * (q + p) + s
  <2> HIDE DEF q, t, p, s
  <2> QED BY <1>1, <1>2, <1>3, SeqModAssumption
<1>6. Num(a + d) = s
  BY <1>4, <1>5 DEF Num
<1>7. Num(a) = r /\ Num(r + d) = s
  BY DEF Num
<1> QED BY <1>1, <1>6, <1>7 DEF SeqNum

(* Less than a turn further on: with or without the wrap. *)
LEMMA NumAhead ==
    ASSUME NEW a \in Int, NEW d \in 0 .. SeqMod - 1
    PROVE  /\ Num(a) \in SeqNum
           /\ Num(a + d) = IF Num(a) + d < SeqMod THEN Num(a) + d ELSE Num(a) + d - SeqMod
<1> DEFINE x == Num(a) + d
<1>1. Num(a) \in SeqNum /\ Num(a + d) = x % SeqMod
  <2>1. d \in Int
    BY SeqModAssumption
  <2>2. Num(a) \in SeqNum /\ Num(a + d) = Num(x)
    BY <2>1, NumOfSum
  <2> HIDE DEF x
  <2> QED BY <2>2 DEF Num
<1>2. x \in Int /\ -SeqMod < x /\ x < 2 * SeqMod /\ x >= 0
  <2> HIDE DEF Num
  <2> QED BY <1>1, SeqModAssumption DEF SeqNum
<1>3. x % SeqMod = IF x < 0 THEN x + SeqMod ELSE IF x < SeqMod THEN x ELSE x - SeqMod
  <2> HIDE DEF x
  <2> QED BY <1>2, ModOnce
<1> HIDE DEF Num
<1> QED BY <1>1, <1>2, <1>3, SeqModAssumption DEF SeqNum

(* Less than a turn apart, equal numbers are one. *)
LEMMA NumInjective ==
    ASSUME NEW a \in Int, NEW b \in Int, a - b < SeqMod, b - a < SeqMod, Num(a) = Num(b)
    PROVE  a = b
<1>1. ASSUME NEW x \in Int, NEW y \in Int, x <= y, y - x < SeqMod, Num(x) = Num(y)
      PROVE  x = y
  <2>1. y - x \in 0 .. SeqMod - 1 /\ x + (y - x) = y
    BY <1>1, SeqModAssumption
  <2>2. Num(y) = IF Num(x) + (y - x) < SeqMod THEN Num(x) + (y - x) ELSE Num(x) + (y - x) - SeqMod
    BY <2>1, NumAhead
  <2>3. Num(x) \in SeqNum
    BY NumOfSum, SeqModAssumption
  <2> HIDE DEF Num
  <2> QED BY <1>1, <2>1, <2>2, <2>3, SeqModAssumption DEF SeqNum
<1> HIDE DEF Num
<1>2. CASE a <= b
  BY <1>1, <1>2
<1>3. CASE b <= a
  BY <1>1, <1>3
<1> QED BY <1>2, <1>3

(* The distance on the circle. *)
LEMMA NumDistance ==
    ASSUME NEW a \in Int, NEW d \in 0 .. SeqMod - 1
    PROVE  (Num(a + d) - Num(a)) % SeqMod = d
<1>1. /\ Num(a) \in SeqNum
      /\ Num(a + d) = IF Num(a) + d < SeqMod THEN Num(a) + d ELSE Num(a) + d - SeqMod
  BY NumAhead
<1> DEFINE x == Num(a + d) - Num(a)
<1> HIDE DEF Num
<1>2. x \in Int /\ -SeqMod < x /\ x < 2 * SeqMod /\ (x = d \/ x = d - SeqMod)
  BY <1>1, SeqModAssumption DEF SeqNum
<1>3. x % SeqMod = IF x < 0 THEN x + SeqMod ELSE IF x < SeqMod THEN x ELSE x - SeqMod
  BY <1>2, ModOnce
<1> QED BY <1>2, <1>3, SeqModAssumption

(* The successor. *)
LEMMA NumNext == \A a \in Int : Inc(Num(a)) = Num(a + 1)
BY NumOfSum DEF Inc, Num

-----------------------------------------------------------------------------
(* The numbers of the sender. *)

(***************************************************************************)
(* The book B of a service: the SDU behind each number, and the end, the   *)
(* number of the next SDU to be accepted.  Behind NN(R) stands N, the      *)
(* oldest outstanding frame, and behind V(S) as many more as the sent      *)
(* queue is long; the window is kept; all that is outstanding or waits is  *)
(* of AD frames, with the SDUs of the book.                                *)
(***************************************************************************)
Run(f, N, B) ==
    /\ N \in Int /\ Len(f.sent) <= f.wnd
    /\ f.nnr = Num(N) /\ f.vs = Num(N + Len(f.sent))
    /\ B.end = N + Len(f.sent) + Len(f.wait)
    /\ \A i \in 1 .. Len(f.sent) : /\ f.sent[i].seq = Num(N + i - 1) /\ f.sent[i].code = "AD"
                                   /\ f.sent[i].sdu = B.sdu[N + i - 1]
    /\ f.wait # <<>> => f.hdr = "AD" /\ f.wait[1] = B.sdu[N + Len(f.sent)]

(* An AD frame from N on before V. *)
NewAd(fr, N, V, B) ==
    fr.code = "AD" /\ \E p \in N .. V - 1 : fr.num = Num(p) /\ fr.sdu = B.sdu[p]

(* From t to u the tx queue grows, or is cleared and grows, by AD frames from N on before V. *)
Sends(t, u, N, V, B) ==
    \E m \in {0, Len(t)} :
        /\ m <= Len(u)
        /\ \A i \in 1 .. m : u[i] = t[i]
        /\ \A i \in m + 1 .. Len(u) : NewAd(u[i], N, V, B)

(* What a sender does that stays in service, V behind V(S) before. *)
Goes(f, g, N, V, B) ==
    /\ Run(g, N, B) /\ g.wnd = f.wnd /\ V <= N + Len(g.sent)
    /\ Sends(f.tx, g.tx, N, N + Len(g.sent), B)

(* The lengths are naturals and the window is less than a turn. *)
LEMMA FitsFacts ==
    ASSUME NEW f, Fits(f)
    PROVE  /\ f.sent \in Seq(Item) /\ Len(f.sent) \in Nat
           /\ f.tx \in Seq(Frame) /\ Len(f.tx) \in Nat
           /\ f.wait \in Seq(SDU) /\ Len(f.wait) \in Nat
           /\ f.wnd \in 1 .. SeqMod - 1
<1>1. f.sent \in Seq(Item) /\ f.tx \in Seq(Frame) /\ f.wnd \in Windows /\ f.wait \in Seq(SDU)
  BY DEF Fits, FopRecord
<1>2. f.wnd \in 1 .. SeqMod - 1
  BY <1>1, WindowsAssumption
<1>3. Len(f.sent) \in Nat /\ Len(f.tx) \in Nat /\ Len(f.wait) \in Nat
  BY <1>1
<1> QED BY <1>1, <1>2, <1>3

(* What the end of a book is beyond V(S): what waits. *)
LEMMA Beyond ==
    ASSUME NEW n \in Int, NEW a \in Nat, NEW b \in Nat, NEW e, e = n + a + b
    PROVE  e \in Int /\ n + a \in Int /\ n + a <= e /\ b = e - (n + a)
<1>1. e \in Int
  OBVIOUS
<1> QED BY <1>1

LEMMA BookEnd ==
    ASSUME NEW f, Fits(f), NEW B, NEW N, Run(f, N, B)
    PROVE  LET V == N + Len(f.sent)
           IN  /\ N \in Int /\ V \in Int /\ B.end \in Int
               /\ N <= V /\ V <= B.end /\ Len(f.wait) = B.end - V
<1>1. N \in Int /\ Len(f.sent) \in Nat /\ Len(f.wait) \in Nat
  <2> HIDE DEF Num
  <2> QED BY FitsFacts DEF Run
<1>2. B.end = N + Len(f.sent) + Len(f.wait)
  BY DEF Run
<1>3. /\ B.end \in Int /\ N + Len(f.sent) \in Int /\ N + Len(f.sent) <= B.end
      /\ Len(f.wait) = B.end - (N + Len(f.sent))
  <2> DEFINE a == Len(f.sent)
             b == Len(f.wait)
             e == B.end
  <2>1. a \in Nat /\ b \in Nat /\ e = N + a + b /\ N \in Int
    BY <1>1, <1>2
  <2> HIDE DEF a, b, e
  <2>2. e \in Int /\ N + a \in Int /\ N + a <= e /\ b = e - (N + a)
    BY <2>1, Beyond
  <2> QED BY <2>2 DEF a, b, e
<1> QED BY <1>1, <1>3

(* What a sender leaves that gives up: no SDU in its queues, some more frames of the run. *)
Drops(f, g, N, V, B) ==
    g.sent = <<>> /\ g.wait = <<>> /\ g.wnd = f.wnd /\ Sends(f.tx, g.tx, N, V, B)

(* Nothing sent is nothing new. *)
LEMMA SendsNothing ==
    ASSUME NEW t, Len(t) \in Nat, NEW B, NEW N, NEW V
    PROVE  Sends(t, t, N, V, B)
<1>1. Len(t) + 1 .. Len(t) = {} /\ Len(t) <= Len(t)
  OBVIOUS
<1> QED BY <1>1 DEF Sends

(* A frame before V(S). *)
LEMMA NewAdMade ==
    ASSUME NEW fr, NEW B, NEW N, NEW V, NEW p \in N .. V - 1,
           fr.code = "AD", fr.num = Num(p), fr.sdu = B.sdu[p]
    PROVE  NewAd(fr, N, V, B)
BY DEF NewAd

(* Such frames behind a queue. *)
LEMMA SendsJoined ==
    ASSUME NEW t \in Seq(Frame), NEW new \in Seq(Frame), NEW B, NEW N, NEW V,
           \A i \in 1 .. Len(new) : NewAd(new[i], N, V, B)
    PROVE  Sends(t, t \o new, N, V, B)
<1> DEFINE x == t \o new
<1>1. Len(t) \in Nat /\ Len(new) \in Nat /\ Len(x) = Len(t) + Len(new)
  BY ConcatProperties
<1>2. \A i \in 1 .. Len(t) + Len(new) : x[i] = IF i <= Len(t) THEN t[i] ELSE new[i - Len(t)]
  BY ConcatProperties
<1> HIDE DEF x
<1>3. ASSUME NEW i \in 1 .. Len(t) PROVE x[i] = t[i]
  <2>1. i \in 1 .. Len(t) + Len(new) /\ i <= Len(t)
    BY <1>1
  <2> QED BY <1>2, <2>1
<1>4. ASSUME NEW i \in Len(t) + 1 .. Len(x) PROVE NewAd(x[i], N, V, B)
  <2>1. i \in 1 .. Len(t) + Len(new) /\ ~ (i <= Len(t)) /\ i - Len(t) \in 1 .. Len(new)
    BY <1>1
  <2> QED BY <1>2, <2>1
<1>5. Len(t) <= Len(x)
  BY <1>1
<1>6. Sends(t, x, N, V, B)
  BY <1>3, <1>4, <1>5 DEF Sends
<1> QED BY <1>6 DEF x

(* A step that leaves the numbers, the queues and what waits alone. *)
LEMMA GoesSame ==
    ASSUME NEW f, NEW g, NEW B, NEW N, Fits(f), Run(f, N, B),
           g.sent = f.sent, g.vs = f.vs, g.nnr = f.nnr, g.wnd = f.wnd,
           g.tx = f.tx \/ g.tx = <<>>,
           g.wait = f.wait, g.hdr \in {f.hdr, "AD"}
    PROVE  Goes(f, g, N, N + Len(f.sent), B)
<1>1. Len(f.sent) \in Nat /\ Len(f.tx) \in Nat /\ N \in Int
  BY FitsFacts DEF Run
<1>2. Run(g, N, B)
  BY DEF Run
<1>3. Sends(f.tx, g.tx, N, N + Len(g.sent), B)
  <2>1. CASE g.tx = f.tx
    BY <1>1, <2>1, SendsNothing
  <2>2. CASE g.tx = <<>>
    <3>1. Len(g.tx) = 0 /\ 1 .. 0 = {}
      BY <2>2
    <3> QED BY <3>1 DEF Sends
  <2> QED BY <2>1, <2>2
<1> QED BY <1>1, <1>2, <1>3 DEF Goes

(* Two calls that send are one. *)
LEMMA SendsTwice ==
    ASSUME NEW t, NEW u, NEW w, Len(t) \in Nat, Len(u) \in Nat, Len(w) \in Nat,
           NEW B, NEW N \in Int, NEW V \in Int, NEW X \in Int, V <= X,
           Sends(t, u, N, V, B), Sends(u, w, N, X, B)
    PROVE  Sends(t, w, N, X, B)
<1>1. PICK m \in {0, Len(t)} : /\ m <= Len(u)
                               /\ \A i \in 1 .. m : u[i] = t[i]
                               /\ \A i \in m + 1 .. Len(u) : NewAd(u[i], N, V, B)
  BY DEF Sends
<1>2. PICK k \in {0, Len(u)} : /\ k <= Len(w)
                               /\ \A i \in 1 .. k : w[i] = u[i]
                               /\ \A i \in k + 1 .. Len(w) : NewAd(w[i], N, X, B)
  BY DEF Sends
<1>3. \A fr : NewAd(fr, N, V, B) => NewAd(fr, N, X, B)
  <2>1. N .. V - 1 \subseteq N .. X - 1
    OBVIOUS
  <2> QED BY <2>1 DEF NewAd
<1>4. CASE k = 0
  <2>1. 1 .. 0 = {} /\ 0 <= Len(w)
    OBVIOUS
  <2> QED BY <1>2, <1>4, <2>1 DEF Sends
<1>5. CASE k = Len(u)
  <2>1. m <= Len(w) /\ m \in Nat
    BY <1>1, <1>2, <1>5
  <2>2. \A i \in 1 .. m : w[i] = t[i]
    BY <1>1, <1>2, <1>5
  <2>3. ASSUME NEW i \in m + 1 .. Len(w) PROVE NewAd(w[i], N, X, B)
    <3>1. CASE i <= k
      <4>1. i \in m + 1 .. Len(u) /\ w[i] = u[i]
        BY <1>1, <1>2, <1>5, <2>1, <3>1
      <4> QED BY <1>1, <1>3, <4>1
    <3>2. CASE ~ (i <= k)
      <4>1. i \in k + 1 .. Len(w)
        BY <1>1, <1>5, <2>1, <3>2
      <4> QED BY <1>2, <4>1
    <3> QED BY <3>1, <3>2
  <2> QED BY <2>1, <2>2, <2>3 DEF Sends
<1> QED BY <1>2, <1>4, <1>5

(* Two steps are one. *)
LEMMA GoesOn ==
    ASSUME NEW f, NEW g, NEW h, NEW B, NEW N, NEW V \in Int, Fits(f), Fits(g), Fits(h),
           Goes(f, g, N, V, B), Goes(g, h, N, N + Len(g.sent), B)
    PROVE  Goes(f, h, N, V, B)
<1>1. /\ Len(g.sent) \in Nat /\ Len(h.sent) \in Nat
      /\ Len(f.tx) \in Nat /\ Len(g.tx) \in Nat /\ Len(h.tx) \in Nat /\ N \in Int
  BY FitsFacts DEF Goes, Run
<1>2. /\ N + Len(g.sent) \in Int /\ N + Len(h.sent) \in Int
      /\ N + Len(g.sent) <= N + Len(h.sent) /\ V <= N + Len(h.sent)
  <2>1. V <= N + Len(g.sent) /\ N + Len(g.sent) <= N + Len(h.sent)
    BY DEF Goes
  <2>2. N + Len(g.sent) \in Int /\ N + Len(h.sent) \in Int
    BY <1>1
  <2> QED BY <2>1, <2>2
<1>3. Sends(f.tx, g.tx, N, N + Len(g.sent), B) /\ Sends(g.tx, h.tx, N, N + Len(h.sent), B)
  BY DEF Goes
<1>4. Sends(f.tx, h.tx, N, N + Len(h.sent), B)
  BY <1>1, <1>2, <1>3, SendsTwice
<1>5. Run(h, N, B) /\ h.wnd = f.wnd
  BY DEF Goes
<1> QED BY <1>2, <1>4, <1>5 DEF Goes

(* A step that goes on and one that gives up. *)
LEMMA GoesDrops ==
    ASSUME NEW f, NEW g, NEW h, NEW B, NEW N, NEW V \in Int, Fits(f), Fits(g), Fits(h),
           Goes(f, g, N, V, B), V = N + Len(g.sent), Drops(g, h, N, V, B)
    PROVE  Drops(f, h, N, V, B)
<1>1. Len(f.tx) \in Nat /\ Len(g.tx) \in Nat /\ Len(h.tx) \in Nat /\ N \in Int
  BY FitsFacts DEF Goes, Run
<1>2. Sends(f.tx, g.tx, N, V, B) /\ Sends(g.tx, h.tx, N, V, B)
  BY DEF Goes, Drops
<1>3. Sends(f.tx, h.tx, N, V, B)
  BY <1>1, <1>2, SendsTwice
<1> QED BY <1>3 DEF Goes, Drops

(***************************************************************************)
(* osdlp_remove_acked_frames pops just the frames before the reported one. *)
(***************************************************************************)
LEMMA AckedCountRun ==
    ASSUME NEW f, Fits(f), NEW B, NEW N, Run(f, N, B), NEW r \in N .. N + Len(f.sent)
    PROVE  AckedCount(f, Num(r)) = r - N
<1> DEFINE n == Len(f.sent)
           d == r - N
           P(k) == /\ \A i \in 1 .. k : f.sent[i].seq # Num(r)
                   /\ k <= f.wnd + 1
                   /\ k = n \/ k = f.wnd + 1 \/ f.sent[k + 1].seq = Num(r)
<1>1. n \in Nat /\ N \in Int /\ f.wnd \in 1 .. SeqMod - 1 /\ n <= f.wnd
  BY FitsFacts DEF Run
<1>2. r \in Int /\ d \in 0 .. n /\ r = N + d
  BY <1>1
<1>3. \A i \in 1 .. n : f.sent[i].seq = Num(N + i - 1)
  BY DEF Run
<1>4. ASSUME NEW i \in 1 .. n PROVE f.sent[i].seq = Num(r) <=> i = d + 1
  <2>1. /\ N + i - 1 \in Int /\ i \in Int /\ (N + i - 1) - r < SeqMod
        /\ r - (N + i - 1) < SeqMod
    BY <1>1, <1>2, SeqModAssumption
  <2>2. Num(N + i - 1) = Num(r) => N + i - 1 = r
    BY <1>2, <2>1, NumInjective
  <2>3. i = d + 1 => N + i - 1 = r
    BY <1>1, <1>2
  <2>4. N + i - 1 = r => i = d + 1
    BY <1>1, <1>2, <2>1
  <2> QED BY <1>3, <2>2, <2>3, <2>4
<1>5. P(d)
  <2>1. \A i \in 1 .. d : i \in 1 .. n /\ i # d + 1
    BY <1>1, <1>2
  <2>2. d <= f.wnd + 1
    BY <1>1, <1>2, SeqModAssumption
  <2>3. d = n \/ d + 1 \in 1 .. n
    BY <1>1, <1>2
  <2> QED BY <1>4, <2>1, <2>2, <2>3
<1>6. ASSUME NEW k \in 0 .. n, P(k) PROVE k = d
  <2>1. ~ (k < d)
    <3> SUFFICES ASSUME k < d PROVE FALSE
      OBVIOUS
    <3>1. k # n /\ k # f.wnd + 1 /\ k + 1 \in 1 .. n /\ k + 1 # d + 1
      <4> HIDE DEF n, d, P
      <4> QED BY <1>1, <1>2, SeqModAssumption
    <3> QED BY <1>4, <1>6, <3>1
  <2>2. ~ (k > d)
    <3> SUFFICES ASSUME k > d PROVE FALSE
      OBVIOUS
    <3>1. d + 1 \in 1 .. k /\ d + 1 \in 1 .. n
      BY <1>1, <1>2
    <3> QED BY <1>4, <1>6, <3>1
  <2> QED BY <1>1, <1>2, <2>1, <2>2
<1>7. AckedCount(f, Num(r)) = CHOOSE k \in 0 .. n : P(k)
  BY DEF AckedCount
<1> HIDE DEF P
<1> QED BY <1>2, <1>5, <1>6, <1>7

(* osdlp_remove_acked_frames: the run then starts at the reported number. *)
LEMMA RemoveAckedRun ==
    ASSUME NEW f, Open(f), NEW B, NEW N, Run(f, N, B), NEW r \in N .. N + Len(f.sent)
    PROVE  LET g == RemoveAcked(f, Num(r))
           IN  /\ Open(g) /\ Run(g, r, B) /\ r + Len(g.sent) = N + Len(f.sent)
               /\ g.tx = f.tx /\ g.wnd = f.wnd /\ g.state = f.state
<1> DEFINE d == r - N
           n == Len(f.sent)
           nr == Num(r)
           q == SubSeq(f.sent, d + 1, n)
           g == [f EXCEPT !.sent = q, !.nnr = nr, !.txCnt = 1]
<1>1. /\ f \in FopRecord /\ Fits(f) /\ f.sent \in Seq(Item) /\ n \in Nat /\ N \in Int
      /\ r \in Int /\ d \in 0 .. n /\ r = N + d
  BY FitsFacts, SMTT(30) DEF Open, Sound, Fits, Run
<1>2. nr \in SeqNum
  BY <1>1, NumOfSum, SeqModAssumption
<1>3. RemoveAcked(f, nr) = IF d = 0 THEN f ELSE g
  BY <1>1, AckedCountRun, ZenonT(60) DEF RemoveAcked
<1>4. Open(RemoveAcked(f, nr)) /\ RemoveAcked(f, nr).state = f.state
  BY <1>2, RemoveAckedOpen
<1>5. CASE d = 0
  <2>1. r = N
    BY <1>1, <1>5
  <2> QED BY <1>3, <1>4, <1>5, <2>1
<1>6. CASE d # 0
  <2>1. Len(q) = n - d /\ \A i \in 1 .. n - d : q[i] = f.sent[d + i]
    <3>1. \A i \in d + 1 .. n : f.sent[i] \in Item
      BY <1>1
    <3>2. d + 1 \in Int /\ n \in Int /\ n - (d + 1) + 1 = n - d
      BY <1>1
    <3>3. \A i \in 1 .. n - d : d + 1 + i - 1 = d + i
      BY <1>1
    <3>4. /\ Len(q) = IF d + 1 <= n THEN n - (d + 1) + 1 ELSE 0
          /\ \A i \in 1 .. n - (d + 1) + 1 : q[i] = f.sent[d + 1 + i - 1]
      BY <3>1, <3>2, SubSeqProperties
    <3> HIDE DEF q, d
    <3> QED BY <1>1, <3>2, <3>3, <3>4
  <2> HIDE DEF q, d, nr
  <2>2. /\ g.sent = q /\ g.nnr = nr /\ g.vs = f.vs /\ g.tx = f.tx /\ g.wnd = f.wnd
        /\ g.wait = f.wait /\ g.hdr = f.hdr
    BY <1>1 DEF FopRecord
  <2> HIDE DEF g
  <2>3. r + Len(g.sent) = N + n
    <3>1. Len(g.sent) = n - d
      BY <2>1, <2>2
    <3> HIDE DEF n
    <3> QED BY <1>1, <3>1
  <2>4. Len(g.sent) <= g.wnd
    <3>1. n <= f.wnd /\ f.wnd \in Int
      BY <1>1, FitsFacts DEF Run
    <3> QED BY <1>1, <2>1, <2>2, <3>1
  <2>5. \A i \in 1 .. Len(g.sent) : /\ g.sent[i].seq = Num(r + i - 1) /\ g.sent[i].code = "AD"
                                     /\ g.sent[i].sdu = B.sdu[r + i - 1]
    <3> SUFFICES ASSUME NEW i \in 1 .. n - d
                 PROVE  /\ q[i].seq = Num(r + i - 1) /\ q[i].code = "AD"
                        /\ q[i].sdu = B.sdu[r + i - 1]
      BY <2>1, <2>2
    <3>1. d + i \in 1 .. n /\ N + (d + i) - 1 = r + i - 1
      BY <1>1
    <3>2. /\ f.sent[d + i].seq = Num(N + (d + i) - 1) /\ f.sent[d + i].code = "AD"
          /\ f.sent[d + i].sdu = B.sdu[N + (d + i) - 1]
      BY <3>1 DEF Run
    <3> QED BY <2>1, <3>1, <3>2
  <2>6. Run(g, r, B)
    BY <1>1, <2>2, <2>3, <2>4, <2>5 DEF Run, nr
  <2> QED BY <1>3, <1>4, <1>6, <2>2, <2>3, <2>6 DEF nr, n
<1> QED BY <1>5, <1>6

(* The same items, with another flag here and there. *)
Reflagged(s, q) ==
    /\ DOMAIN q = DOMAIN s /\ q = [i \in DOMAIN q |-> q[i]]
    /\ \A i \in DOMAIN s : \E b \in BOOLEAN : q[i] = s[i] \/ q[i] = [s[i] EXCEPT !.rt = b]

(* They are the same run. *)
LEMMA ReflaggedRun ==
    ASSUME NEW f, NEW g, NEW B, NEW N, Fits(f), Run(f, N, B), Reflagged(f.sent, g.sent),
           g.vs = f.vs, g.nnr = f.nnr, g.wnd = f.wnd, g.wait = f.wait, g.hdr = f.hdr
    PROVE  Run(g, N, B) /\ Len(g.sent) = Len(f.sent)
<1> DEFINE q == g.sent
<1>1. /\ f.sent \in Seq(Item) /\ Len(f.sent) \in Nat /\ DOMAIN f.sent = 1 .. Len(f.sent)
      /\ \A i \in 1 .. Len(f.sent) : f.sent[i] \in Item
  BY FitsFacts
<1>2. \A it \in Item, b \in BOOLEAN :
         /\ [it EXCEPT !.rt = b] \in Item
         /\ [it EXCEPT !.rt = b].seq = it.seq /\ [it EXCEPT !.rt = b].code = it.code
         /\ [it EXCEPT !.rt = b].sdu = it.sdu
  BY DEF Item
<1>3. \A i \in 1 .. Len(f.sent) :
         /\ q[i] \in Item /\ q[i].seq = f.sent[i].seq /\ q[i].code = f.sent[i].code
         /\ q[i].sdu = f.sent[i].sdu
  <2> SUFFICES ASSUME NEW i \in 1 .. Len(f.sent)
               PROVE  /\ q[i] \in Item /\ q[i].seq = f.sent[i].seq /\ q[i].code = f.sent[i].code
                      /\ q[i].sdu = f.sent[i].sdu
    OBVIOUS
  <2>1. PICK b \in BOOLEAN : q[i] = f.sent[i] \/ q[i] = [f.sent[i] EXCEPT !.rt = b]
    BY <1>1 DEF Reflagged
  <2>2. f.sent[i] \in Item
    BY <1>1
  <2> HIDE DEF q
  <2> QED BY <1>2, <2>1, <2>2, ZenonT(60)
<1>4. Len(q) = Len(f.sent)
  <2>1. q \in [1 .. Len(f.sent) -> Item]
    BY <1>1, <1>3 DEF Reflagged
  <2> QED BY <1>1, <2>1
<1>5. \A i \in 1 .. Len(g.sent) : /\ g.sent[i].seq = Num(N + i - 1) /\ g.sent[i].code = "AD"
                                   /\ g.sent[i].sdu = B.sdu[N + i - 1]
  <2>1. \A i \in 1 .. Len(f.sent) : /\ f.sent[i].seq = Num(N + i - 1) /\ f.sent[i].code = "AD"
                                     /\ f.sent[i].sdu = B.sdu[N + i - 1]
    BY DEF Run
  <2> QED BY <1>3, <1>4, <2>1
<1>6. Len(g.sent) = Len(f.sent)
  BY <1>4
<1>7. /\ N \in Int /\ Len(g.sent) <= g.wnd
      /\ g.nnr = Num(N) /\ g.vs = Num(N + Len(g.sent))
      /\ B.end = N + Len(g.sent) + Len(g.wait)
      /\ g.wait # <<>> => g.hdr = "AD" /\ g.wait[1] = B.sdu[N + Len(g.sent)]
  BY <1>6 DEF Run
<1> QED BY <1>5, <1>6, <1>7 DEF Run

(* osdlp_initiate_ad_retransmission clears the tx queue and changes flags. *)
LEMMA InitiateAdRetransmissionRun ==
    ASSUME NEW f, Open(f), NEW B, NEW N, Run(f, N, B)
    PROVE  LET g == InitiateAdRetransmission(f)
           IN  /\ Open(g) /\ g.state = f.state /\ Goes(f, g, N, N + Len(f.sent), B)
               /\ Len(g.sent) = Len(f.sent)
<1> DEFINE q == [i \in DOMAIN f.sent |->
                   IF f.sent[i].type = "A" THEN [f.sent[i] EXCEPT !.rt = TRUE] ELSE f.sent[i]]
           n == (f.txCnt + 1) % CntMod
           g == [f EXCEPT !.tx = <<>>, !.txCnt = n, !.armed = TRUE, !.sent = q]
<1>1. f \in FopRecord /\ Fits(f) /\ Len(f.sent) \in Nat /\ N \in Int
  BY FitsFacts DEF Open, Sound, Fits, Run
<1>2. InitiateAdRetransmission(f) = g
  BY <1>1 DEF InitiateAdRetransmission, FopRecord
<1>3. Open(g) /\ g.state = f.state
  <2> HIDE DEF g
  <2> QED BY <1>2, InitiateAdRetransmissionOpen
<1>4. Reflagged(f.sent, q)
  <2>1. DOMAIN q = DOMAIN f.sent
    OBVIOUS
  <2>2. \A i \in DOMAIN f.sent : q[i] = f.sent[i] \/ q[i] = [f.sent[i] EXCEPT !.rt = TRUE]
    OBVIOUS
  <2>3. q = [i \in DOMAIN q |-> q[i]]
    BY <2>1
  <2> HIDE DEF q
  <2> QED BY <2>1, <2>2, <2>3 DEF Reflagged
<1> HIDE DEF q, n
<1>5. /\ g.sent = q /\ g.vs = f.vs /\ g.nnr = f.nnr /\ g.wnd = f.wnd
      /\ g.wait = f.wait /\ g.hdr = f.hdr /\ g.tx = <<>>
  BY <1>1 DEF FopRecord
<1> HIDE DEF g
<1>6. Run(g, N, B) /\ Len(g.sent) = Len(f.sent)
  BY <1>1, <1>4, <1>5, ReflaggedRun
<1>7. Sends(f.tx, g.tx, N, N + Len(g.sent), B)
  <2>1. Len(g.tx) = 0 /\ 1 .. 0 = {}
    BY <1>5
  <2> QED BY <2>1 DEF Sends
<1>8. N + Len(f.sent) <= N + Len(g.sent)
  BY <1>1, <1>6
<1>9. Goes(f, g, N, N + Len(f.sent), B)
  BY <1>5, <1>6, <1>7, <1>8 DEF Goes
<1> QED BY <1>2, <1>3, <1>6, <1>9

(* The frames of a stretch of the sent queue, behind the tx queue. *)
LEMMA SendsPart ==
    ASSUME NEW f, Fits(f), NEW B, NEW N, Run(f, N, B),
           NEW a \in 1 .. Len(f.sent), NEW e \in a - 1 .. Len(f.sent)
    PROVE  Sends(f.tx, f.tx \o Frames(SubSeq(f.sent, a, e)), N, N + Len(f.sent), B)
<1> DEFINE part == SubSeq(f.sent, a, e)
           new == Frames(part)
           V == N + Len(f.sent)
           n == e - a + 1
<1>1. /\ f.sent \in Seq(Item) /\ f.tx \in Seq(Frame) /\ Len(f.sent) \in Nat /\ N \in Int
      /\ DOMAIN f.sent = 1 .. Len(f.sent) /\ a \in Int /\ e \in Int /\ n \in Nat
  BY FitsFacts DEF Run
<1>2. /\ Len(part) = n /\ part \in Seq(Item)
      /\ \A i \in 1 .. n : part[i] = f.sent[a + i - 1]
  <2>1. \A i \in a .. e : f.sent[i] \in Item
    BY <1>1
  <2>2. CASE a <= e
    BY <1>1, <2>1, <2>2, SubSeqProperties
  <2>3. CASE ~ (a <= e)
    <3>1. n = 0 /\ 1 .. 0 = {}
      BY <1>1, <2>3
    <3> QED BY <1>1, <2>1, <2>3, <3>1, SubSeqProperties
  <2> QED BY <2>2, <2>3
<1> HIDE DEF part
<1>3. /\ new \in Seq(Frame) /\ Len(new) = n
      /\ \A i \in 1 .. n : new[i] = FrameOf(part[i])
  <2>1. new \in Seq(Frame) /\ Len(new) = Len(part)
    BY <1>2, FramesTyped
  <2>2. DOMAIN part = 1 .. Len(part)
    BY <1>2
  <2> QED BY <1>2, <2>1, <2>2 DEF Frames
<1>4. ASSUME NEW i \in 1 .. n PROVE NewAd(new[i], N, V, B)
  <2> DEFINE j == a + i - 1
             p == N + j - 1
  <2>1. j \in 1 .. Len(f.sent) /\ p \in N .. V - 1
    BY <1>1
  <2>2. f.sent[j].seq = Num(p) /\ f.sent[j].code = "AD" /\ f.sent[j].sdu = B.sdu[p]
    BY <2>1 DEF Run
  <2> HIDE DEF Num
  <2>3. new[i] = FrameOf(f.sent[j])
    BY <1>2, <1>3
  <2>4. new[i].code = "AD" /\ new[i].num = Num(p) /\ new[i].sdu = B.sdu[p]
    BY <2>2, <2>3 DEF FrameOf
  <2> HIDE DEF new, p, V
  <2> QED BY <1>1, <2>1, <2>4, NewAdMade
<1> HIDE DEF new, V, n
<1>5. \A i \in 1 .. Len(new) : NewAd(new[i], N, V, B)
  BY <1>3, <1>4
<1>6. Sends(f.tx, f.tx \o new, N, V, B)
  BY <1>1, <1>3, <1>5, SendsJoined
<1> QED BY <1>6 DEF new, part, V

(***************************************************************************)
(* The frames one call of osdlp_look_for_fdu sends again are of the run,   *)
(* so that in an open state no flag is left; a tx queue without room ends  *)
(* in an error.                                                            *)
(***************************************************************************)
LEMMA ResendRun ==
    ASSUME NEW f, Open(f), NEW B, NEW N, Run(f, N, B)
    PROVE  LET g == Resend(f)
           IN  \/ g.signal = "UNDEF_ERROR" /\ Drops(f, g, N, N + Len(f.sent), B)
               \/ /\ Open(g) /\ g.state = f.state /\ Goes(f, g, N, N + Len(f.sent), B)
                  /\ Len(g.sent) = Len(f.sent)
                  /\ f.state \in OpenStates => Flagged(g) = {}
<1>1. /\ f \in FopRecord /\ Fits(f) /\ Adjacent(f) /\ f.sent \in Seq(Item)
      /\ f.tx \in Seq(Frame) /\ Len(f.tx) \in Nat /\ Len(f.sent) \in Nat /\ N \in Int
      /\ DOMAIN f.sent = 1 .. Len(f.sent)
  BY FitsFacts DEF Open, Sound, Fits, Run, Matched
<1>2. CASE Flagged(f) = {}
  <2>1. Resend(f) = f
    BY <1>2 DEF Resend
  <2>2. Goes(f, f, N, N + Len(f.sent), B)
    BY <1>1, GoesSame
  <2> QED BY <1>2, <2>1, <2>2
<1>3. CASE Flagged(f) # {}
  <2> DEFINE a == RunStart(f)
             b == RunEnd(f)
             V == N + Len(f.sent)
             room == TxCap - Len(f.tx)
             s == IF f.sent[b].code = "AD" THEN f.signal ELSE "ACCEPT_TX"
             x == f.tx \o Frames(SubSeq(f.sent, a, b))
             q == [i \in DOMAIN f.sent |->
                     IF i \in a .. b THEN [f.sent[i] EXCEPT !.rt = FALSE] ELSE f.sent[i]]
             h == Alert(f, "UNDEF_ERROR")
             y == h.tx \o Frames(SubSeq(f.sent, a, a + room - 1))
             g == [f EXCEPT !.tx = x, !.sent = q, !.signal = s]
             r == [h EXCEPT !.tx = y]
  <2>1. /\ a \in 1 .. Len(f.sent) /\ b \in 1 .. Len(f.sent) /\ a <= b
        /\ a .. b \subseteq Flagged(f) /\ \A j \in Flagged(f) : a <= j
        /\ f.state \in OpenStates /\ f.sent[b].code = "AD" => \A i \in Flagged(f) : i <= b
    BY <1>1, <1>3, FlaggedBounds, RunDefined
  <2>2. Resend(f) = IF b - a + 1 <= room THEN g ELSE r
    <3>1. g = [f EXCEPT !.tx = @ \o Frames(SubSeq(f.sent, a, b)),
                        !.sent = [i \in DOMAIN @ |->
                                    IF i \in a .. b THEN [@[i] EXCEPT !.rt = FALSE] ELSE @[i]],
                        !.signal = IF f.sent[b].code = "AD" THEN @ ELSE "ACCEPT_TX"]
      BY <1>1 DEF FopRecord
    <3>2. r = [h EXCEPT !.tx = @ \o Frames(SubSeq(f.sent, a, a + room - 1))]
      OBVIOUS
    <3> QED BY <1>3, <3>1, <3>2 DEF Resend
  <2>3. CASE ~ (b - a + 1 <= room)
    <3>1. /\ h \in FopRecord /\ h.signal = "UNDEF_ERROR" /\ h.wait = <<>>
          /\ h.sent = <<>> /\ h.wnd = f.wnd /\ h.tx = f.tx
      <4>1. /\ h.signal = "UNDEF_ERROR" /\ h.wait = <<>>
            /\ h.sent = <<>> /\ h.wnd = f.wnd /\ h.tx = f.tx
        BY <1>1 DEF Alert, FopRecord
      <4>2. Sound(h)
        BY <1>1, AlertSound DEF Signals, Alerts
      <4> QED BY <4>1, <4>2 DEF Sound, Fits
    <3> HIDE DEF h
    <3>2. Sends(f.tx, y, N, V, B)
      <4>1. a + room - 1 \in a - 1 .. Len(f.sent)
        <5>1. room \in Nat
          BY <1>1, TxCapAssumption DEF Open, Sound, Fits
        <5> HIDE DEF a, b, room
        <5> QED BY <1>1, <2>1, <2>3, <5>1
      <4> HIDE DEF a, b, room
      <4> QED BY <1>1, <2>1, <3>1, <4>1, SendsPart
    <3> HIDE DEF y
    <3>3. r.signal = "UNDEF_ERROR" /\ Drops(f, r, N, V, B)
      <4>1. /\ r.signal = "UNDEF_ERROR" /\ r.wait = <<>> /\ r.sent = <<>> /\ r.wnd = f.wnd
            /\ r.tx = y
        BY <3>1 DEF FopRecord
      <4> HIDE DEF r
      <4> QED BY <3>2, <4>1 DEF Drops
    <3> HIDE DEF r, room
    <3> QED BY <2>2, <2>3, <3>3
  <2>4. CASE b - a + 1 <= room
    <3>1. Resend(f) = g
      BY <2>2, <2>4
    <3>2. OpenOrPurged(f, Resend(f))
      BY ResendSound
    <3>3. Reflagged(f.sent, q)
      <4>1. DOMAIN q = DOMAIN f.sent
        OBVIOUS
      <4>2. \A i \in DOMAIN f.sent : q[i] = f.sent[i] \/ q[i] = [f.sent[i] EXCEPT !.rt = FALSE]
        OBVIOUS
      <4>3. q = [i \in DOMAIN q |-> q[i]]
        BY <4>1
      <4> HIDE DEF q
      <4> QED BY <4>1, <4>2, <4>3 DEF Reflagged
    <3>4. f.state \in OpenStates => \A i \in DOMAIN q : ~ (q[i].type = "A" /\ q[i].rt)
      <4> SUFFICES ASSUME f.state \in OpenStates, NEW i \in 1 .. Len(f.sent)
                   PROVE  ~ (q[i].type = "A" /\ q[i].rt)
        BY <1>1
      <4>1. f.sent[b].code = "AD"
        BY <2>1 DEF Run
      <4>2. i \in Flagged(f) => i \in a .. b
        <5>1. i \in Flagged(f) => a <= i /\ i <= b
          BY <2>1, <4>1
        <5> QED BY <2>1, <5>1
      <4>3. f.sent[i] \in Item
        BY <1>1
      <4>4. CASE i \in a .. b
        <5>1. q[i] = [f.sent[i] EXCEPT !.rt = FALSE]
          BY <1>1, <4>4
        <5> HIDE DEF q
        <5> QED BY <4>3, <5>1 DEF Item
      <4>5. CASE i \notin a .. b
        <5>1. q[i] = f.sent[i]
          BY <1>1, <4>5
        <5> QED BY <1>1, <4>2, <4>5, <5>1 DEF Flagged
      <4> QED BY <4>4, <4>5
    <3>5. Sends(f.tx, x, N, V, B)
      <4>1. b \in a - 1 .. Len(f.sent)
        <5> HIDE DEF a, b
        <5> QED BY <1>1, <2>1
      <4> HIDE DEF a, b
      <4> QED BY <1>1, <2>1, <4>1, SendsPart
    <3> HIDE DEF x, q, s
    <3>6. /\ g.sent = q /\ g.tx = x /\ g.vs = f.vs /\ g.nnr = f.nnr /\ g.wnd = f.wnd
          /\ g.wait = f.wait /\ g.hdr = f.hdr /\ g.state = f.state
      BY <1>1 DEF FopRecord
    <3> HIDE DEF g
    <3>7. Run(g, N, B) /\ Len(g.sent) = Len(f.sent)
      BY <1>1, <3>3, <3>6, ReflaggedRun
    <3>8. Goes(f, g, N, N + Len(f.sent), B)
      BY <1>1, <3>5, <3>6, <3>7 DEF Goes
    <3>9. Open(g)
      BY <3>1, <3>2, <3>6 DEF OpenOrPurged, Open
    <3>10. f.state \in OpenStates => Flagged(g) = {}
      BY <3>4, <3>6 DEF Flagged
    <3> QED BY <3>1, <3>6, <3>7, <3>8, <3>9, <3>10
  <2> QED BY <2>3, <2>4
<1> QED BY <1>2, <1>3

(* One more frame behind a queue. *)
LEMMA SendsAppended ==
    ASSUME NEW t \in Seq(Frame), NEW fr \in Frame, NEW B, NEW N, NEW V, NewAd(fr, N, V, B)
    PROVE  Sends(t, Append(t, fr), N, V, B)
<1> DEFINE x == Append(t, fr)
<1>1. Len(t) \in Nat /\ Len(x) = Len(t) + 1 /\ x[Len(t) + 1] = fr
  BY AppendProperties
<1>2. \A i \in 1 .. Len(t) : x[i] = t[i]
  BY AppendProperties
<1> HIDE DEF x
<1>3. ASSUME NEW i \in Len(t) + 1 .. Len(x) PROVE NewAd(x[i], N, V, B)
  <2>1. i = Len(t) + 1
    BY <1>1
  <2> QED BY <1>1, <2>1
<1>4. Len(t) <= Len(x)
  BY <1>1
<1>5. Sends(t, x, N, V, B)
  BY <1>2, <1>3, <1>4 DEF Sends
<1> QED BY <1>5 DEF x

(* fop_look_for_fdu's window test, with and without the wrap, leaves room in the window. *)
LEMMA InWindowRun ==
    ASSUME NEW f, Fits(f), NEW B, NEW N, Run(f, N, B), InWindow(f)
    PROVE  Len(f.sent) < f.wnd
<1> DEFINE n == Len(f.sent)
<1>1. n \in Nat /\ f.wnd \in 1 .. SeqMod - 1 /\ n <= f.wnd /\ N \in Int
  BY FitsFacts DEF Run
<1>2. n \in 0 .. SeqMod - 1
  BY <1>1, SeqModAssumption
<1>3. /\ f.nnr \in SeqNum
      /\ f.vs = IF f.nnr + n < SeqMod THEN f.nnr + n ELSE f.nnr + n - SeqMod
  BY <1>1, <1>2, NumAhead DEF Run
<1>4. f.nnr \in 0 .. SeqMod - 1 /\ SeqMod \in Nat
  BY <1>3, SeqModAssumption DEF SeqNum
<1>5. CASE f.nnr + f.wnd >= SeqMod
  <2> DEFINE e == f.nnr + f.wnd
  <2>1. e \in Int /\ -SeqMod < e /\ e < 2 * SeqMod /\ ~ (e < 0) /\ ~ (e < SeqMod)
    BY <1>1, <1>4, <1>5
  <2>2. e % SeqMod = e - SeqMod
    <3> HIDE DEF e
    <3> QED BY <2>1, ModOnce
  <2>3. f.vs >= f.nnr \/ f.vs < e % SeqMod
    BY <1>5 DEF InWindow
  <2>4. f.vs >= f.nnr \/ f.vs < e - SeqMod
    <3> HIDE DEF e
    <3> QED BY <2>2, <2>3
  <2> HIDE DEF n
  <2>5. CASE f.nnr + n < SeqMod
    <3>1. f.nnr + n < f.nnr + f.wnd
      BY <1>1, <1>4, <1>5, <2>5
    <3> QED BY <1>1, <1>4, <3>1 DEF n
  <2>6. CASE ~ (f.nnr + n < SeqMod)
    <3>1. f.vs = f.nnr + n - SeqMod
      BY <1>3, <2>6
    <3>2. n < f.wnd
      BY <1>1, <1>2, <1>4, <2>4, <3>1
    <3> QED BY <3>2 DEF n
  <2> QED BY <2>5, <2>6
<1>6. CASE ~ (f.nnr + f.wnd >= SeqMod)
  <2>1. f.vs < f.nnr + f.wnd
    BY <1>6 DEF InWindow
  <2> HIDE DEF n
  <2>2. f.nnr + n < SeqMod
    BY <1>1, <1>4, <1>6
  <2>3. f.vs = f.nnr + n
    BY <1>3, <2>2
  <2>4. n < f.wnd
    BY <1>1, <1>4, <2>1, <2>3
  <2> QED BY <2>4 DEF n
<1> QED BY <1>5, <1>6

(* osdlp_transmit_type_ad continues the run, or ends in an error without room. *)
LEMMA TransmitTypeAdRun ==
    ASSUME NEW f, Open(f), NEW B, NEW N, Run(f, N, B), f.wait # <<>>, Len(f.sent) < f.wnd,
           f.state \in OpenStates => Flagged(f) = {}
    PROVE  LET g == TransmitTypeAd(f)
           IN  \/ /\ g.signal = "UNDEF_ERROR"
                  /\ g.state = "INIT" => Drops(f, g, N, N + Len(f.sent), B)
               \/ g.state = f.state /\ Goes(f, g, N, N + Len(f.sent), B)
<1> DEFINE it == [type |-> "A", seq |-> f.vs, rt |-> FALSE, code |-> f.hdr, sdu |-> Head(f.wait)]
           fr == FrameOf(it)
           n  == IF f.sent = <<>> THEN 1 ELSE f.txCnt
           v  == Inc(f.vs)
           g  == [f EXCEPT !.wait = <<>>, !.vs = Inc(@), !.armed = TRUE, !.txCnt = n]
           q  == Append(f.sent, it)
           x  == Append(f.tx, fr)
           h  == [g EXCEPT !.sent = Append(@, it), !.tx = Append(@, FrameOf(it))]
           r  == IF f.hdr = "AD" /\ f.state \in OpenStates THEN Resend(h) ELSE h
           V  == N + Len(f.sent)
           last == Say(h, "ACCEPT_TX")
<1>1. /\ f \in FopRecord /\ Fits(f) /\ f.vs \in SeqNum /\ f.hdr = "AD" /\ f.wait \in Seq(SDU)
      /\ n \in 0 .. CntMod - 1 /\ f.sent \in Seq(Item) /\ f.tx \in Seq(Frame)
      /\ Len(f.sent) <= SentCap /\ Len(f.tx) <= TxCap /\ Len(f.sent) \in Nat /\ Len(f.tx) \in Nat
  <2>1. f.hdr = "AD"
    BY DEF Run
  <2> QED BY <2>1, SeqNumFacts, SMTT(30) DEF Open, Sound, Fits, FopRecord
<1>2. V \in Int /\ N \in Int /\ N <= V /\ f.wnd \in Int
  BY <1>1, FitsFacts, SMTT(30) DEF Run
<1>3. /\ it \in Item /\ it.type = "A" /\ it.rt = FALSE /\ it.seq = f.vs /\ it.code = "AD"
      /\ fr.code = "AD" /\ fr.num = f.vs /\ fr \in Frame
      /\ it.sdu = B.sdu[V] /\ fr.sdu = B.sdu[V]
  <2>1. Head(f.wait) \in SDU /\ Head(f.wait) = B.sdu[V]
    <3>1. Head(f.wait) \in SDU /\ Head(f.wait) = f.wait[1]
      BY <1>1, HeadTailProperties
    <3>2. f.wait[1] = B.sdu[V]
      BY DEF Run
    <3> QED BY <3>1, <3>2
  <2> QED BY <1>1, <2>1 DEF Item, FrameOf, Frame, Codes
<1>4. TransmitTypeAd(f) = CASE Len(f.sent) = SentCap -> Say(g, "UNDEF_ERROR")
                            [] Len(f.sent) < SentCap /\ TxFull(f) -> Alert(g, "UNDEF_ERROR")
                            [] OTHER -> Say(r, "ACCEPT_TX")
  BY DEF TransmitTypeAd
<1>5. /\ q \in Seq(Item) /\ Len(q) = Len(f.sent) + 1
      /\ \A i \in 1 .. Len(f.sent) : q[i] = f.sent[i]
      /\ q[Len(f.sent) + 1] = it
  BY <1>1, <1>3, AppendProperties
<1> HIDE DEF n, it
<1>6. /\ Open(g) /\ g.state = f.state /\ g.ss = f.ss /\ g.sent = f.sent
      /\ g.tx = f.tx /\ g.wait = <<>>
  BY <1>1, DequeuedOpen
<1>7. g.vs = v /\ g.nnr = f.nnr /\ g.wnd = f.wnd /\ g.hdr = f.hdr
  BY <1>1 DEF FopRecord
<1>8. g \in FopRecord
  BY <1>6 DEF Open, Sound, Fits
<1> HIDE DEF g, v
<1>9. /\ Say(g, "UNDEF_ERROR").signal = "UNDEF_ERROR" /\ Say(g, "UNDEF_ERROR").state # "INIT"
      /\ Alert(g, "UNDEF_ERROR").signal = "UNDEF_ERROR" /\ Drops(f, Alert(g, "UNDEF_ERROR"), N, V, B)
  <2> DEFINE y == Say(g, "UNDEF_ERROR")
             z == Alert(g, "UNDEF_ERROR")
  <2>1. y.signal = "UNDEF_ERROR" /\ y.state = f.state /\ f.state # "INIT"
    BY <1>6, <1>8 DEF Say, FopRecord, Open, AdStates, OpenStates
  <2>2. /\ z.signal = "UNDEF_ERROR" /\ z.sent = <<>> /\ z.wait = <<>> /\ z.wnd = f.wnd
        /\ z.tx = f.tx
    BY <1>6, <1>7, <1>8 DEF Alert, FopRecord
  <2> HIDE DEF y, z
  <2>3. Drops(f, z, N, V, B)
    <3>1. Sends(f.tx, z.tx, N, V, B)
      BY <1>1, <2>2, SendsNothing
    <3> QED BY <2>2, <3>1 DEF Drops
  <2> QED BY <2>1, <2>2, <2>3 DEF y, z
<1>10. CASE ~ (Len(f.sent) < SentCap /\ ~ TxFull(f))
  <2>1. \/ TransmitTypeAd(f) = Say(g, "UNDEF_ERROR")
        \/ TransmitTypeAd(f) = Alert(g, "UNDEF_ERROR")
    BY <1>1, <1>4, <1>10, SentCapAssumption
  <2> QED BY <1>9, <2>1
<1>11. CASE Len(f.sent) < SentCap /\ ~ TxFull(f)
  <2>1. TransmitTypeAd(f) = Say(r, "ACCEPT_TX")
    BY <1>1, <1>4, <1>11, SentCapAssumption
  <2>2. Len(f.tx) < TxCap
    BY <1>1, <1>11, TxCapAssumption DEF TxFull
  <2>3. Open(h)
    BY <1>3, <1>6, <1>11, <2>2, EnqueuedOpen
  <2>4. /\ h.sent = q /\ h.tx = x /\ h.vs = v /\ h.nnr = f.nnr /\ h.wnd = f.wnd
        /\ h.wait = <<>> /\ h.state = f.state
    <3>1. h = [g EXCEPT !.sent = q, !.tx = x]
      BY <1>6, <1>8 DEF FopRecord
    <3> HIDE DEF h, q, x
    <3> QED BY <1>6, <1>7, <1>8, <3>1 DEF FopRecord
  <2> HIDE DEF h
  <2>5. f.state \in OpenStates => r = h
    <3> SUFFICES ASSUME f.state \in OpenStates PROVE Flagged(h) = {}
      BY DEF Resend
    <3>1. DOMAIN q = 1 .. Len(f.sent) + 1 /\ DOMAIN f.sent = 1 .. Len(f.sent)
      BY <1>1, <1>5
    <3> HIDE DEF q
    <3>2. ASSUME NEW i \in 1 .. Len(f.sent) + 1 PROVE ~ (q[i].type = "A" /\ q[i].rt)
      <4>1. CASE i = Len(f.sent) + 1
        BY <1>3, <1>5, <4>1
      <4>2. CASE i # Len(f.sent) + 1
        <5>1. i \in 1 .. Len(f.sent)
          BY <1>1, <4>2
        <5> QED BY <1>5, <3>1, <5>1 DEF Flagged
      <4> QED BY <4>1, <4>2
    <3> QED BY <2>4, <3>1, <3>2 DEF Flagged
  <2>6. r = h
    BY <2>5
  <2>7. /\ last.sent = q /\ last.tx = x /\ last.vs = v /\ last.nnr = f.nnr /\ last.wnd = f.wnd
        /\ last.wait = <<>> /\ last.state = f.state
    BY <2>3, <2>4 DEF Say, Open, Sound, Fits, FopRecord
  <2> HIDE DEF last, r
  <2>8. V + 1 = N + Len(q) /\ v = Num(V + 1) /\ f.vs = Num(V) /\ Len(q) <= f.wnd
    <3>1. f.vs = Num(V)
      BY DEF Run
    <3>2. v = Num(V + 1)
      BY <1>2, <3>1, NumNext DEF v
    <3> HIDE DEF q
    <3> QED BY <1>1, <1>2, <1>5, <3>1, <3>2
  <2>9. ASSUME NEW i \in 1 .. Len(q)
        PROVE  q[i].seq = Num(N + i - 1) /\ q[i].code = "AD" /\ q[i].sdu = B.sdu[N + i - 1]
    <3> HIDE DEF q
    <3>1. CASE i = Len(f.sent) + 1
      <4>1. N + i - 1 = V
        BY <1>1, <1>2, <3>1
      <4> QED BY <1>3, <1>5, <2>8, <3>1, <4>1
    <3>2. CASE i # Len(f.sent) + 1
      <4>1. i \in 1 .. Len(f.sent)
        BY <1>1, <1>5, <3>2
      <4> QED BY <1>5, <4>1 DEF Run
    <3> QED BY <3>1, <3>2
  <2>10. Sends(f.tx, x, N, V + 1, B)
    <3> HIDE DEF V, fr
    <3>1. V \in N .. (V + 1) - 1
      BY <1>2
    <3>2. NewAd(fr, N, V + 1, B)
      BY <1>2, <1>3, <2>8, <3>1, NewAdMade
    <3> QED BY <1>1, <1>3, <3>2, SendsAppended
  <2> HIDE DEF q, x
  <2>11. Run(last, N, B)
    <3>1. last.nnr = Num(N)
      BY <2>7 DEF Run
    <3>2. B.end = N + Len(last.sent) + Len(last.wait)
      <4>1. B.end \in Int /\ B.end = V + 1
        <5>1. Len(f.wait) <= 1 /\ Len(f.wait) \in Nat /\ Len(f.wait) # 0
          BY <1>1, EmptySeq DEF Fits
        <5>2. B.end \in Int /\ Len(f.wait) = B.end - V
          BY BookEnd DEF Open, Sound
        <5> HIDE DEF V
        <5> QED BY <1>2, <5>1, <5>2
      <4>2. Len(last.wait) = 0 /\ Len(last.sent) = Len(f.sent) + 1
        <5>1. Len(last.sent) = Len(q)
          BY <2>7
        <5> QED BY <1>5, <2>7, <5>1 DEF q
      <4> QED BY <1>1, <1>2, <4>1, <4>2
    <3> HIDE DEF V
    <3> QED BY <1>2, <2>7, <2>8, <2>9, <3>1, <3>2 DEF Run
  <2>12. Sends(f.tx, last.tx, N, N + Len(last.sent), B) /\ V <= N + Len(last.sent)
    <3> HIDE DEF V
    <3>1. V <= V + 1
      BY <1>2
    <3> QED BY <2>7, <2>8, <2>10, <3>1
  <2>13. Goes(f, last, N, V, B)
    BY <2>7, <2>11, <2>12 DEF Goes
  <2> QED BY <2>1, <2>6, <2>7, <2>13 DEF last
<1> QED BY <1>10, <1>11

(***************************************************************************)
(* What a handler of an open service may do: go on, or end in an error.    *)
(***************************************************************************)
Carries(f, h, N, V, B) ==
    /\ h \in FopRecord /\ h.ss = 0
    /\ \/ h.signal = "UNDEF_ERROR" /\ (h.state = "INIT" => Drops(f, h, N, V, B))
       \/ h.state \in AdStates /\ Goes(f, h, N, V, B)

(* Out of service by an error or an alert. *)
Left(f, g, N, V, B) ==
    /\ g.ss = 0
    /\ \/ g.state = "INIT" /\ Drops(f, g, N, V, B)
       \/ g.state # "INIT" /\ g.signal = "UNDEF_ERROR"

(* A service that is not being initialised goes on, or is left. *)
Outcome(f, g, N, V, B) ==
    \/ Left(f, g, N, V, B)
    \/ g.state \notin {"INIT_NO_BC", "INIT_BC"} /\ g.ss # 4 /\ Goes(f, g, N, V, B)

(* Going on without a change. *)
LEMMA GoesNowhere ==
    ASSUME NEW f, NEW B, NEW N, Fits(f), Run(f, N, B)
    PROVE  Goes(f, f, N, N + Len(f.sent), B)
BY GoesSame

(* osdlp_look_for_fdu, the whole of it. *)
LEMMA LookForFduRun ==
    ASSUME NEW f, Open(f), NEW B, NEW N, Run(f, N, B)
    PROVE  Carries(f, LookForFdu(f), N, N + Len(f.sent), B)
<1> DEFINE V == N + Len(f.sent)
           g == Resend(f)
           h == LookForFdu(f)
           s == Say(g, "DELAY_RESP")
           t == TransmitTypeAd(g)
<1>1. h \in FopRecord /\ h.ss = 0
  BY LookForFduSound, OpenNotSuspended DEF Continues, Sound, Fits
<1>2. Len(f.sent) \in Nat /\ N \in Int /\ V \in Int /\ Fits(f)
  BY FitsFacts DEF Open, Sound, Run
<1>3. h = IF g.wait = <<>> THEN g ELSE IF InWindow(g) THEN t ELSE s
  BY DEF LookForFdu
<1>4. CASE g.signal = "UNDEF_ERROR" /\ Drops(f, g, N, V, B)
  <2>1. h = g
    BY <1>3, <1>4 DEF Drops
  <2> QED BY <1>1, <1>4, <2>1 DEF Carries
<1>5. CASE /\ Open(g) /\ g.state = f.state /\ Goes(f, g, N, V, B)
           /\ Len(g.sent) = Len(f.sent)
           /\ f.state \in OpenStates => Flagged(g) = {}
  <2>1. Fits(g) /\ g \in FopRecord /\ Run(g, N, B) /\ g.state \in AdStates
    BY <1>5 DEF Open, Sound, Fits, Goes
  <2> HIDE DEF g
  <2>2. CASE g.wait = <<>>
    BY <1>1, <1>3, <1>5, <2>1, <2>2 DEF Carries
  <2>3. CASE g.wait # <<>> /\ ~ InWindow(g)
    <3>1. /\ s.sent = g.sent /\ s.vs = g.vs /\ s.nnr = g.nnr /\ s.wnd = g.wnd /\ s.tx = g.tx
          /\ s.wait = g.wait /\ s.hdr = g.hdr /\ s.state = g.state
      BY <2>1 DEF Say, FopRecord
    <3>2. Fits(s) /\ h = s
      BY <1>3, <1>5, <2>3, SaySound DEF Open, Sound, Signals
    <3> HIDE DEF s
    <3>3. Goes(g, s, N, N + Len(g.sent), B)
      BY <2>1, <3>1, GoesSame
    <3>4. Goes(f, s, N, V, B)
      BY <1>2, <1>5, <2>1, <3>2, <3>3, GoesOn
    <3> QED BY <1>1, <2>1, <3>1, <3>2, <3>4 DEF Carries
  <2>4. CASE g.wait # <<>> /\ InWindow(g)
    <3>1. Len(g.sent) < g.wnd
      BY <2>1, <2>4, InWindowRun
    <3>2. \/ t.signal = "UNDEF_ERROR" /\ (t.state = "INIT" => Drops(g, t, N, V, B))
          \/ t.state = g.state /\ Goes(g, t, N, V, B)
      BY <1>5, <2>1, <2>4, <3>1, TransmitTypeAdRun
    <3>3. Fits(t) /\ h = t
      BY <1>3, <1>5, <2>4, TransmitTypeAdSound DEF Continues, Sound
    <3> HIDE DEF t
    <3>4. \/ t.signal = "UNDEF_ERROR" /\ (t.state = "INIT" => Drops(f, t, N, V, B))
          \/ t.state = g.state /\ Goes(f, t, N, V, B)
      BY <1>2, <1>5, <2>1, <3>2, <3>3, GoesOn, GoesDrops
    <3> QED BY <1>1, <2>1, <3>3, <3>4 DEF Carries
  <2> QED BY <2>2, <2>3, <2>4
<1> QED BY <1>4, <1>5, ResendRun

(* After a step that goes on. *)
LEMMA CarriesOn ==
    ASSUME NEW f, NEW g, NEW h, NEW B, NEW N, NEW V \in Int, Fits(f), Fits(g), Fits(h),
           Goes(f, g, N, V, B), V = N + Len(g.sent), Carries(g, h, N, V, B)
    PROVE  Carries(f, h, N, V, B)
<1>1. Goes(g, h, N, V, B) => Goes(f, h, N, V, B)
  BY GoesOn
<1>2. Drops(g, h, N, V, B) => Drops(f, h, N, V, B)
  BY GoesDrops
<1> QED BY <1>1, <1>2 DEF Carries

(* Another state at the end. *)
LEMMA CarriesRestated ==
    ASSUME NEW f, NEW h, NEW B, NEW N, NEW V, Fits(h), Carries(f, h, N, V, B), NEW s \in AdStates
    PROVE  Carries(f, [h EXCEPT !.state = s], N, V, B)
<1> DEFINE g == [h EXCEPT !.state = s]
<1>1. /\ g \in FopRecord /\ g.ss = h.ss /\ g.signal = h.signal /\ g.state = s
      /\ g.sent = h.sent /\ g.vs = h.vs /\ g.nnr = h.nnr /\ g.wnd = h.wnd /\ g.tx = h.tx
      /\ g.wait = h.wait /\ g.hdr = h.hdr
  BY DEF Carries, FopRecord, FopStates
<1> HIDE DEF g
<1>2. Goes(f, h, N, V, B) => Goes(f, g, N, V, B)
  BY <1>1 DEF Goes, Run
<1>3. Carries(f, g, N, V, B)
  BY <1>1, <1>2 DEF Carries, AdStates, OpenStates
<1> QED BY <1>3 DEF g

(* A service in use stays so. *)
LEMMA CarriesOutcome ==
    ASSUME NEW f, NEW h, NEW B, NEW N, NEW V, Carries(f, h, N, V, B)
    PROVE  Outcome(f, h, N, V, B)
BY DEF Carries, Outcome, Left, AdStates, OpenStates

(* Retransmission on a control word. *)
LEMMA RetransmitRun ==
    ASSUME NEW f, Open(f), NEW B, NEW N, Run(f, N, B)
    PROVE  Carries(f, Retransmit(f), N, N + Len(f.sent), B)
<1> DEFINE h == InitiateAdRetransmission(f)
           g == LookForFdu(h)
           V == N + Len(f.sent)
<1>1. Open(h) /\ h.state = f.state /\ Goes(f, h, N, V, B) /\ V = N + Len(h.sent)
  BY InitiateAdRetransmissionRun
<1> HIDE DEF h
<1>2. Carries(h, g, N, V, B) /\ Fits(g)
  BY <1>1, LookForFduRun, LookForFduSound DEF Continues, Sound, Goes
<1> HIDE DEF g
<1>3. Fits(f) /\ Fits(h) /\ V \in Int
  BY <1>1, FitsFacts DEF Open, Sound, Run
<1> HIDE DEF V
<1>4. Carries(f, g, N, V, B)
  BY <1>1, <1>2, <1>3, CarriesOn
<1>5. Carries(f, [g EXCEPT !.state = "RT_NO_WAIT"], N, V, B)
  BY <1>2, <1>4, CarriesRestated DEF AdStates, OpenStates
<1> QED BY <1>4, <1>5 DEF Retransmit, g, h, V

-----------------------------------------------------------------------------
(* The events of the sender. *)

(* An alert leaves the service. *)
LEMMA AlertLeft ==
    ASSUME NEW f, Fits(f), f.ss = 0, NEW sig, NEW B, NEW N, Run(f, N, B)
    PROVE  Left(f, Alert(f, sig), N, N + Len(f.sent), B)
<1> DEFINE g == Alert(f, sig)
<1>1. /\ g.state = "INIT" /\ g.ss = f.ss /\ g.sent = <<>> /\ g.wait = <<>>
      /\ g.wnd = f.wnd /\ g.tx = f.tx
  BY DEF Alert, Fits, FopRecord
<1> HIDE DEF g
<1>2. Sends(f.tx, g.tx, N, N + Len(f.sent), B)
  BY <1>1, FitsFacts, SendsNothing
<1>3. Drops(f, g, N, N + Len(f.sent), B)
  BY <1>1, <1>2 DEF Drops
<1>4. Left(f, g, N, N + Len(f.sent), B)
  BY <1>1, <1>3 DEF Left
<1> QED BY <1>4 DEF g

(* The events that acknowledge: what is behind N(R) is the oldest outstanding frame now. *)
LEMMA AckEventsRun ==
    ASSUME NEW f, Open(f), NEW B, NEW N, Run(f, N, B), NEW r \in N .. N + Len(f.sent)
    PROVE  LET nr == Num(r)
               V == N + Len(f.sent)
           IN  /\ Outcome(f, FopE2(f, nr), r, V, B) /\ Outcome(f, FopE6(f, nr), r, V, B)
               /\ Outcome(f, FopE8(f, nr), r, V, B) /\ Outcome(f, FopE9(f, nr), r, V, B)
               /\ Outcome(f, FopE101(f, nr), r, V, B)
<1> DEFINE nr == Num(r)
           V == N + Len(f.sent)
           g == RemoveAcked(f, nr)
           a == [g EXCEPT !.state = "ACTIVE"]
           c == [g EXCEPT !.armed = FALSE]
           l == LookForFdu(g)
<1>1. Open(g) /\ Run(g, r, B) /\ V = r + Len(g.sent) /\ g.tx = f.tx /\ g.wnd = f.wnd
  BY RemoveAckedRun
<1>2. f.state \in AdStates
  BY DEF Open
<1> HIDE DEF g
<1>3. Fits(g) /\ g \in FopRecord /\ g.ss = 0 /\ g.state \in AdStates /\ V \in Int
  BY <1>1, OpenNotSuspended, FitsFacts DEF Open, Sound, Fits, Run
<1> HIDE DEF V
<1>4. \A h : Carries(g, h, r, V, B) => Carries(f, h, r, V, B) /\ Outcome(f, h, r, V, B)
  <2>1. \A h : Carries(g, h, r, V, B) => Carries(f, h, r, V, B)
    BY <1>1 DEF Carries, Goes, Drops
  <2> QED BY <2>1, CarriesOutcome
<1>5. ASSUME NEW h, Open(h), Goes(g, h, r, V, B), h.sent = g.sent
      PROVE  Carries(g, LookForFdu(h), r, V, B)
  <2>1. Carries(h, LookForFdu(h), r, V, B) /\ V = r + Len(h.sent)
    BY <1>1, <1>5, LookForFduRun DEF Goes
  <2>2. Fits(h) /\ Fits(LookForFdu(h))
    BY <1>5, LookForFduSound DEF Continues, Open, Sound
  <2> QED BY <1>3, <1>5, <2>1, <2>2, CarriesOn
<1>6. Carries(g, l, r, V, B) /\ Fits(l)
  BY <1>1, LookForFduRun, LookForFduSound DEF Continues, Sound
<1>7. Open(c) /\ Goes(g, c, r, V, B) /\ c.sent = g.sent
  <2>1. Open(c)
    BY <1>1, TimerSound DEF Open
  <2>2. /\ c.sent = g.sent /\ c.vs = g.vs /\ c.nnr = g.nnr /\ c.wnd = g.wnd /\ c.tx = g.tx
        /\ c.wait = g.wait /\ c.hdr = g.hdr
    BY <1>3 DEF FopRecord
  <2> HIDE DEF c
  <2> QED BY <1>1, <1>3, <2>1, <2>2, GoesSame
<1>8. Open(a) /\ Goes(g, a, r, V, B) /\ a.sent = g.sent
  <2>1. Open(a)
    BY <1>1, <1>3, SetOpen DEF Open, AdStates, OpenStates
  <2>2. /\ a.sent = g.sent /\ a.vs = g.vs /\ a.nnr = g.nnr /\ a.wnd = g.wnd /\ a.tx = g.tx
        /\ a.wait = g.wait /\ a.hdr = g.hdr
    BY <1>3 DEF FopRecord
  <2> HIDE DEF a
  <2> QED BY <1>1, <1>3, <2>1, <2>2, GoesSame
<1>9. Carries(g, LookForFdu(a), r, V, B) /\ Carries(g, LookForFdu(c), r, V, B)
  BY <1>5, <1>7, <1>8
<1>10. Carries(g, [l EXCEPT !.state = "ACTIVE"], r, V, B)
  BY <1>6, CarriesRestated DEF AdStates, OpenStates
<1>11. Carries(g, [g EXCEPT !.state = "RT_WAIT"], r, V, B)
  <2>1. Carries(g, g, r, V, B)
    BY <1>1, <1>3, GoesNowhere DEF Carries
  <2> QED BY <1>3, <2>1, CarriesRestated DEF AdStates, OpenStates
<1>12. Carries(g, Retransmit(g), r, V, B)
  BY <1>1, RetransmitRun
<1>13. Outcome(f, FopE2(f, nr), r, V, B)
  BY <1>2, <1>4, <1>9 DEF FopE2, Cancel, g, c
<1>14. Outcome(f, FopE6(f, nr), r, V, B)
  <2>1. FopE6(f, nr) = CASE f.state = "ACTIVE"     -> l
                         [] f.state = "RT_NO_WAIT" -> LookForFdu(a)
                         [] f.state = "RT_WAIT"    -> [l EXCEPT !.state = "ACTIVE"]
                         [] OTHER -> f
    BY DEF FopE6, g, a, l
  <2> HIDE DEF l, a
  <2>2. f.state \in {"ACTIVE", "RT_NO_WAIT", "RT_WAIT"}
    BY <1>2 DEF AdStates, OpenStates
  <2>3. Carries(g, FopE6(f, nr), r, V, B)
    BY <1>6, <1>9, <1>10, <2>1, <2>2
  <2> QED BY <1>4, <2>3
<1>15. Outcome(f, FopE8(f, nr), r, V, B) /\ Outcome(f, FopE9(f, nr), r, V, B)
  BY <1>2, <1>4, <1>11, <1>12 DEF FopE8, FopE9, g
<1>16. Outcome(f, FopE101(f, nr), r, V, B)
  <2>1. Left(g, Alert(g, "ALERT_LIMIT"), r, V, B)
    BY <1>1, <1>3, AlertLeft
  <2>2. Left(f, Alert(g, "ALERT_LIMIT"), r, V, B)
    BY <1>1, <2>1 DEF Left, Drops
  <2> QED BY <1>2, <2>2 DEF FopE101, Outcome, g
<1> QED BY <1>13, <1>14, <1>15, <1>16 DEF V

(* A step that leaves the queues of a service in use alone. *)
LEMMA SameOutcome ==
    ASSUME NEW f, NEW g, NEW B, NEW N, Fits(f), Run(f, N, B),
           g.sent = f.sent, g.vs = f.vs, g.nnr = f.nnr, g.wnd = f.wnd, g.tx = f.tx,
           g.wait = f.wait, g.hdr = f.hdr,
           g.state \notin {"INIT_NO_BC", "INIT_BC"}, g.ss # 4
    PROVE  Outcome(f, g, N, N + Len(f.sent), B)
<1>1. Goes(f, g, N, N + Len(f.sent), B)
  BY GoesSame
<1> QED BY <1>1 DEF Outcome

(* The other events of an open service. *)
LEMMA OtherEventsRun ==
    ASSUME NEW f, Open(f), NEW B, NEW N, Run(f, N, B)
    PROVE  LET V == N + Len(f.sent)
           IN  /\ Outcome(f, FopE1(f), N, V, B) /\ Outcome(f, FopE10(f), N, V, B)
               /\ Outcome(f, FopE11(f), N, V, B) /\ Outcome(f, FopE12(f), N, V, B)
               /\ Outcome(f, FopE103(f), N, V, B) /\ Outcome(f, Say(f, "UNDEF_ERROR"), N, V, B)
               /\ \A states, sig : Outcome(f, AlertIn(f, states, sig), N, V, B)
<1> DEFINE V == N + Len(f.sent)
           w == [f EXCEPT !.state = "RT_WAIT"]
           n == [f EXCEPT !.state = "RT_NO_WAIT"]
           s == Say(f, "UNDEF_ERROR")
<1>1. Fits(f) /\ f \in FopRecord /\ f.ss = 0 /\ f.state \in AdStates
  BY OpenNotSuspended DEF Open, Sound, Fits
<1>2. Outcome(f, f, N, V, B)
  BY <1>1, SameOutcome DEF AdStates, OpenStates
<1>3. Outcome(f, w, N, V, B) /\ Outcome(f, n, N, V, B)
  <2>1. /\ w.sent = f.sent /\ w.vs = f.vs /\ w.nnr = f.nnr /\ w.wnd = f.wnd /\ w.tx = f.tx
        /\ w.wait = f.wait /\ w.hdr = f.hdr /\ w.state = "RT_WAIT" /\ w.ss = 0
    BY <1>1 DEF FopRecord
  <2>2. /\ n.sent = f.sent /\ n.vs = f.vs /\ n.nnr = f.nnr /\ n.wnd = f.wnd /\ n.tx = f.tx
        /\ n.wait = f.wait /\ n.hdr = f.hdr /\ n.state = "RT_NO_WAIT" /\ n.ss = 0
    BY <1>1 DEF FopRecord
  <2> HIDE DEF w, n
  <2> QED BY <1>1, <2>1, <2>2, SameOutcome
<1>4. Outcome(f, s, N, V, B)
  <2>1. s.signal = "UNDEF_ERROR" /\ s.ss = 0 /\ s.state # "INIT"
    BY <1>1 DEF Say, FopRecord, AdStates, OpenStates
  <2> QED BY <2>1 DEF Outcome, Left
<1>5. \A sig : Outcome(f, Alert(f, sig), N, V, B)
  BY <1>1, AlertLeft DEF Outcome
<1>6. Outcome(f, Retransmit(f), N, V, B)
  BY RetransmitRun, CarriesOutcome
<1> HIDE DEF V
<1>7. Outcome(f, FopE1(f), N, V, B)
  BY <1>1, <1>2, <1>5 DEF FopE1, AdStates, OpenStates
<1>8. \A states, sig : Outcome(f, AlertIn(f, states, sig), N, V, B)
  BY <1>2, <1>5 DEF AlertIn
<1>9. Outcome(f, FopE10(f), N, V, B) /\ Outcome(f, FopE11(f), N, V, B) /\ Outcome(f, FopE12(f), N, V, B)
  BY <1>2, <1>3, <1>6 DEF FopE10, FopE11, FopE12
<1> QED BY <1>4, <1>7, <1>8, <1>9 DEF FopE103, V

(* Every control word that reports a number of the window, to an open service. *)
LEMMA OnClcwRun ==
    ASSUME NEW f, Open(f), NEW B, NEW N, Run(f, N, B), NEW r \in N .. N + Len(f.sent),
           NEW c \in Clcw, c.nr = Num(r)
    PROVE  \E M \in {N, r} : Outcome(f, OnClcw(f, c), M, N + Len(f.sent), B)
<1> DEFINE e == ClcwEvent(f, c)
           V == N + Len(f.sent)
<1>1. e \in Events
  BY ClcwEventKnown DEF Open
<1>2. ASSUME e \in {"E2", "E6", "E8", "E9", "E101"}
      PROVE  Outcome(f, OnClcw(f, c), r, V, B)
  <2>1. /\ Outcome(f, FopE2(f, c.nr), r, V, B) /\ Outcome(f, FopE6(f, c.nr), r, V, B)
        /\ Outcome(f, FopE8(f, c.nr), r, V, B) /\ Outcome(f, FopE9(f, c.nr), r, V, B)
        /\ Outcome(f, FopE101(f, c.nr), r, V, B)
    BY AckEventsRun
  <2> HIDE DEF V
  <2> QED BY <1>2, <2>1 DEF OnClcw
<1>3. ASSUME e \in Events, e \notin {"E2", "E6", "E8", "E9", "E101"}
      PROVE  Outcome(f, OnClcw(f, c), N, V, B)
  <2>1. /\ Outcome(f, FopE1(f), N, V, B) /\ Outcome(f, FopE10(f), N, V, B)
        /\ Outcome(f, FopE11(f), N, V, B) /\ Outcome(f, FopE12(f), N, V, B)
        /\ Outcome(f, FopE103(f), N, V, B) /\ Outcome(f, Say(f, "UNDEF_ERROR"), N, V, B)
        /\ \A states, sig : Outcome(f, AlertIn(f, states, sig), N, V, B)
    BY OtherEventsRun
  <2>2. /\ Outcome(f, FopE3(f), N, V, B) /\ Outcome(f, FopE4(f), N, V, B) /\ Outcome(f, FopE5(f), N, V, B)
        /\ Outcome(f, FopE7(f), N, V, B) /\ Outcome(f, FopE13(f), N, V, B)
        /\ Outcome(f, FopE14(f), N, V, B) /\ Outcome(f, FopE102(f), N, V, B)
    BY <2>1 DEF FopE3, FopE4, FopE5, FopE7, FopE13, FopE14, FopE102
  <2> HIDE DEF V
  <2>3. CASE e \in {"E1", "E10", "E11", "E12", "E103", "NO_LIMIT"}
    BY <2>1, <2>3 DEF OnClcw
  <2>4. CASE e \in {"E3", "E4", "E5", "E7", "E13", "E14", "E102"}
    BY <2>2, <2>4 DEF OnClcw
  <2> HIDE DEF e
  <2> QED BY <1>3, <2>3, <2>4 DEF Events
<1> HIDE DEF e
<1> QED BY <1>1, <1>2, <1>3

-----------------------------------------------------------------------------
(* What is under way. *)

(***************************************************************************)
(* Behind the AD frames of a tx queue, with the SDUs of the book, stand    *)
(* numbers before V, none more than the window w behind the receiver's R,  *)
(* nor a whole window behind a frame ahead of it.  Only the first frame    *)
(* may be a control frame left from the start of the service, which        *)
(* changes nothing any more.                                               *)
(***************************************************************************)
AdAt(t, w, V, R, pos, i, B) ==
    /\ t[i].num = Num(pos[i]) /\ t[i].sdu = B.sdu[pos[i]] /\ pos[i] < V /\ R - pos[i] <= w
    /\ \A j \in 1 .. i - 1 : t[j].code = "AD" => pos[j] - pos[i] < w

BcAt(t, R, i) == i = 1 /\ t[i].code # "BD" /\ (t[i].code = "SETVR" => t[i].num = Num(R))

UpAt(t, w, V, R, pos, B) ==
    \A i \in 1 .. Len(t) : IF t[i].code = "AD" THEN AdAt(t, w, V, R, pos, i, B) ELSE BcAt(t, R, i)

Up(t, w, V, R, B) == \E pos \in [1 .. Len(t) -> Int] : UpAt(t, w, V, R, pos, B)

(* Behind the reports stand numbers of the window up to R, which do not fall back. *)
DownAt(d, N, R, rep) ==
    \A i \in 1 .. Len(d) :
        /\ N <= rep[i] /\ rep[i] <= R /\ d[i].nr = Num(rep[i])
        /\ \A j \in 1 .. i - 1 : rep[j] <= rep[i]

Down(d, N, R) == \E rep \in [1 .. Len(d) -> Int] : DownAt(d, N, R, rep)

(* What the sender sends of its window keeps the queue so. *)
LEMMA UpSends ==
    ASSUME NEW t, NEW u, Len(t) \in Nat, Len(u) \in Nat,
           NEW B, NEW N \in Int, NEW R \in Int, NEW V \in Int, NEW X \in Int, NEW w \in Int,
           N <= R, R <= V, V <= X, X - N <= w,
           Up(t, w, V, R, B), Sends(t, u, N, X, B)
    PROVE  Up(u, w, X, R, B)
<1>1. PICK pos \in [1 .. Len(t) -> Int] : UpAt(t, w, V, R, pos, B)
  BY DEF Up
<1>2. PICK m \in {0, Len(t)} : /\ m <= Len(u)
                               /\ \A i \in 1 .. m : u[i] = t[i]
                               /\ \A i \in m + 1 .. Len(u) : NewAd(u[i], N, X, B)
  BY DEF Sends
<1> DEFINE new(i) == CHOOSE p \in N .. X - 1 : u[i].num = Num(p) /\ u[i].sdu = B.sdu[p]
           q == [i \in 1 .. Len(u) |-> IF i <= m THEN pos[i] ELSE new(i)]
<1>3. \A i \in m + 1 .. Len(u) :
         /\ u[i].code = "AD" /\ new(i) \in N .. X - 1
         /\ u[i].num = Num(new(i)) /\ u[i].sdu = B.sdu[new(i)]
  BY <1>2 DEF NewAd
<1>4. m \in Nat /\ \A i \in 1 .. m : i \in 1 .. Len(t) /\ pos[i] \in Int
  BY <1>1, <1>2
<1> HIDE DEF new, Num
<1>5. /\ q \in [1 .. Len(u) -> Int]
      /\ \A i \in 1 .. m : q[i] = pos[i]
      /\ \A i \in m + 1 .. Len(u) : /\ q[i] \in N .. X - 1
                                      /\ u[i].num = Num(q[i]) /\ u[i].sdu = B.sdu[q[i]]
  <2>1. \A i \in 1 .. Len(u) : (IF i <= m THEN pos[i] ELSE new(i)) \in Int
    BY <1>3, <1>4
  <2>2. \A i \in m + 1 .. Len(u) : i \in 1 .. Len(u) /\ ~ (i <= m)
    BY <1>4
  <2>3. \A i \in 1 .. m : i \in 1 .. Len(u) /\ i <= m
    BY <1>2, <1>4
  <2> QED BY <1>3, <2>1, <2>2, <2>3
<1> HIDE DEF q
<1>6. \A j \in 1 .. Len(u) : u[j].code = "AD" => q[j] < X
  <2> SUFFICES ASSUME NEW j \in 1 .. Len(u), u[j].code = "AD" PROVE q[j] < X
    OBVIOUS
  <2>1. CASE j <= m
    <3>1. j \in 1 .. Len(t) /\ u[j] = t[j] /\ q[j] = pos[j] /\ pos[j] \in Int
      BY <1>2, <1>4, <1>5, <2>1
    <3>2. pos[j] < V
      BY <1>1, <3>1 DEF UpAt, AdAt
    <3> QED BY <3>1, <3>2
  <2>2. CASE ~ (j <= m)
    <3>1. j \in m + 1 .. Len(u)
      BY <1>4, <2>2
    <3> QED BY <1>5, <3>1
  <2> QED BY <2>1, <2>2
<1>7. \A p \in N .. X - 1 : R - p <= w /\ \A s \in Int : s < X => s - p < w
  OBVIOUS
<1>8. \A i \in 1 .. Len(u) : \A j \in 1 .. i - 1 : j \in 1 .. Len(u)
  OBVIOUS
<1>9. ASSUME NEW i \in 1 .. Len(u)
      PROVE  IF u[i].code = "AD" THEN AdAt(u, w, X, R, q, i, B) ELSE BcAt(u, R, i)
  <2>1. CASE i <= m
    <3>1. i \in 1 .. Len(t) /\ u[i] = t[i] /\ q[i] = pos[i] /\ pos[i] \in Int
      BY <1>2, <1>4, <1>5, <2>1
    <3>2. \A j \in 1 .. i - 1 : u[j] = t[j] /\ q[j] = pos[j]
      BY <1>2, <1>4, <1>5, <2>1
    <3>3. IF t[i].code = "AD" THEN AdAt(t, w, V, R, pos, i, B) ELSE BcAt(t, R, i)
      BY <1>1, <3>1 DEF UpAt
    <3>4. CASE u[i].code = "AD"
      <4>1. pos[i] < X
        BY <3>1, <3>3, <3>4 DEF AdAt
      <4> QED BY <3>1, <3>2, <3>3, <3>4, <4>1 DEF AdAt
    <3>5. CASE u[i].code # "AD"
      BY <3>1, <3>3, <3>5 DEF BcAt
    <3> QED BY <3>4, <3>5
  <2>2. CASE ~ (i <= m)
    <3>1. i \in m + 1 .. Len(u)
      BY <1>4, <2>2
    <3>2. /\ u[i].code = "AD" /\ q[i] \in N .. X - 1
          /\ u[i].num = Num(q[i]) /\ u[i].sdu = B.sdu[q[i]]
      BY <1>3, <1>5, <3>1
    <3>3. R - q[i] <= w
      BY <1>7, <3>2
    <3>4. ASSUME NEW j \in 1 .. i - 1, u[j].code = "AD" PROVE q[j] - q[i] < w
      <4>1. j \in 1 .. Len(u)
        BY <1>8
      <4>2. q[j] \in Int
        BY <1>5, <4>1
      <4>3. q[j] < X
        BY <1>6, <3>4, <4>1
      <4> QED BY <1>7, <3>2, <4>2, <4>3
    <3> QED BY <3>2, <3>3, <3>4 DEF AdAt
  <2> QED BY <2>1, <2>2
<1>10. UpAt(u, w, X, R, q, B)
  BY <1>9 DEF UpAt
<1> QED BY <1>5, <1>10 DEF Up

(* The receiver takes or loses the first frame, and may count it if it is the one it expects. *)
LEMMA UpTail ==
    ASSUME NEW B, NEW t \in Seq(Frame), t # <<>>,
           NEW R \in Int, NEW V \in Int, NEW w \in Int, R <= V, V - R <= w, w < SeqMod,
           Up(t, w, V, R, B)
    PROVE  /\ Up(Tail(t), w, V, R, B)
           /\ Head(t).code = "AD" /\ Head(t).num = Num(R) =>
                R < V /\ Up(Tail(t), w, V, R + 1, B) /\ Head(t).sdu = B.sdu[R]
           /\ Head(t).code \in {"AD", "UNLOCK", "SETVR"}
           /\ Head(t).code = "SETVR" => Head(t).num = Num(R)
<1>1. PICK pos \in [1 .. Len(t) -> Int] : UpAt(t, w, V, R, pos, B)
  BY DEF Up
<1> DEFINE u == Tail(t)
           q == [i \in 1 .. Len(u) |-> pos[i + 1]]
<1>2. /\ Len(t) \in Nat /\ 1 \in 1 .. Len(t) /\ Head(t) = t[1] /\ t[1] \in Frame
      /\ u \in Seq(Frame) /\ Len(u) = Len(t) - 1
      /\ \A i \in 1 .. Len(u) : i + 1 \in 1 .. Len(t) /\ u[i] = t[i + 1]
  BY HeadTailProperties
<1> HIDE DEF u
<1>3. /\ q \in [1 .. Len(u) -> Int]
      /\ \A i \in 1 .. Len(u) : q[i] = pos[i + 1] /\ q[i] \in Int
  BY <1>1, <1>2
<1> HIDE DEF q, Num
<1>4. ASSUME NEW i \in 1 .. Len(u)
      PROVE  u[i].code = "AD" /\ AdAt(t, w, V, R, pos, i + 1, B)
  <2>1. i + 1 \in 1 .. Len(t) /\ i + 1 # 1 /\ u[i] = t[i + 1]
    BY <1>2
  <2> QED BY <1>1, <2>1 DEF UpAt, BcAt
<1>5. ASSUME NEW S \in Int, \A i \in 1 .. Len(u) : S - q[i] <= w
      PROVE  Up(u, w, V, S, B)
  <2>1. ASSUME NEW i \in 1 .. Len(u) PROVE AdAt(u, w, V, S, q, i, B)
    <3>1. q[i] = pos[i + 1] /\ u[i] = t[i + 1] /\ q[i] \in Int
      BY <1>2, <1>3
    <3>2. /\ t[i + 1].num = Num(pos[i + 1]) /\ pos[i + 1] < V
          /\ t[i + 1].sdu = B.sdu[pos[i + 1]]
          /\ \A j \in 1 .. (i + 1) - 1 : t[j].code = "AD" => pos[j] - pos[i + 1] < w
      BY <1>4 DEF AdAt
    <3>3. ASSUME NEW j \in 1 .. i - 1 PROVE q[j] - q[i] < w
      <4>1. j \in 1 .. Len(u) /\ j + 1 \in 1 .. (i + 1) - 1
        BY <1>2
      <4>2. q[j] = pos[j + 1] /\ t[j + 1].code = "AD"
        BY <1>2, <1>3, <1>4, <4>1
      <4> QED BY <3>1, <3>2, <4>1, <4>2
    <3> QED BY <1>5, <3>1, <3>2, <3>3 DEF AdAt
  <2>2. UpAt(u, w, V, S, q, B)
    BY <1>4, <2>1 DEF UpAt
  <2> QED BY <1>3, <2>2 DEF Up
<1>6. Up(u, w, V, R, B)
  <2>1. \A i \in 1 .. Len(u) : R - q[i] <= w
    BY <1>3, <1>4 DEF AdAt
  <2> QED BY <1>5, <2>1
<1>7. ASSUME t[1].code = "AD", t[1].num = Num(R) 
      PROVE  R < V /\ Up(u, w, V, R + 1, B) /\ t[1].sdu = B.sdu[R]
  <2>1. /\ t[1].num = Num(pos[1]) /\ pos[1] < V /\ R - pos[1] <= w /\ pos[1] \in Int
        /\ t[1].sdu = B.sdu[pos[1]]
    BY <1>1, <1>2, <1>7 DEF UpAt, AdAt
  <2>2. pos[1] = R
    <3>1. pos[1] - R < SeqMod /\ R - pos[1] < SeqMod /\ Num(pos[1]) = Num(R)
      BY <1>7, <2>1, SeqModAssumption
    <3> QED BY <2>1, <3>1, NumInjective
  <2> DEFINE s == R + 1
  <2>3. ASSUME NEW i \in 1 .. Len(u) PROVE s - q[i] <= w
    <3>1. 1 \in 1 .. (i + 1) - 1
      BY <1>2
    <3>2. pos[1] - pos[i + 1] < w
      BY <1>4, <1>7, <3>1 DEF AdAt
    <3> QED BY <1>3, <2>2, <3>2
  <2>4. Up(u, w, V, s, B)
    <3>1. s \in Int
      OBVIOUS
    <3> HIDE DEF s
    <3> QED BY <1>5, <2>3, <3>1
  <2> QED BY <2>1, <2>2, <2>4
<1>8. t[1].code \in {"AD", "UNLOCK", "SETVR"} /\ (t[1].code = "SETVR" => t[1].num = Num(R))
  BY <1>1, <1>2 DEF UpAt, BcAt, Frame, Codes
<1> QED BY <1>2, <1>6, <1>7, <1>8 DEF u

(* No report, no number. *)
LEMMA DownNone ==
    ASSUME NEW N, NEW R
    PROVE  Down(<<>>, N, R)
<1> DEFINE rep == [i \in 1 .. Len(<<>>) |-> 0]
<1>1. rep \in [1 .. Len(<<>>) -> Int] /\ Len(<<>>) = 0 /\ 1 .. 0 = {}
  OBVIOUS
<1> HIDE DEF rep
<1>2. DownAt(<<>>, N, R, rep)
  BY <1>1 DEF DownAt
<1> QED BY <1>1, <1>2 DEF Down

(* The window may be wider at both ends. *)
LEMMA DownWider ==
    ASSUME NEW d, Len(d) \in Nat, NEW N \in Int, NEW R \in Int, NEW M \in Int, NEW S \in Int,
           M <= N, R <= S, Down(d, N, R)
    PROVE  Down(d, M, S)
<1>1. PICK rep \in [1 .. Len(d) -> Int] : DownAt(d, N, R, rep)
  BY DEF Down
<1>2. DownAt(d, M, S, rep)
  <2>1. ASSUME NEW i \in 1 .. Len(d) PROVE M <= rep[i] /\ rep[i] <= S
    <3>1. rep[i] \in Int /\ N <= rep[i] /\ rep[i] <= R
      BY <1>1 DEF DownAt
    <3> QED BY <3>1
  <2> QED BY <1>1, <2>1 DEF DownAt
<1> QED BY <1>2 DEF Down

(* What the sender takes is of the window, and what follows is not behind it. *)
LEMMA DownTail ==
    ASSUME NEW d \in Seq(Clcw), d # <<>>, NEW N \in Int, NEW R \in Int, Down(d, N, R)
    PROVE  \E r \in N .. R : Head(d).nr = Num(r) /\ Down(Tail(d), r, R)
<1>1. PICK rep \in [1 .. Len(d) -> Int] : DownAt(d, N, R, rep)
  BY DEF Down
<1> DEFINE u == Tail(d)
           q == [i \in 1 .. Len(u) |-> rep[i + 1]]
<1>2. /\ Len(d) \in Nat /\ 1 \in 1 .. Len(d) /\ Head(d) = d[1] /\ Len(u) \in Nat
      /\ \A i \in 1 .. Len(u) : i + 1 \in 1 .. Len(d) /\ u[i] = d[i + 1]
  BY HeadTailProperties
<1> HIDE DEF u
<1>3. /\ q \in [1 .. Len(u) -> Int]
      /\ \A i \in 1 .. Len(u) : q[i] = rep[i + 1] /\ q[i] \in Int
  BY <1>1, <1>2
<1> HIDE DEF q, Num
<1>4. rep[1] \in N .. R /\ Head(d).nr = Num(rep[1])
  BY <1>1, <1>2 DEF DownAt
<1>5. DownAt(u, rep[1], R, q)
  <2>1. ASSUME NEW i \in 1 .. Len(u)
        PROVE  /\ rep[1] <= q[i] /\ q[i] <= R /\ u[i].nr = Num(q[i])
               /\ \A j \in 1 .. i - 1 : q[j] <= q[i]
    <3>1. /\ i + 1 \in 1 .. Len(d) /\ u[i] = d[i + 1] /\ q[i] = rep[i + 1]
          /\ 1 \in 1 .. (i + 1) - 1
      BY <1>2, <1>3
    <3>2. \A j \in 1 .. i - 1 : q[j] = rep[j + 1] /\ j + 1 \in 1 .. (i + 1) - 1
      BY <1>3
    <3>3. /\ rep[i + 1] <= R /\ d[i + 1].nr = Num(rep[i + 1])
          /\ \A j \in 1 .. (i + 1) - 1 : rep[j] <= rep[i + 1]
      BY <1>1, <3>1 DEF DownAt
    <3> QED BY <3>1, <3>2, <3>3
  <2> QED BY <2>1 DEF DownAt
<1>6. Down(u, rep[1], R)
  BY <1>3, <1>5 DEF Down
<1> QED BY <1>4, <1>6 DEF u

(* The receiver reports where it is. *)
LEMMA DownReport ==
    ASSUME NEW d \in Seq(Clcw), NEW c \in Clcw, NEW N \in Int, NEW R \in Int, N <= R,
           c.nr = Num(R), Down(d, N, R)
    PROVE  Down(Append(d, c), N, R)
<1>1. PICK rep \in [1 .. Len(d) -> Int] : DownAt(d, N, R, rep)
  BY DEF Down
<1> DEFINE u == Append(d, c)
           q == [i \in 1 .. Len(u) |-> IF i <= Len(d) THEN rep[i] ELSE R]
<1>2. /\ Len(d) \in Nat /\ Len(u) = Len(d) + 1 /\ u[Len(d) + 1] = c
      /\ \A i \in 1 .. Len(d) : u[i] = d[i]
  BY AppendProperties
<1> HIDE DEF u
<1>3. /\ q \in [1 .. Len(u) -> Int]
      /\ \A i \in 1 .. Len(d) : q[i] = rep[i] /\ q[i] \in Int
      /\ q[Len(d) + 1] = R
  BY <1>1, <1>2
<1> HIDE DEF q, Num
<1>4. DownAt(u, N, R, q)
  <2>1. ASSUME NEW i \in 1 .. Len(u)
        PROVE  /\ N <= q[i] /\ q[i] <= R /\ u[i].nr = Num(q[i])
               /\ \A j \in 1 .. i - 1 : q[j] <= q[i]
    <3>1. CASE i = Len(d) + 1
      <4>1. \A j \in 1 .. i - 1 : j \in 1 .. Len(d)
        BY <1>2, <3>1
      <4>2. \A j \in 1 .. i - 1 : q[j] <= R
        BY <1>1, <1>3, <4>1 DEF DownAt
      <4> QED BY <1>2, <1>3, <3>1, <4>2
    <3>2. CASE i # Len(d) + 1
      <4>1. i \in 1 .. Len(d) /\ \A j \in 1 .. i - 1 : j \in 1 .. Len(d)
        BY <1>2, <3>2
      <4> QED BY <1>1, <1>2, <1>3, <4>1 DEF DownAt
    <3> QED BY <3>1, <3>2
  <2> QED BY <2>1 DEF DownAt
<1>5. Down(u, N, R)
  BY <1>3, <1>4 DEF Down
<1> QED BY <1>5 DEF u

-----------------------------------------------------------------------------
(* The other calls of a service in use. *)

(* osdlp_handle_timer_expired. *)
LEMMA OnTimerRun ==
    ASSUME NEW f, Open(f), NEW B, NEW N, Run(f, N, B)
    PROVE  Outcome(f, OnTimer(f), N, N + Len(f.sent), B)
<1> DEFINE V == N + Len(f.sent)
           h == InitiateAdRetransmission(f)
           g == LookForFdu(h)
<1>1. Fits(f) /\ f \in FopRecord /\ f.ss = 0 /\ f.state \in AdStates /\ V \in Int
  BY OpenNotSuspended, FitsFacts DEF Open, Sound, Fits, Run
<1>2. f.state \in {"ACTIVE", "RT_NO_WAIT", "RT_WAIT"}
  BY <1>1 DEF AdStates, OpenStates
<1>3. Outcome(f, f, N, V, B)
  BY <1>1, SameOutcome DEF AdStates, OpenStates
<1>4. Outcome(f, g, N, V, B)
  <2>1. Open(h) /\ Goes(f, h, N, V, B) /\ V = N + Len(h.sent)
    BY InitiateAdRetransmissionRun
  <2> HIDE DEF h
  <2>2. Carries(h, g, N, V, B) /\ Fits(g) /\ Fits(h)
    BY <2>1, LookForFduRun, LookForFduSound DEF Continues, Open, Sound, Goes
  <2> HIDE DEF g, V
  <2>3. Carries(f, g, N, V, B)
    BY <1>1, <2>1, <2>2, CarriesOn
  <2> QED BY <2>3, CarriesOutcome
<1>5. ASSUME NEW n \in 1 .. 3
      PROVE  Outcome(f, [f EXCEPT !.ss = n, !.state = "INIT"], N, V, B)
  <2> DEFINE s == [f EXCEPT !.ss = n, !.state = "INIT"]
  <2>1. /\ s.sent = f.sent /\ s.vs = f.vs /\ s.nnr = f.nnr /\ s.wnd = f.wnd /\ s.tx = f.tx
        /\ s.wait = f.wait /\ s.hdr = f.hdr /\ s.state = "INIT" /\ s.ss = n
    BY <1>1 DEF FopRecord
  <2>2. s.ss # 4
    BY <2>1
  <2> HIDE DEF s
  <2>3. Outcome(f, s, N, V, B)
    BY <1>1, <2>1, <2>2, SameOutcome
  <2> QED BY <2>3 DEF s
<1>6. \A sig : Outcome(f, Alert(f, sig), N, V, B)
  BY <1>1, AlertLeft DEF Outcome
<1> HIDE DEF V
<1>7. Outcome(f, FopE16(f), N, V, B) /\ Outcome(f, FopE104(f), N, V, B)
  <2>1. FopE16(f) = g \/ FopE16(f) = f
    BY <1>2 DEF FopE16, OpenStates, g, h
  <2>2. FopE104(f) = FopE16(f)
    BY <1>2 DEF FopE104
  <2> HIDE DEF g
  <2> QED BY <1>3, <1>4, <2>1, <2>2
<1>8. Outcome(f, FopE17(f), N, V, B)
  BY <1>3, <1>6 DEF FopE17, AlertIn
<1>9. Outcome(f, FopE18(f), N, V, B)
  <2>1. \A n \in {1, 2, 3} : n \in 1 .. 3
    OBVIOUS
  <2> QED BY <1>2, <1>5, <2>1 DEF FopE18
<1> QED BY <1>7, <1>8, <1>9 DEF OnTimer, V

(* The next SDU is entered into the book. *)
Entered(B, d) == [end |-> B.end + 1, sdu |-> [p \in Int |-> IF p = B.end THEN d ELSE B.sdu[p]]]

(* Nothing waits: the SDU of a request is the next of the book. *)
LEMMA EnteredRun ==
    ASSUME NEW f, NEW g, NEW B, NEW N, Fits(f), Run(f, N, B), f.wait = <<>>, NEW d,
           g.sent = f.sent, g.vs = f.vs, g.nnr = f.nnr, g.wnd = f.wnd, g.tx = f.tx,
           g.wait = <<d>>, g.hdr = "AD"
    PROVE  Goes(f, g, N, N + Len(f.sent), Entered(B, d)) /\ Len(g.sent) = Len(f.sent)
<1> DEFINE C == Entered(B, d)
           V == N + Len(f.sent)
<1>1. Len(f.sent) \in Nat /\ Len(f.tx) \in Nat /\ N \in Int /\ B.end = V
  BY FitsFacts DEF Run
<1>2. C.end = B.end + 1 /\ \A p \in Int : C.sdu[p] = IF p = B.end THEN d ELSE B.sdu[p]
  BY DEF Entered
<1> HIDE DEF C
<1>3. \A i \in 1 .. Len(f.sent) : N + i - 1 \in Int /\ N + i - 1 # V
  BY <1>1
<1>4. \A i \in 1 .. Len(g.sent) : /\ g.sent[i].seq = Num(N + i - 1) /\ g.sent[i].code = "AD"
                                   /\ g.sent[i].sdu = C.sdu[N + i - 1]
  <2>1. \A i \in 1 .. Len(f.sent) : /\ f.sent[i].seq = Num(N + i - 1) /\ f.sent[i].code = "AD"
                                     /\ f.sent[i].sdu = B.sdu[N + i - 1]
    BY DEF Run
  <2> HIDE DEF Num, V
  <2> QED BY <1>1, <1>2, <1>3, <2>1
<1>5. C.end = N + Len(g.sent) + Len(g.wait) /\ g.wait[1] = C.sdu[V]
  <2>1. Len(g.wait) = 1 /\ g.wait[1] = d
    OBVIOUS
  <2> QED BY <1>1, <1>2, <2>1
<1>6. Run(g, N, C)
  <2>1. /\ Len(g.sent) <= g.wnd
        /\ g.nnr = Num(N) /\ g.vs = Num(N + Len(g.sent))
    BY DEF Run
  <2> HIDE DEF Num
  <2> QED BY <1>1, <1>4, <1>5, <2>1 DEF Run
<1>7. Sends(f.tx, g.tx, N, N + Len(g.sent), C)
  BY <1>1, SendsNothing
<1>8. Goes(f, g, N, V, C)
  <2>1. V <= V
    BY <1>1
  <2> QED BY <1>6, <1>7, <2>1 DEF Goes
<1> QED BY <1>8 DEF C

(* The frames before the entry are those of the book before. *)
LEMMA EnteredSends ==
    ASSUME NEW t, NEW u, NEW B, NEW d, NEW N \in Int, NEW V \in Int, V <= B.end, B.end \in Int,
           Sends(t, u, N, V, Entered(B, d))
    PROVE  Sends(t, u, N, V, B)
<1>1. \A p \in N .. V - 1 : Entered(B, d).sdu[p] = B.sdu[p]
  BY DEF Entered
<1>2. \A fr : NewAd(fr, N, V, Entered(B, d)) => NewAd(fr, N, V, B)
  <2> HIDE DEF Num
  <2> QED BY <1>1 DEF NewAd
<1> QED BY <1>2 DEF Sends

(* The answer is in the signal. *)
LEMMA Answered ==
    ASSUME NEW f, NEW sig
    PROVE  /\ Say(f, sig) \in FopRecord => Say(f, sig).signal = sig
           /\ Alert(f, sig) \in FopRecord => Alert(f, sig).signal = sig
BY DEF Say, Alert, FopRecord

(* What osdlp_look_for_fdu answers when an SDU waits. *)
LEMMA LookForFduAnswers ==
    ASSUME NEW f, Open(f), NEW B, NEW N, Run(f, N, B), f.wait # <<>>
    PROVE  LookForFdu(f).signal \in {"ACCEPT_TX", "DELAY_RESP", "UNDEF_ERROR"}
<1> DEFINE g == Resend(f)
           h == LookForFdu(f)
           V == N + Len(f.sent)
<1>1. h \in FopRecord
  BY LookForFduSound DEF Continues, Sound, Fits
<1>2. h = IF g.wait = <<>> THEN g ELSE IF InWindow(g) THEN TransmitTypeAd(g) ELSE Say(g, "DELAY_RESP")
  BY DEF LookForFdu
<1>3. CASE g.signal = "UNDEF_ERROR" /\ Drops(f, g, N, V, B)
  BY <1>2, <1>3 DEF Drops
<1>4. CASE Open(g) /\ Goes(f, g, N, V, B) /\ Len(g.sent) = Len(f.sent)
  <2>1. g.wait # <<>>
    <3>1. Len(f.wait) = B.end - V
      BY BookEnd DEF Open, Sound
    <3>2. Len(g.wait) = B.end - V
      <4> HIDE DEF g
      <4>1. Len(g.wait) = B.end - (N + Len(g.sent))
        BY <1>4, BookEnd DEF Open, Sound, Goes
      <4> QED BY <1>4, <4>1
    <3>3. Len(f.wait) # 0
      BY EmptySeq DEF Open, Sound, Fits, FopRecord
    <3>4. Len(g.wait) = Len(f.wait)
      <4> HIDE DEF g, V
      <4> QED BY <3>1, <3>2
    <3>5. Len(g.wait) # 0
      BY <3>3, <3>4
    <3>6. Len(<<>>) = 0
      OBVIOUS
    <3> HIDE DEF g
    <3> QED BY <3>5, <3>6
  <2>2. CASE InWindow(g)
    <3>1. h = TransmitTypeAd(g)
      BY <1>2, <2>1, <2>2
    <3>2. \E y, r : \/ h = Say(y, "UNDEF_ERROR") \/ h = Alert(y, "UNDEF_ERROR")
                     \/ h = Say(r, "ACCEPT_TX")
      <4>1. Len(g.sent) <= SentCap /\ Len(g.sent) \in Nat
        BY <1>4, FitsFacts DEF Open, Sound, Fits
      <4> DEFINE it == [type |-> "A", seq |-> g.vs, rt |-> FALSE, code |-> g.hdr, sdu |-> Head(g.wait)]
                 y == [g EXCEPT !.wait = <<>>, !.vs = Inc(@), !.armed = TRUE,
                                !.txCnt = IF g.sent = <<>> THEN 1 ELSE @]
                 z == [y EXCEPT !.sent = Append(@, it), !.tx = Append(@, FrameOf(it))]
                 r == IF g.hdr = "AD" /\ g.state \in OpenStates THEN Resend(z) ELSE z
      <4>2. h = CASE Len(g.sent) = SentCap -> Say(y, "UNDEF_ERROR")
                  [] Len(g.sent) < SentCap /\ TxFull(g) -> Alert(y, "UNDEF_ERROR")
                  [] OTHER -> Say(r, "ACCEPT_TX")
        BY <3>1 DEF TransmitTypeAd
      <4> HIDE DEF g, h, y, r
      <4>3. SentCap \in Nat
        BY SentCapAssumption
      <4> QED BY <4>1, <4>2, <4>3
    <3> HIDE DEF h
    <3>3. PICK y, r : \/ h = Say(y, "UNDEF_ERROR") \/ h = Alert(y, "UNDEF_ERROR")
                     \/ h = Say(r, "ACCEPT_TX")
      BY <3>2
    <3>4. ASSUME h = Say(y, "UNDEF_ERROR") PROVE h.signal = "UNDEF_ERROR"
      BY <1>1, <3>4, Answered
    <3>5. ASSUME h = Alert(y, "UNDEF_ERROR") PROVE h.signal = "UNDEF_ERROR"
      BY <1>1, <3>5, Answered
    <3>6. ASSUME h = Say(r, "ACCEPT_TX") PROVE h.signal = "ACCEPT_TX"
      BY <1>1, <3>6, Answered
    <3>7. h.signal \in {"ACCEPT_TX", "DELAY_RESP", "UNDEF_ERROR"}
      BY <3>3, <3>4, <3>5, <3>6
    <3> QED BY <3>7 DEF h
  <2>3. CASE ~ InWindow(g)
    <3>1. h = Say(g, "DELAY_RESP")
      BY <1>2, <2>1, <2>3
    <3> QED BY <1>1, <3>1, Answered
  <2> QED BY <2>2, <2>3
<1> QED BY <1>3, <1>4, ResendRun

(* A request for the AD service. *)
LEMMA TransmitAdRun ==
    ASSUME NEW f, Open(f), NEW B, NEW N, Run(f, N, B), NEW d \in SDU
    PROVE  LET g == TransmitAd(f, d)
               V == N + Len(f.sent)
           IN  IF g.signal \in {"ACCEPT_TX", "DELAY_RESP"}
               THEN g.state \in AdStates /\ g.ss = 0 /\ Goes(f, g, N, V, Entered(B, d))
                    /\ f.wait = <<>>
               ELSE Outcome(f, g, N, V, B)
<1> DEFINE V == N + Len(f.sent)
           C == Entered(B, d)
           a == [f EXCEPT !.hdr = "AD"]
           w == <<d>>
           q == [a EXCEPT !.wait = w]
           p == [a EXCEPT !.wait = <<d>>, !.signal = "DELAY_RESP"]
           r == Say(a, "REJECT_TX")
           g == LookForFdu(q)
           Answer(h) == IF h.signal \in {"ACCEPT_TX", "DELAY_RESP"}
                        THEN h.state \in AdStates /\ h.ss = 0 /\ Goes(f, h, N, V, C)
                             /\ f.wait = <<>>
                        ELSE Outcome(f, h, N, V, B)
<1>1. /\ Fits(f) /\ f \in FopRecord /\ f.ss = 0 /\ V \in Int /\ N \in Int
      /\ f.state \in {"ACTIVE", "RT_NO_WAIT", "RT_WAIT"}
  BY OpenNotSuspended, FitsFacts DEF Open, Sound, Fits, Run, AdStates, OpenStates
<1>2. /\ a.sent = f.sent /\ a.vs = f.vs /\ a.nnr = f.nnr /\ a.wnd = f.wnd /\ a.tx = f.tx
      /\ a.wait = f.wait /\ a.hdr = "AD" /\ a.state = f.state /\ a.ss = 0 /\ a \in FopRecord
  BY <1>1 DEF FopRecord, Codes
<1> HIDE DEF a
<1>3. /\ r.sent = f.sent /\ r.vs = f.vs /\ r.nnr = f.nnr /\ r.wnd = f.wnd /\ r.tx = f.tx
      /\ r.wait = f.wait /\ r.hdr = "AD" /\ r.state = f.state /\ r.ss = 0
      /\ r.signal = "REJECT_TX"
  BY <1>2 DEF Say, FopRecord
<1>4. /\ p.sent = f.sent /\ p.vs = f.vs /\ p.nnr = f.nnr /\ p.wnd = f.wnd /\ p.tx = f.tx
      /\ p.hdr = "AD" /\ p.state = f.state /\ p.ss = 0 /\ p.wait = <<d>>
  BY <1>2 DEF FopRecord
<1>5. /\ q.sent = f.sent /\ q.vs = f.vs /\ q.nnr = f.nnr /\ q.wnd = f.wnd /\ q.tx = f.tx
      /\ q.hdr = "AD" /\ q.state = f.state /\ q.ss = 0 /\ q.wait = w /\ q \in FopRecord
      /\ p.signal = "DELAY_RESP"
  <2>1. w \in Seq(SDU)
    OBVIOUS
  <2> HIDE DEF w
  <2> QED BY <1>2, <2>1 DEF FopRecord
<1> HIDE DEF r, p, q
<1>6. Answer(r)
  <2>1. Goes(f, r, N, V, B)
    BY <1>1, <1>3, GoesSame
  <2> HIDE DEF V
  <2> QED BY <1>1, <1>3, <2>1 DEF Outcome
<1>7. ASSUME f.wait = <<>> PROVE Answer(p)
  <2>1. Goes(f, p, N, V, C)
    BY <1>1, <1>4, <1>7, EnteredRun
  <2> HIDE DEF V, C
  <2> QED BY <1>1, <1>4, <1>5, <1>7, <2>1 DEF AdStates, OpenStates
<1>8. ASSUME f.wait = <<>> PROVE Answer(g)
  <2>1. Goes(f, q, N, V, C) /\ V = N + Len(q.sent)
    BY <1>1, <1>5, <1>8, EnteredRun
  <2>2. Open(q)
    <3>1. Len(q.wait) = 1
      BY <1>5
    <3>2. Len(q.wait) <= 1
      BY <3>1
    <3>3. Fits(q)
      BY <1>5, <3>2 DEF Open, Sound, Fits
    <3>4. f.state \in AdStates /\ Matched(f)
      BY DEF Open, Sound
    <3>5. Matched(q)
      BY <1>5, <3>4 DEF Matched, AllTypeA, Adjacent, Flagged, AdStates, OpenStates
    <3> QED BY <1>5, <3>3, <3>4, <3>5 DEF Open, Sound
  <2>3. Run(q, N, C) /\ q.wait # <<>>
    BY <1>5, <2>1 DEF Goes
  <2>4. Carries(q, g, N, V, C) /\ Fits(g) /\ Fits(q)
    BY <2>1, <2>2, <2>3, LookForFduRun, LookForFduSound DEF Continues, Open, Sound
  <2>5. g.signal \in {"ACCEPT_TX", "DELAY_RESP", "UNDEF_ERROR"}
    BY <2>2, <2>3, LookForFduAnswers
  <2> HIDE DEF g, C
  <2>6. Carries(f, g, N, V, C)
    BY <1>1, <2>1, <2>4, CarriesOn
  <2>7. CASE g.signal # "UNDEF_ERROR"
    BY <1>8, <2>5, <2>6, <2>7 DEF Carries
  <2>8. CASE g.signal = "UNDEF_ERROR"
    <3>1. ASSUME g.state = "INIT" PROVE Drops(f, g, N, V, B)
      <4>1. Drops(f, g, N, V, C)
        BY <2>6, <3>1 DEF Carries, AdStates, OpenStates
      <4>2. V <= B.end /\ B.end \in Int
        BY <1>1, BookEnd
      <4>3. Sends(f.tx, g.tx, N, V, B)
        <5> HIDE DEF V
        <5> QED BY <1>1, <4>1, <4>2, EnteredSends DEF Drops, C
      <4> QED BY <4>1, <4>3 DEF Drops
    <3>2. Left(f, g, N, V, B)
      BY <2>6, <2>8, <3>1 DEF Left, Carries
    <3> QED BY <2>8, <3>2 DEF Outcome
  <2> QED BY <2>7, <2>8
<1> HIDE DEF V, C
<1>9. FopE19(a, d) = g \/ FopE19(a, d) = p
  BY <1>1, <1>2 DEF FopE19, OpenStates, g, q, p
<1>10. TransmitAd(f, d) = r \/ (f.wait = <<>> /\ TransmitAd(f, d) = FopE19(a, d))
  BY <1>2 DEF TransmitAd, FopE20, r, a
<1> HIDE DEF g
<1>11. Answer(TransmitAd(f, d))
  BY <1>6, <1>7, <1>8, <1>9, <1>10
<1> QED BY <1>11 DEF V, C

=============================================================================
