------------------------------ MODULE Segments ------------------------------
(***************************************************************************)
(* SDUs longer than a frame on a virtual channel with segmentation header  *)
(* (src/osdlp_tc.c): osdlp_tc_transmit cuts an SDU and remembers how far   *)
(* it got when it has to stop, osdlp_tc_receive joins the segments, and    *)
(* the application between calls follows the rule of test_normal_op.c: it  *)
(* calls again only after an accepting signal, and resumes the SDU in      *)
(* progress before it starts another.                                      *)
(*                                                                         *)
(* The service below is what Cop1 shows of it: AD frames arrive in order   *)
(* and once, or are lost with the end of the service; BD frames may be     *)
(* lost one by one and may overtake AD frames that are sent again.         *)
(***************************************************************************)
EXTENDS Integers, SequencesExt, FiniteSetsExt

CONSTANTS
    MaxData,    \* mission.max_data_len, octets of a full segment
    MaxSdu,     \* mission.max_sdu_len, octets the receiver can join
    RxCap,      \* capacity of the receive queue
    LinkCap,    \* capacity of the tx queue and the channel behind it
    Window,     \* AD frames under way at most
    Sizes,      \* lengths of SDUs the application sends
    MaxSdus,    \* bound: SDUs
    MaxEnds     \* bound: ends of service

ASSUME LengthsAssumption ==
    MaxData \in Nat \ {0} /\ MaxSdu \in Nat /\ MaxSdu >= MaxData /\ Sizes \subseteq Nat \ {0}
ASSUME CapsAssumption ==
    /\ RxCap \in Nat \ {0} /\ LinkCap \in Nat \ {0} /\ Window \in Nat \ {0}
    /\ MaxSdus \in Nat /\ MaxEnds \in Nat

VARIABLES
    size,       \* the lengths of the SDUs started; SDU d is the d-th of them
    seg,        \* tc_tf->seg_status, and the type of the SDU in progress
    wait,       \* the FOP's wait queue: at most one segment (signal DELAY_RESP)
    open,       \* the AD service is in an open state
    link,       \* frames accepted and neither heard nor lost
    asm,        \* mission.util: the loop state and the buffered octets
    rx,         \* the receive queue
    held,       \* the FARM is in WAIT
    ends,       \* ends of service so far
    torn,       \* ghost: SDUs that lost a frame, or were mixed with another
    arrived     \* ghost: SDUs put whole into the receive queue

sendVars == <<size, seg, wait, open, ends>>
recvVars == <<asm, rx, held, arrived>>
segVars == <<sendVars, recvVars, link, torn>>

Octet == (1 .. MaxSdus) \X (Nat \ {0})

Segment == [code : {"AD", "BD"}, flag : {"UNSEG", "FIRST", "CONT", "LAST"}, data : Seq(Octet)]

SegInit ==
    /\ size = <<>>
    /\ seg = [flag |-> "ENDED", octets |-> 0, code |-> "AD"]
    /\ wait = <<>>
    /\ open = TRUE
    /\ link = <<>>
    /\ asm = [loop |-> "CLOSED", buf |-> <<>>]
    /\ rx = <<>>
    /\ held = FALSE
    /\ ends = 0
    /\ torn = {}
    /\ arrived = {}

Sdu(fr) == fr.data[1][1]
SdusOf(frames) == {Sdu(fr) : fr \in ToSet(frames)}
IsAd(fr) == fr.code = "AD"
IsBd(fr) == fr.code = "BD"
AdOnLink == {i \in DOMAIN link : IsAd(link[i])}

(* Of a sequence, the elements at the positions K, in their order. *)
Only(s, K) == [k \in 1 .. Cardinality(K) |-> s[CHOOSE i \in K : Cardinality(K \cap (1 .. i)) = k]]

-----------------------------------------------------------------------------
(* osdlp_tc_transmit. *)

SegEnd(from, length) == Min({from + MaxData, length})

SeqFlag_FullSegmentGoesOn(from, length) ==
    IF length - from < MaxData THEN IF from = 0 THEN "UNSEG" ELSE "LAST"
    ELSE IF from = 0 THEN "FIRST" ELSE "CONT"

SeqFlag(from, length) ==
    IF length - from <= MaxData THEN IF from = 0 THEN "UNSEG" ELSE "LAST"
    ELSE IF from = 0 THEN "FIRST" ELSE "CONT"

SegmentAt(code, d, from, length) ==
    [code |-> code, flag |-> SeqFlag(from, length),
     data |-> [k \in 1 .. SegEnd(from, length) - from |-> <<d, from + k>>]]

(* The status after everything before octet `sent' has been accepted or has to wait. *)
Status(code, sent, length) ==
    IF sent < length THEN [flag |-> "IN_PROGRESS", octets |-> sent, code |-> code]
    ELSE [flag |-> "ENDED", octets |-> 0, code |-> code]

Segments(from, length) == (length - from + MaxData - 1) \div MaxData

(* How many segments the FOP takes at once: as many as its window has room for, or
   fewer, while acknowledgements are due or it is in RT_WAIT.  Bypass frames pass. *)
Slots(code) == IF code = "AD" THEN 0 .. Window - Cardinality(AdOnLink) ELSE {LinkCap}

(***************************************************************************)
(* One call: the loop hands over segment after segment until the SDU ends, *)
(* the FOP has one wait, or the tx queue is full.  A segment that has to   *)
(* wait counts as sent.                                                    *)
(***************************************************************************)
SendFrom(code, d, from, length, room, slots) ==
    LET n    == Segments(from, length)
        k    == Min({n, room, slots})
        next == from + k * MaxData
    IN  /\ link' = link \o [i \in 1 .. k |-> SegmentAt(code, d, from + (i - 1) * MaxData, length)]
        /\ IF k = n \/ k = room
           THEN seg' = Status(code, Min({next, length}), length) /\ UNCHANGED wait
           ELSE /\ wait' = <<SegmentAt(code, d, next, length)>>
                /\ seg' = Status(code, SegEnd(next, length), length)

(* An SDU of the other type is still under way: bypass frames may get between its frames. *)
Mixed(code, d) == IF code = "BD" /\ AdOnLink # {} THEN {d} \cup {Sdu(link[i]) : i \in AdOnLink} ELSE {}

Transmit(code, length) ==
    LET d == Len(size) + 1
    IN  /\ d <= MaxSdus /\ wait = <<>> /\ seg.flag = "ENDED" /\ (code = "AD" => open)
        /\ Len(link) < LinkCap
        /\ \E s \in Slots(code) : SendFrom(code, d, 0, length, LinkCap - Len(link), s)
        /\ size' = Append(size, length)
        /\ torn' = torn \cup Mixed(code, d)
        /\ UNCHANGED <<open, ends, recvVars>>

Resume ==
    LET d == Len(size)
    IN  /\ wait = <<>> /\ seg.flag = "IN_PROGRESS" /\ (seg.code = "AD" => open)
        /\ Len(link) < LinkCap
        /\ \E s \in Slots(seg.code) :
             SendFrom(seg.code, d, seg.octets, size[d], LinkCap - Len(link), s)
        /\ torn' = torn \cup Mixed(seg.code, d)
        /\ UNCHANGED <<size, open, ends, recvVars>>

(* A request outside an open service is rejected (fop_e19 in INIT): the rest is given up. *)
GiveUp ==
    /\ wait = <<>> /\ seg.flag = "IN_PROGRESS" /\ seg.code = "AD" /\ ~open
    /\ Len(link) < LinkCap
    /\ seg' = Status("AD", size[Len(size)], size[Len(size)])
    /\ torn' = torn \cup {Len(size)}
    /\ UNCHANGED <<size, wait, open, ends, link, recvVars>>

(* osdlp_look_for_fdu after a control word: the waiting segment goes out. *)
ReleaseWait ==
    /\ wait # <<>> /\ Cardinality(AdOnLink) < Window /\ Len(link) < LinkCap
    /\ link' = link \o wait
    /\ wait' = <<>>
    /\ UNCHANGED <<size, seg, open, ends, torn, recvVars>>

-----------------------------------------------------------------------------
(* The AD service ends and starts again; the segmentation status is left as it is. *)

(* An alert or a directive: the waiting segment is purged and the AD frames after the
   first j of the link are never heard (they are not retransmitted, nor accepted after a gap). *)
EndService ==
    /\ open /\ ends < MaxEnds
    /\ \E j \in 0 .. Len(link) :
         LET lost == {i \in AdOnLink : i > j}
         IN  /\ link' = Only(link, DOMAIN link \ lost)
             /\ torn' = torn \cup {Sdu(link[i]) : i \in lost} \cup SdusOf(wait)
    /\ wait' = <<>>
    /\ open' = FALSE
    /\ ends' = ends + 1
    /\ UNCHANGED <<size, seg, recvVars>>

(* Nothing of the service before is under way (Quiet of Cop1). *)
Initiate ==
    /\ ~open /\ AdOnLink = {}
    /\ open' = TRUE
    /\ UNCHANGED <<size, seg, wait, ends, link, torn, recvVars>>

-----------------------------------------------------------------------------
(* osdlp_tc_receive after the FARM's verdict. *)

RxFull == Len(rx) = RxCap

Closed == [loop |-> "CLOSED", buf |-> <<>>]

Whole(d) == [k \in 1 .. size[d] |-> <<d, k>>]

(* osdlp_tc_rx_queue_enqueue for AD, _enqueue_now for BD: on a full queue tail is head. *)
Enqueue(item) ==
    /\ rx' = IF RxFull THEN [rx EXCEPT ![1] = item] ELSE Append(rx, item)
    /\ arrived' = arrived \cup {d \in 1 .. Len(size) : item = Whole(d)}

(* A first segment that meets an open loop is dropped with the segments joined so far. *)
FirstSegment_LoopStaysOpen(fr) ==
    /\ asm' = IF asm.loop = "CLOSED" THEN [loop |-> "OPEN", buf |-> fr.data]
              ELSE [asm EXCEPT !.buf = <<>>]
    /\ UNCHANGED <<rx, arrived>>

FirstSegment(fr) ==
    /\ asm' = IF asm.loop = "CLOSED" THEN [loop |-> "OPEN", buf |-> fr.data] ELSE Closed
    /\ UNCHANGED <<rx, arrived>>

NextSegment_Unchecked(fr) ==
    LET joined == asm.buf \o fr.data
    IN  CASE asm.loop # "OPEN" -> asm' = [asm EXCEPT !.buf = <<>>] /\ UNCHANGED <<rx, arrived>>
          [] asm.loop = "OPEN" /\ fr.flag = "CONT" ->
                asm' = [asm EXCEPT !.buf = joined] /\ UNCHANGED <<rx, arrived>>
          [] asm.loop = "OPEN" /\ fr.flag = "LAST" ->
                asm' = [asm EXCEPT !.loop = "CLOSED"] /\ Enqueue(joined)

NextSegment_LastLeavesOpen(fr) ==
    LET joined == asm.buf \o fr.data
    IN  CASE asm.loop # "OPEN" -> asm' = [asm EXCEPT !.buf = <<>>] /\ UNCHANGED <<rx, arrived>>
          [] asm.loop = "OPEN" /\ Len(joined) > MaxSdu -> asm' = Closed /\ UNCHANGED <<rx, arrived>>
          [] asm.loop = "OPEN" /\ Len(joined) <= MaxSdu /\ fr.flag = "CONT" ->
                asm' = [asm EXCEPT !.buf = joined] /\ UNCHANGED <<rx, arrived>>
          [] asm.loop = "OPEN" /\ Len(joined) <= MaxSdu /\ fr.flag = "LAST" ->
                Enqueue(joined) /\ UNCHANGED asm

(* After the last segment the buffered length is left as it is. *)
NextSegment(fr) ==
    LET joined == asm.buf \o fr.data
    IN  CASE asm.loop # "OPEN" -> asm' = [asm EXCEPT !.buf = <<>>] /\ UNCHANGED <<rx, arrived>>
          [] asm.loop = "OPEN" /\ Len(joined) > MaxSdu -> asm' = Closed /\ UNCHANGED <<rx, arrived>>
          [] asm.loop = "OPEN" /\ Len(joined) <= MaxSdu /\ fr.flag = "CONT" ->
                asm' = [asm EXCEPT !.buf = joined] /\ UNCHANGED <<rx, arrived>>
          [] asm.loop = "OPEN" /\ Len(joined) <= MaxSdu /\ fr.flag = "LAST" ->
                asm' = [asm EXCEPT !.loop = "CLOSED"] /\ Enqueue(joined)

Reassemble(fr) ==
    CASE fr.flag = "UNSEG" -> asm' = Closed /\ Enqueue(fr.data)
      [] fr.flag = "FIRST" -> FirstSegment(fr)
      [] fr.flag \in {"CONT", "LAST"} -> NextSegment(fr)

(***************************************************************************)
(* The next AD frame.  The FARM takes it (E1 in OPEN), starts to wait (E2),*)
(* or, when the application has emptied the queue and not yet released the *)
(* FARM, answers COP_ERROR (E1 in WAIT), which resets the loop; in the     *)
(* last two cases the frame comes again.                                   *)
(***************************************************************************)
HearAd ==
    /\ link # <<>> /\ IsAd(Head(link))
    /\ CASE RxFull -> held' = TRUE /\ UNCHANGED <<asm, rx, arrived, link, torn>>
         [] ~RxFull /\ held ->
              /\ asm' = Closed
              /\ torn' = IF Head(link).flag \in {"CONT", "LAST"}
                         THEN torn \cup {Sdu(Head(link))} ELSE torn
              /\ UNCHANGED <<rx, arrived, held, link>>
         [] ~RxFull /\ ~held ->
              Reassemble(Head(link)) /\ link' = Tail(link) /\ UNCHANGED <<held, torn>>
    /\ UNCHANGED sendVars

(* BD frames keep their order; AD frames before them are still to be sent again. *)
HearBd(i) ==
    /\ i \in DOMAIN link /\ IsBd(link[i]) /\ \A j \in 1 .. i - 1 : IsAd(link[j])
    /\ Reassemble(link[i])
    /\ link' = RemoveAt(link, i)
    /\ UNCHANGED <<sendVars, held, torn>>

(* Lost on the way, or cleared from the tx queue by a retransmission of AD frames. *)
LoseBd(i) ==
    /\ i \in DOMAIN link /\ IsBd(link[i])
    /\ torn' = torn \cup {Sdu(link[i])}
    /\ link' = RemoveAt(link, i)
    /\ UNCHANGED <<sendVars, recvVars>>

(* The receiving application takes an SDU, and then makes the call it owes. *)
TakeSdu ==
    /\ rx # <<>>
    /\ rx' = Tail(rx)
    /\ UNCHANGED <<sendVars, asm, held, arrived, link, torn>>

BufferRelease ==
    /\ held /\ ~RxFull
    /\ held' = FALSE
    /\ UNCHANGED <<sendVars, asm, rx, arrived, link, torn>>

-----------------------------------------------------------------------------
SegNext ==
    \/ \E code \in {"AD", "BD"}, length \in Sizes : Transmit(code, length)
    \/ Resume \/ GiveUp \/ ReleaseWait
    \/ EndService \/ Initiate
    \/ HearAd
    \/ \E i \in 1 .. LinkCap : HearBd(i)
    \/ \E i \in 1 .. LinkCap : LoseBd(i)
    \/ TakeSdu \/ BufferRelease

SegSpec == SegInit /\ [][SegNext]_segVars

(* The loops of the two applications of test_normal_op.c, and a service that, as long as
   it is open, gets its frames across and its waiting segment out. *)
SegFairness ==
    /\ WF_segVars(Resume) /\ WF_segVars(ReleaseWait)
    /\ WF_segVars(HearAd) /\ WF_segVars(\E i \in 1 .. LinkCap : HearBd(i))
    /\ WF_segVars(TakeSdu) /\ WF_segVars(BufferRelease)

SegFairSpec == SegSpec /\ SegFairness
-----------------------------------------------------------------------------
(* Properties. *)

(* The buffered octets never exceed max_sdu_len: the buffer is no longer than that. *)
SegTypeOK ==
    /\ size \in Seq(Sizes) /\ Len(size) <= MaxSdus
    /\ seg \in [flag : {"ENDED", "IN_PROGRESS"}, octets : Nat, code : {"AD", "BD"}]
    /\ seg.flag = "IN_PROGRESS" => size # <<>> /\ seg.octets \in 1 .. size[Len(size)] - 1
    /\ wait \in Seq(Segment) /\ Len(wait) <= 1
    /\ link \in Seq(Segment) /\ Len(link) <= LinkCap
    /\ asm \in [loop : {"OPEN", "CLOSED"}, buf : Seq(Octet)] /\ Len(asm.buf) <= MaxSdu
    /\ rx \in Seq(Seq(Octet)) /\ Len(rx) <= RxCap
    /\ open \in BOOLEAN /\ held \in BOOLEAN /\ ends \in 0 .. MaxEnds
    /\ torn \subseteq 1 .. Len(size) /\ arrived \subseteq 1 .. Len(size)

(***************************************************************************)
(* What the receiver hands to its application is an SDU as it was sent,    *)
(* unless it holds octets of an SDU that lost a frame on the way, or was   *)
(* mixed with a bypass SDU.  Nothing else damages an SDU: not a call that  *)
(* stopped half way, a segment that waited, a full queue, nor an end of    *)
(* service between two calls that cost no frame.                           *)
(***************************************************************************)
WholeOrTorn ==
    \A i \in DOMAIN rx :
        \/ \E d \in 1 .. Len(size) : rx[i] = Whole(d)
        \/ \E k \in DOMAIN rx[i] : rx[i][k][1] \in torn

(* Nothing of d is left to be sent or heard. *)
Passed(d) ==
    /\ ~(seg.flag = "IN_PROGRESS" /\ d = Len(size))
    /\ d \notin SdusOf(link) \cup SdusOf(wait)

(***************************************************************************)
(* A loop left open drops the next SDU when its first segment comes, but   *)
(* one only: an SDU that fits the receiver and lost nothing itself is      *)
(* missing only if another was torn, and each torn SDU costs at most one.  *)
(***************************************************************************)
EachTearCostsOne ==
    LET missing == {d \in 1 .. Len(size) \ (torn \cup arrived) : size[d] <= MaxSdu /\ Passed(d)}
    IN  Cardinality(missing) <= Cardinality(torn)

(***************************************************************************)
(* An SDU once started arrives, through every partial call, wait and full  *)
(* queue, unless some frame is lost or the service is closed.              *)
(***************************************************************************)
StartedArrives ==
    \A d \in 1 .. MaxSdus :
        d <= Len(size) /\ size[d] <= MaxSdu ~> d \in arrived \/ torn # {} \/ ~open
=============================================================================
