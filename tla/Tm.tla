--------------------------------- MODULE Tm ---------------------------------
(***************************************************************************)
(* Packets over telemetry frames of a fixed length (src/osdlp_tm.c): one   *)
(* virtual channel, from osdlp_tm_transmit through the tx queue and a link *)
(* that may lose frames to osdlp_tm_receive and the receive queue.  With   *)
(* packet stuffing the rest of the last frame in the queue is filled with  *)
(* the next packet; the first header pointer is all that tells the         *)
(* receiver where a packet starts, and a length field inside the packet    *)
(* all that tells it where the packet ends.                                *)
(***************************************************************************)
EXTENDS Integers, SequencesExt, FiniteSetsExt

CONSTANTS
    MaxData,    \* mission.max_data_len, octets in the data field of a frame
    MaxSdu,     \* mission.max_sdu_len
    HdrLen,     \* mission.header_len, octets of the frame's own headers
    LenAt,      \* octets of a packet that osdlp_tm_get_packet_len must see
    TxCap,      \* capacity of the tx queue
    RxCap,      \* capacity of the receive queue
    Sizes,      \* lengths of packets the application sends
    MaxPkts,    \* bound: packets
    MaxIdles    \* bound: idle frames

ASSUME TmLengthsAssumption ==
    /\ MaxData \in Nat /\ LenAt \in 1 .. MaxData /\ HdrLen \in Nat
    /\ MaxSdu \in Nat /\ Sizes \subseteq LenAt .. MaxSdu
ASSUME TmCapsAssumption ==
    TxCap \in Nat \ {0} /\ RxCap \in Nat \ {0} /\ MaxPkts \in Nat /\ MaxIdles \in Nat

VARIABLES
    size,       \* the lengths of the packets started; packet p is the p-th of them
    stuffs,     \* the receiver expects stuffing
    stuffing,   \* the sender's stuff_state
    snd,        \* the sender's mission.util: loop state and octets of the packet queued
    link,       \* the tx queue
    rcv,        \* the receiver's mission.util: loop state, expected_pkt_len, octets buffered
    rx,         \* the receive queue
    idles,      \* idle frames so far
    hurt,       \* ghost: packets that lost an octet on the way or were given up
    arrived     \* ghost: of each delivery so far, in order, the packet if it was whole, or 0

tmVars == <<size, stuffs, stuffing, snd, link, rcv, rx, idles, hurt, arrived>>

Idle == <<0, 0>>
Octet == (1 .. MaxPkts) \X (1 .. MaxSdu)

(* First header pointers that point at nothing: no packet starts, only idle data. *)
NoPkt == MaxData + 1
Oid == MaxData + 2

Frame == [ptr : (0 .. MaxData - 1) \cup {NoPkt, Oid}, data : [1 .. MaxData -> Octet \cup {Idle}]]

PktsOf(octets) == {o[1] : o \in ToSet(octets) \ {Idle}}

TmInit ==
    /\ size = <<>>
    /\ stuffs \in BOOLEAN /\ stuffing = stuffs
    /\ snd = [loop |-> "CLOSED", done |-> 0]
    /\ link = <<>>
    /\ rcv = [loop |-> "CLOSED", exp |-> 0, buf |-> <<>>]
    /\ rx = <<>>
    /\ idles = 0
    /\ hurt = {}
    /\ arrived = <<>>

-----------------------------------------------------------------------------
(* osdlp_tm_transmit. *)

(* osdlp_tm_pack fills the data field up with idle octets. *)
Pack(ptr, octets) ==
    [ptr  |-> ptr,
     data |-> [i \in 1 .. MaxData |-> IF i <= Len(octets) THEN octets[i] ELSE Idle]]

PtrTo_Inclusive(from, length) ==
    IF from = 0 THEN 0 ELSE IF length - from > MaxData THEN NoPkt ELSE (length - from) % MaxData

PtrTo(from, length) ==
    IF from = 0 THEN 0 ELSE IF length - from >= MaxData THEN NoPkt ELSE length - from

FrameFrom_BufferStart(p, from, length) ==
    Pack(PtrTo(from, length), [k \in 1 .. Min({MaxData, length - from}) |-> <<p, k>>])

FrameFrom(p, from, length) ==
    Pack(PtrTo(from, length),
         [k \in 1 .. Min({MaxData, length - from}) |-> <<p, from + k>>])

(* The positions a loop passes: from, and on by step until that stays where it is. *)
Onward(step, w) == IF step[Last(w)] = Last(w) THEN w ELSE Append(w, step[Last(w)])

Walk(step, from) ==
    LET path[n \in 0 .. MaxData] == IF n = 0 THEN <<from>> ELSE Onward(step, path[n - 1])
    IN  path[MaxData]

(***************************************************************************)
(* eval_residue_len: the packets of the frame are walked through from the  *)
(* first header pointer, to one that is followed by idle data or that ends *)
(* so near the end of the frame, the frame's header counted in, that it is *)
(* taken for the last.                                                     *)
(***************************************************************************)
EndOf(data, x) == x + size[data[x + 1][1]]

IsLast(data, x) == EndOf(data, x) + HdrLen >= MaxData \/ data[EndOf(data, x) + 1] = Idle

PktsFrom(data, from) ==
    Walk([x \in 0 .. MaxData - 1 |-> IF IsLast(data, x) THEN x ELSE EndOf(data, x)], from)

LastFrom(data, from) == Last(PktsFrom(data, from))

ResidueLen_FirstOnly(fr) ==
    CASE fr.ptr = NoPkt -> MaxData
      [] fr.ptr = Oid   -> 0
      [] OTHER          -> IF fr.data[fr.ptr + 1] = Idle THEN fr.ptr
                           ELSE fr.ptr + size[fr.data[fr.ptr + 1][1]]

ResidueLen(fr) ==
    CASE fr.ptr = NoPkt -> MaxData
      [] fr.ptr = Oid   -> 0
      [] OTHER          -> IF fr.data[fr.ptr + 1] = Idle THEN fr.ptr ELSE EndOf(fr.data, LastFrom(fr.data, fr.ptr))

(* handle_pkt_stuffing: the packet from octet r of the frame on, then idle octets. *)
Stuffed(fr, r, p, length) ==
    [fr EXCEPT !.data = [i \in 1 .. MaxData |->
                           CASE i <= r                    -> @[i]
                             [] i > r /\ i - r <= length  -> <<p, i - r>>
                             [] i - r > length            -> Idle]]

(* The packets the stuffing writes over, and the packet itself if the receiver will not
   look into the frame. *)
WrittenOver(fr, r, p) ==
    PktsOf(SubSeq(fr.data, r + 1, MaxData)) \cup (IF fr.ptr = Oid THEN {p} ELSE {})

(* The loop that enqueues the rest, and what it remembers when the queue refuses a frame. *)
Enqueue(q, p, from, length) ==
    LET n == (length - from + MaxData - 1) \div MaxData
        k == Min({n, TxCap - Len(q)})
    IN  /\ link' = q \o [i \in 1 .. k |-> FrameFrom(p, from + (i - 1) * MaxData, length)]
        /\ snd' = IF k < n THEN [loop |-> "OPEN", done |-> from + k * MaxData]
                  ELSE [loop |-> "CLOSED", done |-> 0]

RestFrom_NotCounted(length, r) == 0

(* How much of a packet the stuffing takes: the rest goes into frames of its own. *)
RestFrom(length, r) == Min({length, MaxData - r})

HasRoom_FullToo ==
    /\ stuffing /\ link # <<>>
    /\ ResidueLen(Last(link)) < MaxData

(* A full circular queue has no back (queue_util.c): nothing is stuffed then. *)
HasRoom ==
    /\ stuffing /\ link # <<>> /\ Len(link) < TxCap
    /\ ResidueLen(Last(link)) < MaxData

Transmit(length) ==
    LET p == Len(size) + 1
    IN  /\ p <= MaxPkts /\ snd.loop = "CLOSED"
        /\ size' = Append(size, length)
        /\ IF HasRoom
           THEN LET r == ResidueLen(Last(link))
                IN  /\ Enqueue([link EXCEPT ![Len(link)] = Stuffed(@, r, p, length)],
                               p, RestFrom(length, r), length)
                    /\ hurt' = hurt \cup WrittenOver(Last(link), r, p)
           ELSE Enqueue(link, p, 0, length) /\ UNCHANGED hurt
        /\ UNCHANGED <<stuffs, stuffing, rcv, rx, idles, arrived>>

(* The same packet again after a refused frame. *)
Resume ==
    /\ snd.loop = "OPEN" /\ Len(link) < TxCap
    /\ Enqueue(link, Len(size), snd.done, size[Len(size)])
    /\ UNCHANGED <<size, stuffs, stuffing, rcv, rx, idles, hurt, arrived>>

(* osdlp_abort_segmentation. *)
Abort ==
    /\ snd.loop = "OPEN"
    /\ snd' = [loop |-> "CLOSED", done |-> 0]
    /\ hurt' = hurt \cup {Len(size)}
    /\ UNCHANGED <<size, stuffs, stuffing, link, rcv, rx, idles, arrived>>

TransmitIdle ==
    /\ idles < MaxIdles /\ Len(link) < TxCap
    /\ link' = Append(link, Pack(Oid, <<>>))
    /\ idles' = idles + 1
    /\ UNCHANGED <<size, stuffs, stuffing, snd, rcv, rx, hurt, arrived>>

(* osdlp_enable_packet_stuffing, osdlp_disable_packet_stuffing; a receiver that expects
   no stuffing does not understand it. *)
SwitchStuffing ==
    /\ stuffs
    /\ stuffing' = ~stuffing
    /\ UNCHANGED <<size, stuffs, snd, link, rcv, rx, idles, hurt, arrived>>

-----------------------------------------------------------------------------
(* osdlp_tm_receive: from a state of the receiver r, with its queue, to the next one. *)

(* osdlp_tm_get_packet_len: the packet's length once enough of it is there, 0 for an error;
   when the octets are not the head of one packet, whatever they say. *)
PacketLen(octets, garbage) ==
    IF Len(octets) < LenAt THEN 0
    ELSE IF \A k \in 1 .. LenAt : octets[k] = <<octets[1][1], k>> THEN size[octets[1][1]]
    ELSE garbage

Shut(r) == [r EXCEPT !.loop = "CLOSED", !.buf = <<>>]
Keep(r, octets) == [r EXCEPT !.loop = "OPEN", !.buf = octets]

(* The loop is closed before the queue is asked; a refusal is TM_RX_DENIED. *)
Deliver(r, item) ==
    IF Len(r.rx) < RxCap THEN [Shut(r) EXCEPT !.rx = Append(@, item)]
    ELSE [Shut(r) EXCEPT !.denied = TRUE]

(***************************************************************************)
(* The loop over the packets of a frame, from octet `from' on (in          *)
(* handle_s_ptr_zero and handle_s_ptr_positive): it stops at idle data, at *)
(* the end of the frame, at a packet the frame does not hold to its end,   *)
(* which is kept, and at one the queue refuses.                            *)
(***************************************************************************)
RestFromOctet(data, x) == SubSeq(data, x + 1, MaxData)
LenThere(data, x) == PacketLen(RestFromOctet(data, x), 0)

WholeThere(data, x) ==
    x < MaxData /\ data[x + 1] # Idle /\ LenThere(data, x) \in 1 .. MaxData - x

Explored(data, from) ==
    Walk([x \in 0 .. MaxData |-> IF WholeThere(data, x) THEN x + LenThere(data, x) ELSE x], from)

Explore(r, data, from) ==
    LET at    == Explored(data, from)
        found == Len(at) - 1
        taken == Min({found, RxCap - Len(r.rx)})
        last  == Last(at)
        ended == last = MaxData \/ data[last + 1] = Idle
        s     == [r EXCEPT !.exp = 0,
                           !.rx = @ \o [i \in 1 .. taken |-> SubSeq(data, at[i] + 1, at[i + 1])]]
    IN  CASE taken < found           -> [Shut(s) EXCEPT !.denied = TRUE]
          [] taken = found /\ ended  -> Shut(s)
          [] taken = found /\ ~ended -> [Keep(s, RestFromOctet(data, last))
                                           EXCEPT !.exp = LenThere(data, last)]

(* handle_s_ptr_nopkt: a length not known so far is looked for in what has been joined, and
   expected_pkt_len is left at 0. *)
JoinFrame_NoLimit(r, data, garbage) ==
    LET joined == r.buf \o data
        target == IF r.exp = 0 THEN PacketLen(joined, garbage) ELSE r.exp
    IN  CASE r.loop = "CLOSED"                             -> r
          [] r.loop = "OPEN" /\ Len(joined) = target       -> Deliver(r, joined)
          [] r.loop = "OPEN" /\ Len(joined) # target       -> Keep(r, joined)

JoinFrame_Below(r, data, garbage) ==
    LET joined == r.buf \o data
        target == IF r.exp = 0 THEN PacketLen(joined, garbage) ELSE r.exp
    IN  CASE r.loop = "CLOSED"                                -> r
          [] r.loop = "OPEN" /\ Len(joined) >= MaxSdu         -> Shut(r)
          [] r.loop = "OPEN" /\ Len(joined) < MaxSdu          ->
               IF Len(joined) = target THEN Deliver(r, joined) ELSE Keep(r, joined)

JoinFrame(r, data, garbage) ==
    LET joined == r.buf \o data
        fits   == Len(joined) < MaxSdu \/ (r.exp # 0 /\ Len(joined) = MaxSdu)
        target == IF r.exp = 0 THEN PacketLen(joined, garbage) ELSE r.exp
    IN  CASE r.loop = "CLOSED"                             -> r
          [] r.loop = "OPEN" /\ ~fits                      -> Shut(r)
          [] r.loop = "OPEN" /\ fits /\ Len(joined) = target -> Deliver(r, joined)
          [] r.loop = "OPEN" /\ fits /\ Len(joined) # target -> Keep(r, joined)

(* handle_s_ptr_positive: the packet in progress ends at the pointer or is dropped. *)
JoinTail(r, fr, garbage) ==
    LET joined == r.buf \o SubSeq(fr.data, 1, fr.ptr)
        target == IF r.exp # 0 THEN r.exp
                  ELSE IF Len(joined) < MaxSdu THEN PacketLen(joined, garbage) ELSE 0
        s      == IF r.loop = "OPEN" /\ Len(joined) = target THEN Deliver(r, joined) ELSE r
    IN  IF s.denied THEN s ELSE Explore(s, fr.data, fr.ptr)

ReceiveStuffed(r, fr, garbage) ==
    CASE fr.ptr = 0              -> Explore(r, fr.data, 0)
      [] fr.ptr = NoPkt          -> JoinFrame(r, fr.data, garbage)
      [] fr.ptr \in 1 .. MaxData -> JoinTail(r, fr, garbage)

(* handle_ns_ptr_zero, handle_ns_ptr_positive. *)
ReceivePlain(r, fr) ==
    LET n      == PacketLen(fr.data, 0)
        joined == r.buf \o (IF fr.ptr = NoPkt THEN fr.data ELSE SubSeq(fr.data, 1, fr.ptr))
    IN  CASE fr.ptr = 0 /\ n = 0            -> r
          [] fr.ptr = 0 /\ n > MaxData      -> [Keep(r, fr.data) EXCEPT !.exp = n]
          [] fr.ptr = 0 /\ n \in 1 .. MaxData ->
               [Deliver(r, SubSeq(fr.data, 1, n)) EXCEPT !.exp = n]
          [] fr.ptr # 0 /\ r.loop = "CLOSED" -> r
          [] fr.ptr # 0 /\ r.loop = "OPEN" ->
               IF Len(joined) > MaxSdu THEN Shut(r)
               ELSE IF Len(joined) = r.exp THEN Deliver(r, joined) ELSE Keep(r, joined)

Receive(fr, garbage) ==
    LET r == [loop |-> rcv.loop, exp |-> rcv.exp, buf |-> rcv.buf, rx |-> rx, denied |-> FALSE]
    IN  CASE fr.ptr = Oid             -> r
          [] fr.ptr # Oid /\ stuffs   -> ReceiveStuffed(r, fr, garbage)
          [] fr.ptr # Oid /\ ~stuffs  -> ReceivePlain(r, fr)

WholePkt(p) == [k \in 1 .. size[p] |-> <<p, k>>]

(* The packet that an item of the receive queue is, whole, or 0. *)
Named(item) ==
    IF item # <<>> /\ item[1] # Idle /\ item = WholePkt(item[1][1]) THEN item[1][1] ELSE 0

(* A queue that refuses a packet costs the rest of the frame. *)
Hear ==
    /\ link # <<>>
    /\ \E garbage \in IF rcv.loop = "OPEN" /\ rcv.exp = 0 THEN 0 .. MaxSdu ELSE {0} :
         LET fr == Head(link)
             s  == Receive(fr, garbage)
         IN  /\ rcv' = [loop |-> s.loop, exp |-> s.exp, buf |-> s.buf]
             /\ rx' = s.rx
             /\ arrived' = arrived \o [i \in 1 .. Len(s.rx) - Len(rx) |-> Named(s.rx[Len(rx) + i])]
             /\ hurt' = IF s.denied THEN hurt \cup (PktsOf(fr.data) \ ToSet(arrived')) ELSE hurt
    /\ link' = Tail(link)
    /\ UNCHANGED <<size, stuffs, stuffing, snd, idles>>

(* Lost, or damaged and refused by the CRC. *)
Lose ==
    /\ link # <<>>
    /\ link' = Tail(link)
    /\ hurt' = hurt \cup PktsOf(Head(link).data)
    /\ UNCHANGED <<size, stuffs, stuffing, snd, rcv, rx, idles, arrived>>

Take ==
    /\ rx # <<>>
    /\ rx' = Tail(rx)
    /\ UNCHANGED <<size, stuffs, stuffing, snd, link, rcv, idles, hurt, arrived>>

-----------------------------------------------------------------------------
TmNext ==
    \/ \E length \in Sizes : Transmit(length)
    \/ Resume \/ Abort \/ TransmitIdle \/ SwitchStuffing
    \/ Hear \/ Lose \/ Take

TmSpec == TmInit /\ [][TmNext]_tmVars
-----------------------------------------------------------------------------
(* Properties. *)

(* The octets buffered never exceed max_sdu_len, the length of the buffer. *)
TmTypeOK ==
    /\ size \in Seq(Sizes) /\ Len(size) <= MaxPkts
    /\ stuffs \in BOOLEAN /\ stuffing \in BOOLEAN
    /\ snd \in [loop : {"OPEN", "CLOSED"}, done : 0 .. MaxSdu]
    /\ link \in Seq(Frame) /\ Len(link) <= TxCap
    /\ rcv.loop \in {"OPEN", "CLOSED"} /\ rcv.exp \in 0 .. MaxSdu
    /\ rcv.buf \in Seq(Octet \cup {Idle}) /\ Len(rcv.buf) <= MaxSdu
    /\ rx \in Seq(Seq(Octet \cup {Idle})) /\ Len(rx) <= RxCap
    /\ idles \in 0 .. MaxIdles
    /\ hurt \subseteq 1 .. MaxPkts /\ arrived \in Seq(0 .. MaxPkts)

(* Nothing of p is left to be queued or heard. *)
Passed(p) ==
    /\ ~(snd.loop = "OPEN" /\ p = Len(size))
    /\ \A i \in DOMAIN link : p \notin PktsOf(link[i].data)

(* handle_s_ptr_nopkt and handle_s_ptr_positive compare with < while the length is not known. *)
Longest(p) == stuffs /\ size[p] = MaxSdu

(***************************************************************************)
(* A lost frame, a packet given up and a full receive queue cost the       *)
(* packets they touch and no other: every packet of which no octet was     *)
(* lost arrives, whatever was cut, stuffed, resumed, switched or lost      *)
(* around it.                                                              *)
(***************************************************************************)
CleanArrive ==
    \A p \in 1 .. Len(size) :
        Passed(p) /\ p \notin hurt /\ ~Longest(p) => p \in ToSet(arrived)

(* The packet whose octets the receiver is joining. *)
InProgress(r, p) == r.loop = "OPEN" /\ r.buf # <<>> /\ r.buf[1] = <<p, 1>>

(***************************************************************************)
(* The receiver gives up a packet of which no octet was lost only because  *)
(* it is of the maximal length and its length is not known: once the       *)
(* length has been read, max_sdu_len octets are joined as well as fewer.   *)
(***************************************************************************)
GivenUpUnmeasured ==
    [][\A p \in 1 .. Len(size) :
          InProgress(rcv, p) /\ ~InProgress(rcv', p) /\ p \notin hurt' =>
             p \in ToSet(arrived') \/ (Longest(p) /\ rcv.exp = 0)]_tmVars

(***************************************************************************)
(* Packets arrive in the order they were sent and none arrives twice: a    *)
(* resumed packet and a frame that is packed anew by the stuffing repeat   *)
(* nothing.                                                                *)
(***************************************************************************)
InOrderOnce ==
    \A i, j \in DOMAIN arrived :
        i < j /\ arrived[i] # 0 /\ arrived[j] # 0 => arrived[i] < arrived[j]

(***************************************************************************)
(* What is delivered is a packet as it was sent, unless octets of a packet *)
(* that was hurt are in it: frames lost on the way may join the head of    *)
(* one packet to the tail of another, and nothing in the code counts       *)
(* frames.                                                                 *)
(***************************************************************************)
WholeOrHurt ==
    \A i \in DOMAIN rx :
        \/ \E p \in 1 .. Len(size) : rx[i] = WholePkt(p)
        \/ PktsOf(rx[i]) \cap hurt # {}

(***************************************************************************)
(* Every length that eval_residue_len asks for lies in the data field:     *)
(* whatever was stuffed, refused and aborted before, the last frame never  *)
(* ends in a packet too short to hold its own length.                      *)
(***************************************************************************)
LengthsRead ==
    stuffing /\ snd.loop = "CLOSED" /\ link # <<>> /\ Len(link) < TxCap =>
        LET fr == Last(link)
        IN  fr.ptr < MaxData /\ fr.data[fr.ptr + 1] # Idle =>
                \A x \in ToSet(PktsFrom(fr.data, fr.ptr)) : x + LenAt <= MaxData

(***************************************************************************)
(* Stuffing writes into the unused end of the last frame only: no octet of *)
(* a packet in the queue is written over, except in a frame marked as idle *)
(* and except of a packet no longer than the frame's own header, if it     *)
(* lies in the last octets of the frame, no more than that header has: all *)
(* that eval_residue_len may overlook by counting the header in.           *)
(***************************************************************************)
StuffingSpares ==
    [][Len(link') >= Len(link) /\ link # <<>> /\ Last(link).ptr # Oid =>
          \A i \in 1 .. MaxData :
             LET o == Last(link).data[i]
             IN  o # Idle /\ (size[o[1]] > HdrLen \/ i + HdrLen <= MaxData) => link'[Len(link)].data[i] = o]_tmVars
=============================================================================
