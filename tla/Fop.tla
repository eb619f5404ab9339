--------------------------------- MODULE Fop ---------------------------------
(***************************************************************************)
(* FOP-1, the sending end of COP-1 (src/osdlp_cop.c, fop_* functions and   *)
(* the osdlp_* entry points), with osdlp_tc_transmit of SDUs that fit one  *)
(* frame, the wait, sent and tx queues it works on and the timer.          *)
(*                                                                         *)
(* The C functions change one struct step by step and call each other, so  *)
(* each is an operator from a state of the FOP to the next one; an action  *)
(* is one call of an entry point: fop' = Handler(fop).                     *)
(***************************************************************************)
EXTENDS CopTypes, FiniteSets

CONSTANTS
    SentCap,    \* capacity of the sent queue
    TxCap,      \* capacity of the tx queue
    CntMod,     \* modulus of tx_cnt and bound of tx_lim; 256 in the code (uint8_t)
    Windows,    \* sliding windows the management may set
    Limits,     \* transmission limits the management may set
    MarksBc     \* osdlp_mark_bc_as_rt sets the flag of the queued item (its header),
                \* or leaves it alone (the callback of test.c)

ASSUME SentCapAssumption == SentCap \in Nat /\ SentCap >= 2
ASSUME TxCapAssumption == TxCap \in Nat \ {0}
ASSUME CntModAssumption == CntMod \in Nat /\ CntMod >= 2
ASSUME WindowsAssumption == Windows \subseteq 1 .. SeqMod - 1
ASSUME LimitsAssumption == Limits \subseteq 0 .. CntMod - 1
ASSUME MarksBcAssumption == MarksBc \in BOOLEAN

VARIABLES
    fop,    \* struct fop_config, the three queues, the header's type and the timer
    late    \* the timer has expired and the expiry is not yet handled

fopVars == <<fop, late>>

OpenStates == {"ACTIVE", "RT_NO_WAIT"}
AdStates == OpenStates \cup {"RT_WAIT"}
FopStates == AdStates \cup {"INIT_NO_BC", "INIT_BC", "INIT"}

Alerts == {"ALERT_LIMIT", "ALERT_LOCKOUT", "ALERT_SYNCH", "ALERT_NNR",
           "ALERT_CLCW", "ALERT_LLIF", "ALERT_T1"}
Signals == Alerts \cup {"IGNORE", "ACCEPT_TX", "DELAY_RESP", "REJECT_TX",
                        "POSITIVE_DIR", "ACCEPT_DIR", "REJECT_DIR", "UNDEF_ERROR"}

(* An item of the sent queue: struct queue_item, its fdu by code and SDU. *)
Item == [type : {"A", "B"}, seq : SeqNum, rt : BOOLEAN,
         code : Codes, sdu : SDU \cup {NoSDU}]

(* The fields of the frame an item holds; osdlp_tc_pack numbers type A only. *)
FrameOf(it) == [code |-> it.code, sdu |-> it.sdu,
                num  |-> IF it.code \in {"AD", "SETVR"} THEN it.seq ELSE 0]

FopInit ==
    /\ \E w \in Windows, l \in Limits, t \in {0, 1} :
         fop = [state |-> "INIT", vs |-> 0, nnr |-> 0, wnd |-> w, txCnt |-> 0,
                lim |-> l, tt |-> t, ss |-> 0, signal |-> "IGNORE", hdr |-> "BD",
                sent |-> <<>>, wait |-> <<>>, tx |-> <<>>, armed |-> FALSE]
    /\ late = FALSE

-----------------------------------------------------------------------------
(* The helpers of osdlp_cop.c. *)

Start(f) == [f EXCEPT !.armed = TRUE]
Cancel(f) == [f EXCEPT !.armed = FALSE]
Say(f, sig) == [f EXCEPT !.signal = sig]

TxFull_OffByOne(f) == Len(f.tx) > TxCap

TxFull(f) == Len(f.tx) = TxCap

(* osdlp_alert and what every caller adds to it: the INIT state and a signal. *)
Alert(f, sig) == [f EXCEPT !.armed = FALSE, !.wait = <<>>, !.sent = <<>>,
                           !.state = "INIT", !.signal = sig]

InitializeCop_KeepsSent(f) == [f EXCEPT !.wait = <<>>, !.txCnt = 1, !.ss = 0]

InitializeCop_KeepsWait(f) == [f EXCEPT !.sent = <<>>, !.txCnt = 1, !.ss = 0]

InitializeCop(f) == [f EXCEPT !.wait = <<>>, !.sent = <<>>, !.txCnt = 1, !.ss = 0]

AckedCount_Inclusive(f, nr) ==
    CHOOSE k \in 0 .. Len(f.sent) :
        /\ \A i \in 1 .. k - 1 : f.sent[i].seq # nr
        /\ k <= f.wnd + 1
        /\ k = Len(f.sent) \/ k = f.wnd + 1 \/ (k > 0 /\ f.sent[k].seq = nr)

(* The loop pops heads until it meets N(R), or one more than the window. *)
AckedCount(f, nr) ==
    CHOOSE k \in 0 .. Len(f.sent) :
        /\ \A i \in 1 .. k : f.sent[i].seq # nr
        /\ k <= f.wnd + 1
        /\ k = Len(f.sent) \/ k = f.wnd + 1 \/ f.sent[k + 1].seq = nr

RemoveAcked(f, nr) ==
    LET k == AckedCount(f, nr)
    IN  IF k = 0 THEN f
        ELSE [f EXCEPT !.sent = SubSeq(@, k + 1, Len(@)), !.nnr = nr, !.txCnt = 1]

ReleaseCopyOfBc(f) == IF Head(f.sent).type = "B" THEN [f EXCEPT !.sent = Tail(@)] ELSE f

InWindow(f) ==
    IF f.nnr + f.wnd >= SeqMod
    THEN f.vs >= f.nnr \/ f.vs < (f.nnr + f.wnd) % SeqMod
    ELSE f.vs < f.nnr + f.wnd

InitiateAdRetransmission_NoTimer(f) ==
    [f EXCEPT !.tx = <<>>, !.txCnt = (@ + 1) % CntMod,
              !.sent = [i \in DOMAIN @ |->
                          IF @[i].type = "A" THEN [@[i] EXCEPT !.rt = TRUE] ELSE @[i]]]

InitiateAdRetransmission_OldestOnly(f) ==
    [f EXCEPT !.tx = <<>>, !.txCnt = (@ + 1) % CntMod, !.armed = TRUE,
              !.sent = [i \in DOMAIN @ |->
                          IF i = 1 /\ @[i].type = "A" THEN [@[i] EXCEPT !.rt = TRUE] ELSE @[i]]]

InitiateAdRetransmission_KeepsTx(f) ==
    [f EXCEPT !.txCnt = (@ + 1) % CntMod, !.armed = TRUE,
              !.sent = [i \in DOMAIN @ |->
                          IF @[i].type = "A" THEN [@[i] EXCEPT !.rt = TRUE] ELSE @[i]]]

InitiateAdRetransmission(f) ==
    [f EXCEPT !.tx = <<>>, !.txCnt = (@ + 1) % CntMod, !.armed = TRUE,
              !.sent = [i \in DOMAIN @ |->
                          IF @[i].type = "A" THEN [@[i] EXCEPT !.rt = TRUE] ELSE @[i]]]

-----------------------------------------------------------------------------
(***************************************************************************)
(* osdlp_look_for_fdu.  Its call of osdlp_tc_tx_queue_enqueue comes back   *)
(* as osdlp_ad_accept, which in an open state looks for the next item, so  *)
(* one call sends a run of flagged items: up to the end of the flags, or   *)
(* to an item that is not an AD frame (answered by osdlp_bd_accept); in    *)
(* RT_WAIT osdlp_ad_accept stops after the first.  The flags stand on      *)
(* adjacent items (QueuesMatchState), so the run is an interval.                *)
(***************************************************************************)
Flagged(f) == {i \in DOMAIN f.sent : f.sent[i].type = "A" /\ f.sent[i].rt}

RunStart(f) == CHOOSE i \in Flagged(f) : \A j \in Flagged(f) : i <= j

RunEnd(f) ==
    CHOOSE e \in Flagged(f) :
        /\ \A i \in RunStart(f) .. e - 1 : f.state \in OpenStates /\ f.sent[i].code = "AD"
        /\ \/ f.state \notin OpenStates
           \/ f.sent[e].code # "AD"
           \/ \A i \in Flagged(f) : i <= e

Frames(q) == [i \in DOMAIN q |-> FrameOf(q[i])]

(* An enqueue that fails comes back as osdlp_ad_reject: everything is purged. *)
Resend(f) ==
    IF Flagged(f) = {} THEN f
    ELSE LET a    == RunStart(f)
             b    == RunEnd(f)
             room == TxCap - Len(f.tx)
         IN  IF b - a + 1 <= room
             THEN [f EXCEPT !.tx = @ \o Frames(SubSeq(f.sent, a, b)),
                            !.sent = [i \in DOMAIN @ |->
                                        IF i \in a .. b THEN [@[i] EXCEPT !.rt = FALSE] ELSE @[i]],
                            !.signal = IF f.sent[b].code = "AD" THEN @ ELSE "ACCEPT_TX"]
             ELSE [Alert(f, "UNDEF_ERROR") EXCEPT
                            !.tx = @ \o Frames(SubSeq(f.sent, a, a + room - 1))]

(***************************************************************************)
(* osdlp_transmit_type_ad: the waiting SDU goes out under the header the   *)
(* struct holds NOW, and counts as sent even when a queue has no room.     *)
(***************************************************************************)
TransmitTypeAd(f) ==
    LET it == [type |-> "A", seq |-> f.vs, rt |-> FALSE,
               code |-> f.hdr, sdu |-> Head(f.wait)]
        g  == [f EXCEPT !.wait = <<>>, !.vs = Inc(@), !.armed = TRUE,
                        !.txCnt = IF f.sent = <<>> THEN 1 ELSE @]
        h  == [g EXCEPT !.sent = Append(@, it), !.tx = Append(@, FrameOf(it))]
    IN  CASE Len(f.sent) = SentCap -> Say(g, "UNDEF_ERROR")
          [] Len(f.sent) < SentCap /\ TxFull(f) -> Alert(g, "UNDEF_ERROR")
          [] OTHER -> Say(IF f.hdr = "AD" /\ f.state \in OpenStates THEN Resend(h) ELSE h,
                          "ACCEPT_TX")

LookForFdu_DelayUnsaid(f) ==
    LET g == Resend(f)
    IN  IF g.wait # <<>> /\ InWindow(g) THEN TransmitTypeAd(g)
        ELSE IF g.wait # <<>> THEN Say(g, "ACCEPT_TX") ELSE g

LookForFdu(f) ==
    LET g == Resend(f)
    IN  IF g.wait = <<>> THEN g
        ELSE IF InWindow(g) THEN TransmitTypeAd(g) ELSE Say(g, "DELAY_RESP")

RetransmitBc_NoRestart(f) ==
    Say([f EXCEPT !.tx = <<>>, !.txCnt = (@ + 1) % CntMod], "ACCEPT_DIR")

(***************************************************************************)
(* Retransmission of a control frame: fop_e16 and fop_e104 in INIT_BC.  As *)
(* long as the queued item keeps its flag, which osdlp_look_for_directive  *)
(* resets only after the enqueue, osdlp_bc_accept finds it again: the tx   *)
(* queue is filled and the last enqueue comes back as osdlp_bc_reject.     *)
(***************************************************************************)
RetransmitBc(f) ==
    LET g == [f EXCEPT !.tx = <<>>, !.txCnt = (@ + 1) % CntMod, !.armed = TRUE]
    IN  IF MarksBc /\ Head(f.sent).type = "B"
        THEN [Alert(g, "UNDEF_ERROR") EXCEPT
                !.tx = [i \in 1 .. TxCap |-> FrameOf(Head(f.sent))]]
        ELSE Say(g, "ACCEPT_DIR")

(* osdlp_transmit_type_bc of a frame prepared by osdlp_prepare_typeb_unlock or _setvr. *)
TransmitTypeBc(f, code) ==
    LET it == [type |-> "B", seq |-> f.vs, rt |-> FALSE, code |-> code, sdu |-> NoSDU]
        g  == [f EXCEPT !.hdr = code, !.txCnt = 1, !.armed = TRUE]
    IN  IF TxFull(f) THEN Alert(g, "UNDEF_ERROR")
        ELSE [g EXCEPT !.sent = Append(@, it), !.tx = Append(@, FrameOf(it)),
                       !.state = "INIT_BC", !.signal = "ACCEPT_DIR"]

-----------------------------------------------------------------------------
(* The events of a control word.  A state an event does not name ignores it. *)

AlertIn(f, states, sig) == IF f.state \in states THEN Alert(f, sig) ELSE f

FopE1(f) ==
    CASE f.state \in {"RT_NO_WAIT", "RT_WAIT"} -> Alert(f, "ALERT_SYNCH")
      [] f.state \in {"INIT_NO_BC", "INIT_BC"} ->
            [(IF f.state = "INIT_BC" THEN ReleaseCopyOfBc(f) ELSE f) EXCEPT
                !.state = "ACTIVE", !.armed = FALSE, !.signal = "POSITIVE_DIR"]
      [] OTHER -> f

FopE2(f, nr) ==
    IF f.state \in AdStates THEN LookForFdu(Cancel(RemoveAcked(f, nr))) ELSE f

FopE3(f) == AlertIn(f, FopStates \ {"INIT"}, "ALERT_CLCW")
FopE4(f) == AlertIn(f, FopStates \ {"INIT", "INIT_BC"}, "ALERT_SYNCH")
FopE5(f) == AlertIn(f, {"RT_NO_WAIT", "RT_WAIT"}, "ALERT_SYNCH")

FopE6_Cancels(f, nr) ==
    LET g == Cancel(RemoveAcked(f, nr))
    IN  CASE f.state = "ACTIVE"     -> LookForFdu(g)
          [] f.state = "RT_NO_WAIT" -> LookForFdu([g EXCEPT !.state = "ACTIVE"])
          [] f.state = "RT_WAIT"    -> [LookForFdu(g) EXCEPT !.state = "ACTIVE"]
          [] OTHER -> f

(* From RT_WAIT the new state is set after osdlp_look_for_fdu, whatever it did. *)
FopE6(f, nr) ==
    LET g == RemoveAcked(f, nr)
    IN  CASE f.state = "ACTIVE"     -> LookForFdu(g)
          [] f.state = "RT_NO_WAIT" -> LookForFdu([g EXCEPT !.state = "ACTIVE"])
          [] f.state = "RT_WAIT"    -> [LookForFdu(g) EXCEPT !.state = "ACTIVE"]
          [] OTHER -> f

FopE7(f) == AlertIn(f, AdStates, "ALERT_CLCW")

(* From ACTIVE and RT_WAIT the new state is set after osdlp_look_for_fdu. *)
Retransmit(f) ==
    LET g == LookForFdu(InitiateAdRetransmission(f))
    IN  IF f.state = "RT_NO_WAIT" THEN g ELSE [g EXCEPT !.state = "RT_NO_WAIT"]

FopE8(f, nr) == IF f.state \in AdStates THEN Retransmit(RemoveAcked(f, nr)) ELSE f
FopE9(f, nr) ==
    IF f.state \in AdStates THEN [RemoveAcked(f, nr) EXCEPT !.state = "RT_WAIT"] ELSE f
FopE10(f) == IF f.state \in {"ACTIVE", "RT_WAIT"} THEN Retransmit(f) ELSE f
FopE11(f) == IF f.state \in AdStates THEN [f EXCEPT !.state = "RT_WAIT"] ELSE f
FopE12(f) == IF f.state \in AdStates THEN [f EXCEPT !.state = "RT_NO_WAIT"] ELSE f
FopE103(f) == FopE11(f)
FopE101(f, nr) ==
    IF f.state \in AdStates THEN Alert(RemoveAcked(f, nr), "ALERT_LIMIT") ELSE f
FopE102(f) == AlertIn(f, AdStates, "ALERT_LIMIT")
FopE13(f) == AlertIn(f, FopStates \ {"INIT", "INIT_BC"}, "ALERT_NNR")
FopE14(f) == AlertIn(f, FopStates \ {"INIT", "INIT_BC"}, "ALERT_LOCKOUT")

InBounds_NoWrap(f, nr) == f.vs > nr /\ nr >= f.nnr

(* "N(R) falls within bounds even if the counter has wrapped around". *)
InBounds(f, nr) ==
    \/ f.vs > nr /\ nr >= f.nnr
    \/ f.vs < nr /\ nr > f.nnr
    \/ f.vs > nr /\ nr < f.nnr

(* The dispatch of osdlp_handle_clcw: the retransmit flag inside the bounds, then the rest. *)
RetransmitEvent(f, c) ==
    LET fresh == c.nr # f.nnr
    IN  CASE f.lim = 0 -> "NO_LIMIT"
          [] f.lim = 1 -> IF fresh THEN "E101" ELSE "E102"
          [] f.lim > 1 /\ fresh -> IF c.wait THEN "E9" ELSE "E8"
          [] f.lim > 1 /\ ~fresh /\ f.txCnt < f.lim -> IF c.wait THEN "E11" ELSE "E10"
          [] f.lim > 1 /\ ~fresh /\ f.txCnt >= f.lim -> IF c.wait THEN "E103" ELSE "E12"

ClcwEvent(f, c) ==
    LET fresh == c.nr # f.nnr
    IN  IF c.lockout THEN "E14"
        ELSE IF c.nr = f.vs THEN IF c.rt THEN "E4"
                                 ELSE IF c.wait THEN "E3"
                                 ELSE IF fresh THEN "E2" ELSE "E1"
        ELSE IF ~InBounds(f, c.nr) THEN "E13"
        ELSE IF c.rt THEN RetransmitEvent(f, c)
        ELSE IF c.wait THEN "E7" ELSE IF fresh THEN "E6" ELSE "E5"

OnClcw(f, c) ==
    LET e == ClcwEvent(f, c)
    IN  CASE e = "E1"   -> FopE1(f)
          [] e = "E2"   -> FopE2(f, c.nr)
          [] e = "E3"   -> FopE3(f)
          [] e = "E4"   -> FopE4(f)
          [] e = "E5"   -> FopE5(f)
          [] e = "E6"   -> FopE6(f, c.nr)
          [] e = "E7"   -> FopE7(f)
          [] e = "E8"   -> FopE8(f, c.nr)
          [] e = "E9"   -> FopE9(f, c.nr)
          [] e = "E10"  -> FopE10(f)
          [] e = "E11"  -> FopE11(f)
          [] e = "E12"  -> FopE12(f)
          [] e = "E13"  -> FopE13(f)
          [] e = "E14"  -> FopE14(f)
          [] e = "E101" -> FopE101(f, c.nr)
          [] e = "E102" -> FopE102(f)
          [] e = "E103" -> FopE103(f)
          [] e = "NO_LIMIT" -> Say(f, "UNDEF_ERROR")

(* osdlp_tc_sent_queue_head of a full sent queue reads no item (front() sees
   tail = head and gives NULL): the program does not survive these events then. *)
ReadsSentHead(f, c) ==
    f.state \in AdStates /\ ClcwEvent(f, c) \in {"E2", "E6", "E8", "E9", "E101"}

HandleClcw(c) ==
    /\ ReadsSentHead(fop, c) => Len(fop.sent) < SentCap
    /\ fop' = OnClcw(fop, c)
    /\ UNCHANGED late

-----------------------------------------------------------------------------
(* The timer.  Cancelling it does not take back an expiry already noted (test_normal_op.c,
   timer_thread sets timer_expired; timer_handler calls the FOP later, without `lock'). *)

FopE16(f) ==
    CASE f.state \in OpenStates   -> LookForFdu(InitiateAdRetransmission(f))
      [] f.state = "INIT_NO_BC"   -> Alert(f, "ALERT_T1")
      [] f.state = "INIT_BC"      -> RetransmitBc(f)
      [] OTHER                    -> f

FopE104(f) ==
    IF f.state = "INIT_NO_BC" THEN [f EXCEPT !.ss = 4, !.state = "INIT"] ELSE FopE16(f)

FopE17(f) == AlertIn(f, FopStates \ {"INIT"}, "ALERT_T1")

(* Suspension remembers the state in SS and keeps the queues. *)
FopE18(f) ==
    CASE f.state = "ACTIVE"     -> [f EXCEPT !.ss = 1, !.state = "INIT"]
      [] f.state = "RT_NO_WAIT" -> [f EXCEPT !.ss = 2, !.state = "INIT"]
      [] f.state = "RT_WAIT"    -> [f EXCEPT !.ss = 3, !.state = "INIT"]
      [] f.state = "INIT_NO_BC" -> [f EXCEPT !.ss = 4, !.state = "INIT"]
      [] f.state = "INIT_BC"    -> Alert(f, "ALERT_T1")
      [] f.state = "INIT"       -> f

OnTimer(f) ==
    IF f.txCnt < f.lim THEN IF f.tt = 0 THEN FopE16(f) ELSE FopE104(f)
    ELSE IF f.tt = 0 THEN FopE17(f) ELSE FopE18(f)

Expire ==
    /\ fop.armed /\ ~late
    /\ fop' = Cancel(fop)
    /\ late' = TRUE

HandleTimerExpired ==
    /\ late
    /\ fop' = OnTimer(fop)
    /\ late' = FALSE

-----------------------------------------------------------------------------
(* Requests: osdlp_prepare_type{a,b}_data_frame, then osdlp_tc_transmit. *)

FopE19(f, sdu) ==
    CASE f.state \in OpenStates -> LookForFdu([f EXCEPT !.wait = <<sdu>>])
      [] f.state = "RT_WAIT"    -> [f EXCEPT !.wait = <<sdu>>, !.signal = "DELAY_RESP"]
      [] OTHER                  -> Say(f, "REJECT_TX")

FopE20(f) == Say(f, "REJECT_TX")

TransmitAd(f, sdu) ==
    LET g == [f EXCEPT !.hdr = "AD"]
    IN  CASE TxFull(g)                     -> Say(g, "REJECT_TX")
          [] ~TxFull(g) /\ g.wait = <<>>   -> FopE19(g, sdu)
          [] ~TxFull(g) /\ g.wait # <<>>   -> FopE20(g)

FopE21(f, sdu) ==
    [f EXCEPT !.tx = Append(@, [code |-> "BD", num |-> 0, sdu |-> sdu]), !.signal = "ACCEPT_TX"]

TransmitBd(f, sdu) ==
    LET g == [f EXCEPT !.hdr = "BD"]
    IN  IF TxFull(g) THEN Say(g, "REJECT_TX") ELSE FopE21(g, sdu)

RequestAd(sdu) == fop' = TransmitAd(fop, sdu) /\ UNCHANGED late
RequestBd(sdu) == fop' = TransmitBd(fop, sdu) /\ UNCHANGED late

-----------------------------------------------------------------------------
(* Directives of the management, E23 to E38.  They do not stop a running timer. *)

InitiateNoClcw ==
    /\ fop' = IF fop.state = "INIT"
              THEN [InitializeCop(fop) EXCEPT !.state = "ACTIVE", !.signal = "POSITIVE_DIR"]
              ELSE Say(fop, "REJECT_DIR")
    /\ UNCHANGED late

InitiateWithClcw_NoTimer ==
    /\ fop' = IF fop.state = "INIT"
              THEN [InitializeCop(fop) EXCEPT !.state = "INIT_NO_BC", !.signal = "ACCEPT_DIR"]
              ELSE Say(fop, "REJECT_DIR")
    /\ UNCHANGED late

InitiateWithClcw ==
    /\ fop' = IF fop.state = "INIT"
              THEN [Start(InitializeCop(fop)) EXCEPT !.state = "INIT_NO_BC", !.signal = "ACCEPT_DIR"]
              ELSE Say(fop, "REJECT_DIR")
    /\ UNCHANGED late

InitiateWithUnlock ==
    /\ fop.state = "INIT"
    /\ fop' = TransmitTypeBc(InitializeCop(fop), "UNLOCK")
    /\ UNCHANGED late

InitiateWithSetvr(vr) ==
    /\ fop.state = "INIT"
    /\ fop' = TransmitTypeBc([InitializeCop(fop) EXCEPT !.vs = vr, !.nnr = vr], "SETVR")
    /\ UNCHANGED late

TerminateAd ==
    /\ fop' = IF fop.state = "INIT" THEN Say(fop, "POSITIVE_DIR") ELSE Alert(fop, "POSITIVE_DIR")
    /\ UNCHANGED late

Resumed == <<"ACTIVE", "RT_NO_WAIT", "RT_WAIT", "INIT_NO_BC">>

ResumeAd ==
    /\ fop.ss # 0 /\ fop.state = "INIT"
    /\ fop' = [Start(fop) EXCEPT !.ss = 0, !.state = Resumed[fop.ss], !.signal = "POSITIVE_DIR"]
    /\ UNCHANGED late

SetNewVs_Suspended(vs) ==
    /\ fop.state = "INIT"
    /\ fop' = [fop EXCEPT !.vs = vs, !.nnr = vs, !.signal = "POSITIVE_DIR"]
    /\ UNCHANGED late

SetNewVs(vs) ==
    /\ fop.state = "INIT" /\ fop.ss = 0
    /\ fop' = [fop EXCEPT !.vs = vs, !.nnr = vs, !.signal = "POSITIVE_DIR"]
    /\ UNCHANGED late

SetSlidingWindow(w) == fop' = [fop EXCEPT !.wnd = w, !.signal = "POSITIVE_DIR"] /\ UNCHANGED late
SetTxLimit(l) == fop' = [fop EXCEPT !.lim = l, !.signal = "POSITIVE_DIR"] /\ UNCHANGED late
SetTt(t) == fop' = [fop EXCEPT !.tt = t, !.signal = "POSITIVE_DIR"] /\ UNCHANGED late

Directive ==
    \/ InitiateNoClcw \/ InitiateWithClcw \/ InitiateWithUnlock
    \/ \E v \in SeqNum : InitiateWithSetvr(v) \/ SetNewVs(v)
    \/ TerminateAd \/ ResumeAd
    \/ \E w \in Windows : SetSlidingWindow(w)
    \/ \E l \in Limits : SetTxLimit(l)
    \/ \E t \in {0, 1} : SetTt(t)

-----------------------------------------------------------------------------
(* The lower layer takes frames off the tx queue (the uplink channel of the tests). *)
Uplink ==
    /\ fop.tx # <<>>
    /\ fop' = [fop EXCEPT !.tx = Tail(@)]
    /\ UNCHANGED late

FopNext ==
    \/ \E c \in Clcw : HandleClcw(c)
    \/ Expire \/ HandleTimerExpired
    \/ \E d \in SDU : RequestAd(d) \/ RequestBd(d)
    \/ Directive
    \/ Uplink

FopSpec == FopInit /\ [][FopNext]_fopVars

(* A running timer expires and its expiry is handled. *)
FopFairness == WF_fopVars(Expire) /\ WF_fopVars(HandleTimerExpired)

FopFairSpec == FopSpec /\ FopFairness
-----------------------------------------------------------------------------
(* Properties. *)

FopTypeOK ==
    /\ fop \in [state : FopStates, vs : SeqNum, nnr : SeqNum, wnd : Windows,
                txCnt : 0 .. CntMod - 1, lim : Limits, tt : {0, 1}, ss : 0 .. 4,
                signal : Signals, hdr : Codes, sent : Seq(Item), wait : Seq(SDU),
                tx : Seq(Frame), armed : BOOLEAN]
    /\ Len(fop.sent) <= SentCap /\ Len(fop.wait) <= 1 /\ Len(fop.tx) <= TxCap
    /\ late \in BOOLEAN

(***************************************************************************)
(* The queues hold what the state allows: only a suspended or open service *)
(* keeps SDUs, a service being initialised has at most the control frame   *)
(* it waits for, and a service in INIT that is not suspended has nothing.  *)
(* Every way out of service (the alerts, terminate, the directives that    *)
(* start again over a suspended one) must have purged.  The items flagged  *)
(* for retransmission are adjacent, whatever was sent in between.          *)
(***************************************************************************)
QueuesMatchState ==
    /\ fop.ss # 0 => fop.state = "INIT"
    /\ fop.ss \in {0, 4} /\ fop.state \in {"INIT", "INIT_NO_BC"} =>
          fop.sent = <<>> /\ fop.wait = <<>>
    /\ fop.state = "INIT_BC" =>
          Len(fop.sent) = 1 /\ fop.sent[1].type = "B" /\ fop.wait = <<>>
    /\ fop.state \in AdStates => \A i \in DOMAIN fop.sent : fop.sent[i].type = "A"
    /\ \A i, j \in Flagged(fop) : \A k \in i .. j : k \in Flagged(fop)

Serving == fop.state \in AdStates \/ fop.ss \in 1 .. 3

(***************************************************************************)
(* While SDUs may be outstanding, the sent queue is the run of numbers     *)
(* that ends just before V(S): osdlp_remove_acked_frames relies on it when *)
(* it pops up to N(R).  Suspension, re-initialisation and the directives   *)
(* that set V(S) must not break it.  (A sent queue that has been full may  *)
(* have lost a number, osdlp_transmit_type_ad.)                            *)
(***************************************************************************)
SentEndsAtVs ==
    Serving /\ Len(fop.sent) < SentCap =>
        \A i \in DOMAIN fop.sent :
            Inc(fop.sent[i].seq) = IF i = Len(fop.sent) THEN fop.vs ELSE fop.sent[i + 1].seq

(***************************************************************************)
(* The bounds test of osdlp_handle_clcw (2004: "even if the counter has    *)
(* wrapped around") on the circle of numbers.  Once V(S) has wrapped past  *)
(* NN(R) it is exact but for one: it refuses NN(R) itself, a report of     *)
(* nothing new, which is E13 and ends the service.  Before, it refuses     *)
(* nothing: every number but V(S), which is dealt with earlier, is taken   *)
(* for an acknowledgement.                                                 *)
(***************************************************************************)
BoundsExact ==
    \A nr \in SeqNum \ {fop.vs} :
        InBounds(fop, nr) <=>
            \/ fop.vs >= fop.nnr
            \/ (nr - fop.nnr) % SeqMod \in 1 .. ((fop.vs - fop.nnr) % SeqMod) - 1

(***************************************************************************)
(* A service that is being initialised is always under the timer: no       *)
(* directive or late expiry leaves it waiting for an answer with nothing   *)
(* to end the wait.                                                        *)
(***************************************************************************)
InitTimed == fop.state \in {"INIT_NO_BC", "INIT_BC"} => fop.armed \/ late

(* How many outstanding items N(R) acknowledges, counted on the circle of numbers. *)
Acks(nr) == IF fop.sent = <<>> THEN 0 ELSE (nr - fop.sent[1].seq) % SeqMod

Kept(it) == \E j \in DOMAIN fop'.sent : fop'.sent[j].seq = it.seq /\ fop'.sent[j].sdu = it.sdu

(* osdlp_ad_reject: the tx queue was full when a frame had to go out. *)
RefusalPurged == fop'.sent = <<>> /\ Len(fop'.tx) = TxCap

(***************************************************************************)
(* An open service forgets a frame it has sent only when the receiver has  *)
(* acknowledged it, or with everything else: an item leaves the sent queue *)
(* by a control word whose N(R) is past it, by the end of the service, or  *)
(* by the purge after the tx queue has refused a frame.                    *)
(***************************************************************************)
UnackedKept ==
    [][fop.state \in AdStates /\ fop'.state # "INIT" /\ ~RefusalPurged =>
          \A i \in DOMAIN fop.sent :
             Kept(fop.sent[i]) \/ \E c \in Clcw : Acks(c.nr) >= i /\ HandleClcw(c)]_fopVars

(* The frame of an outstanding item has not left the tx queue. *)
Queued(f, i) == \E k \in DOMAIN f.tx : f.tx[k] = FrameOf(f.sent[i])

(***************************************************************************)
(* osdlp_initiate_ad_retransmission clears the tx queue without looking at *)
(* it.  An AD frame that is cleared there, or dropped in any other way     *)
(* than by being sent, while it is still outstanding comes again: its item *)
(* is flagged or sent anew.  Bypass frames have no item and do not.        *)
(***************************************************************************)
ClearedComesAgain ==
    [][fop'.state \in AdStates /\ ~RefusalPurged /\ ~Uplink =>
          \A i \in DOMAIN fop.sent, j \in DOMAIN fop'.sent :
             Queued(fop, i) /\ fop'.sent[j].seq = fop.sent[i].seq =>
                fop'.sent[j].rt \/ Queued(fop', j)]_fopVars

(***************************************************************************)
(* osdlp_cop.h, 65: the type of a queued item is the type, A or B, of the  *)
(* frame it holds.  A waiting SDU that goes out under the header of a      *)
(* bypass request breaks it.                                               *)
(***************************************************************************)
ItemTypeIsFrameType ==
    \A i \in DOMAIN fop.sent : fop.sent[i].type = "A" <=> fop.sent[i].code = "AD"

(***************************************************************************)
(* All frames are packed under the one header of the struct, which every   *)
(* request and the directives with a control frame rewrite.  A waiting SDU *)
(* that is packed long after its request may leave as a BD frame, but no   *)
(* SDU leaves as a control frame and no control frame as data: whatever    *)
(* rewrites the header to a control frame has purged the wait queue.       *)
(***************************************************************************)
SduUnderDataHeader ==
    \A i \in DOMAIN fop.tx : fop.tx[i].sdu \in SDU <=> fop.tx[i].code \in {"AD", "BD"}

(***************************************************************************)
(* One signal answers AD requests, BD requests and directives, and the     *)
(* application waits for ACCEPT_TX to send on (test_normal_op.c, 134-137). *)
(* An SDU that waits is gone by ACCEPT_TX only if it has become            *)
(* outstanding, and otherwise by an alert or an error; ACCEPT_TX does not  *)
(* appear while it waits, except as the answer to a bypass request.        *)
(* Directives are answered to the management; items that are not what      *)
(* their type says are left aside.                                         *)
(***************************************************************************)
FateSignalled ==
    [][fop.wait # <<>> /\ ItemTypeIsFrameType =>
          \/ fop'.wait = <<>> /\ fop'.signal = "ACCEPT_TX"
                /\ \E j \in DOMAIN fop'.sent : fop'.sent[j].sdu = fop.wait[1]
          \/ fop'.wait = <<>> /\ fop'.signal \in Alerts \cup {"UNDEF_ERROR"}
          \/ fop'.wait # <<>> /\ (fop'.signal = "ACCEPT_TX" => fop.signal = "ACCEPT_TX")
          \/ Directive \/ \E d \in SDU : RequestBd(d)]_fopVars

(***************************************************************************)
(* Once it is being initialised, a service comes into service or is given  *)
(* up, whatever the receiver answers, if it answers at all.                *)
(***************************************************************************)
InitEnds == fop.state \in {"INIT_NO_BC", "INIT_BC"} ~> fop.state \notin {"INIT_NO_BC", "INIT_BC"}

OutstandingTimed == fop.state \in OpenStates /\ fop.sent # <<>> => fop.armed \/ late

(***************************************************************************)
(* In ACTIVE and RT_NO_WAIT an outstanding frame is under the timer, so    *)
(* that its loss is noticed.  There are two ways to outstanding frames     *)
(* without a timer: through RT_WAIT, which ignores an expiry and does not  *)
(* start the timer again when it is left by fop_e6 or resumed; and through *)
(* osdlp_set_sliding_window, since osdlp_remove_acked_frames stops one     *)
(* after the window it finds, whatever is outstanding.                     *)
(***************************************************************************)
TimerLostOnlyInRtWait ==
    [][fop.state # "RT_WAIT" /\ Len(fop.sent) <= fop.wnd + 1 /\ OutstandingTimed =>
          OutstandingTimed']_fopVars

-----------------------------------------------------------------------------
(* What the comments, headers and tests say of the FOP and the code does not do. *)

(***************************************************************************)
(* osdlp_cop.h, 350-353: a tx queue that refuses a frame is "a means for   *)
(* the higher layers to stop the flow of packets if some error occurs": a  *)
(* FOP that signals the error is out of service.                           *)
(***************************************************************************)
ErrorEndsService ==
    fop.signal \in Alerts \cup {"UNDEF_ERROR"} => fop.state = "INIT"
=============================================================================
