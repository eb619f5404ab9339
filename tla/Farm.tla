-------------------------------- MODULE Farm --------------------------------
(***************************************************************************)
(* FARM-1, the receiving end of COP-1 (src/osdlp_cop.c, farm_* functions,  *)
(* driven by osdlp_tc_receive) on a virtual channel without segmentation   *)
(* header, together with the receive queue it fills and the application    *)
(* that empties the queue and must then call osdlp_buffer_release.         *)
(***************************************************************************)
EXTENDS CopTypes, Headers

CONSTANTS
    WindowWidth,    \* window_width of osdlp_prepare_farm
    RxCap,          \* capacity of the receive queue
    Vcid            \* mission.vcid

ASSUME WindowAssumption == WindowWidth \in 2 .. SeqMod - 1
ASSUME RxCapAssumption == RxCap \in Nat \ {0}
ASSUME VcidAssumption == Vcid \in Bits(64)

VARIABLES
    farm,   \* struct farm_config, its variable fields
    rx,     \* the receive queue: SDUs not yet taken by the application
    owed,   \* the application emptied a full queue, the release call is due
    verdict \* what osdlp_farm_1 returned for the last frame

farmVars == <<farm, rx, owed, verdict>>

PW == WindowWidth \div 2
NW == WindowWidth \div 2

(* struct farm_config, its variable fields. *)
FarmConfig == [state : {"OPEN", "WAIT", "LOCKOUT"}, lockout : BOOLEAN, wait : BOOLEAN,
               retransmit : BOOLEAN, vr : SeqNum, farmb : 0 .. 3]

Verdicts == {"ENQ", "PRIORITY_ENQ", "DISCARD", "OK", "ERROR"}

FarmInit ==
    /\ farm = [state |-> "OPEN", lockout |-> FALSE, wait |-> FALSE,
               retransmit |-> FALSE, vr |-> 0, farmb |-> 0]
    /\ rx = <<>>
    /\ owed = FALSE
    /\ verdict = "OK"

RxFull == Len(rx) = RxCap

(* The control word osdlp_prepare_clcw builds from the FARM's variables. *)
ClcwReport == [lockout |-> farm.lockout, wait |-> farm.wait,
               rt |-> farm.retransmit, nr |-> farm.vr]

Bit(b) == IF b THEN 1 ELSE 0

(* The fields of mission.clcw that nobody sets: osdlp_tc_init copies them uninitialised. *)
Unset == [status_field : Bits(8), rsvd_spare1 : Bits(4), rf_avail : Bits(2),
          bit_lock : Bits(2), rsvd_spare2 : Bits(2)]

(* The fields osdlp_prepare_clcw packs, and what osdlp_handle_clcw reads of the octets. *)
PreparedClcw(u) ==
    [ctrl_word_type |-> 0, clcw_version_num |-> 0, status_field |-> u.status_field,
     cop_in_effect |-> 1, vcid |-> Vcid, rsvd_spare1 |-> u.rsvd_spare1,
     rf_avail |-> u.rf_avail, bit_lock |-> u.bit_lock,
     lockout |-> Bit(farm.lockout), wait |-> Bit(farm.wait), rt |-> Bit(farm.retransmit),
     farm_b_counter |-> farm.farmb, rsvd_spare2 |-> u.rsvd_spare2, report_value |-> farm.vr]

HeardReport(octets) ==
    LET c == ClcwUnpack(octets)
    IN  [lockout |-> c.lockout = 1, wait |-> c.wait = 1, rt |-> c.rt = 1, nr |-> c.report_value]

-----------------------------------------------------------------------------
(* The windows around V(R), as the code computes them on ints. *)

ConditionE3_ClosedEdge(ns, vr) ==
    (ns - vr) % SeqMod \in 1 .. PW

ConditionE3(ns, vr) ==
    \/ ns > vr /\ ns <= vr + PW - 1
    \/ /\ vr > (vr + PW - 1) % SeqMod
       /\ ns < vr
       /\ ns < (vr + PW - 1) % SeqMod

ConditionE4(ns, vr) ==
    \/ ns < vr /\ ns >= vr - NW
    \/ /\ (ns + PW) % SeqMod >= vr
       /\ (ns + PW) % SeqMod < vr + PW - 1

-----------------------------------------------------------------------------
(* AD frames.  In E1 the WAIT state answers COP_ERROR and LOCKOUT COP_DISCARD, *)
(* neither touching the FARM's variables.                                      *)

FarmE1_QueueIgnored(fr) ==
    /\ fr.num = farm.vr
    /\ farm.state = "OPEN"
    /\ farm' = [farm EXCEPT !.vr = Inc(@), !.retransmit = FALSE]
    /\ rx' = IF RxFull THEN rx ELSE Append(rx, fr.sdu)
    /\ verdict' = "ENQ"

FarmE1(fr) ==
    /\ fr.num = farm.vr /\ ~RxFull
    /\ IF farm.state = "OPEN"
       THEN /\ farm' = [farm EXCEPT !.vr = Inc(@), !.retransmit = FALSE]
            /\ rx' = Append(rx, fr.sdu)
            /\ verdict' = "ENQ"
       ELSE /\ verdict' = IF farm.state = "WAIT" THEN "ERROR" ELSE "DISCARD"
            /\ UNCHANGED <<farm, rx>>

FarmE2_NoRetransmit(fr) ==
    /\ fr.num = farm.vr /\ RxFull
    /\ farm' = IF farm.state = "OPEN" THEN [farm EXCEPT !.wait = TRUE, !.state = "WAIT"]
               ELSE farm
    /\ verdict' = "DISCARD"
    /\ UNCHANGED rx

FarmE2(fr) ==
    /\ fr.num = farm.vr /\ RxFull
    /\ farm' = IF farm.state = "OPEN"
               THEN [farm EXCEPT !.retransmit = TRUE, !.wait = TRUE, !.state = "WAIT"]
               ELSE farm
    /\ verdict' = "DISCARD"
    /\ UNCHANGED rx

FarmE3_Silent(fr) ==
    /\ fr.num # farm.vr /\ ConditionE3(fr.num, farm.vr)
    /\ verdict' = "DISCARD"
    /\ UNCHANGED <<farm, rx>>

FarmE3(fr) ==
    /\ fr.num # farm.vr /\ ConditionE3(fr.num, farm.vr)
    /\ farm' = IF farm.state = "OPEN" THEN [farm EXCEPT !.retransmit = TRUE] ELSE farm
    /\ verdict' = "DISCARD"
    /\ UNCHANGED rx

FarmE4(fr) ==
    /\ fr.num # farm.vr /\ ~ConditionE3(fr.num, farm.vr) /\ ConditionE4(fr.num, farm.vr)
    /\ verdict' = "DISCARD"
    /\ UNCHANGED <<farm, rx>>

FarmE5(fr) ==
    /\ fr.num # farm.vr /\ ~ConditionE3(fr.num, farm.vr) /\ ~ConditionE4(fr.num, farm.vr)
    /\ farm' = IF farm.state = "LOCKOUT" THEN farm
               ELSE [farm EXCEPT !.state = "LOCKOUT", !.lockout = TRUE]
    /\ verdict' = "DISCARD"
    /\ UNCHANGED rx

-----------------------------------------------------------------------------
(* Bypass frames: counted in every state, modulo 4. *)

CountB(f) == [f EXCEPT !.farmb = (@ + 1) % 4]

(* enqueue_now: a full circular queue has tail = head, so the copy lands on the head. *)
EnqueueNow_Unbounded(q, sdu) == Append(q, sdu)

EnqueueNow(q, sdu) == IF Len(q) < RxCap THEN Append(q, sdu) ELSE [q EXCEPT ![1] = sdu]

FarmE6(fr) ==
    /\ farm' = CountB(farm)
    /\ rx' = EnqueueNow(rx, fr.sdu)
    /\ verdict' = "PRIORITY_ENQ"

(* UNLOCK: the OPEN state leaves the wait and lockout flags as they are. *)
FarmE7 ==
    LET f == [CountB(farm) EXCEPT !.retransmit = FALSE]
    IN  /\ farm' = CASE farm.state = "OPEN"    -> f
                     [] farm.state = "WAIT"    -> [f EXCEPT !.wait = FALSE, !.state = "OPEN"]
                     [] farm.state = "LOCKOUT" -> [f EXCEPT !.wait = FALSE, !.lockout = FALSE,
                                                            !.state = "OPEN"]
        /\ verdict' = "OK"
        /\ UNCHANGED rx

(* Set V(R): obeyed in OPEN and WAIT, only counted in LOCKOUT. *)
FarmE8(fr) ==
    LET f == [CountB(farm) EXCEPT !.vr = fr.num, !.retransmit = FALSE]
    IN  /\ farm' = CASE farm.state = "OPEN"    -> f
                     [] farm.state = "WAIT"    -> [f EXCEPT !.wait = FALSE, !.state = "OPEN"]
                     [] farm.state = "LOCKOUT" -> CountB(farm)
        /\ verdict' = "OK"
        /\ UNCHANGED rx

(* osdlp_tc_receive of a frame that passes delimiting and validation. *)
Receive(fr) ==
    /\ \/ fr.code = "AD" /\ (FarmE1(fr) \/ FarmE2(fr) \/ FarmE3(fr) \/ FarmE4(fr) \/ FarmE5(fr))
       \/ fr.code = "BD" /\ FarmE6(fr)
       \/ fr.code = "UNLOCK" /\ FarmE7
       \/ fr.code = "SETVR" /\ FarmE8(fr)
    /\ UNCHANGED owed

-----------------------------------------------------------------------------
(* The application side. *)

(***************************************************************************)
(* The application takes n SDUs from the queue; when the queue was full it *)
(* owes the FARM a call of osdlp_buffer_release (test_normal_op.c, 273).   *)
(***************************************************************************)
Consume_ReleaseForgotten(n) ==
    /\ n \in 1 .. Len(rx)
    /\ rx' = SubSeq(rx, n + 1, Len(rx))
    /\ owed' = (owed \/ (RxFull /\ n = Len(rx)))
    /\ UNCHANGED <<farm, verdict>>

Consume(n) ==
    /\ n \in 1 .. Len(rx)
    /\ rx' = SubSeq(rx, n + 1, Len(rx))
    /\ owed' = (owed \/ RxFull)
    /\ UNCHANGED <<farm, verdict>>

ResetWait_StateOnly(f) == [f EXCEPT !.state = "OPEN"]

ResetWait(f) == [f EXCEPT !.wait = FALSE, !.state = "OPEN"]

BufferRelease_FlagOnly ==
    /\ owed
    /\ farm' = [farm EXCEPT !.wait = FALSE]
    /\ owed' = FALSE
    /\ UNCHANGED <<rx, verdict>>

BufferRelease ==
    /\ owed
    /\ farm' = ResetWait(farm)
    /\ owed' = FALSE
    /\ UNCHANGED <<rx, verdict>>

-----------------------------------------------------------------------------
(* Frames the standalone FARM may hear: anything a peer's osdlp_tc_pack can build. *)
Uplinked ==
    [code : {"AD"}, num : SeqNum, sdu : SDU]
      \cup [code : {"BD"}, num : {0}, sdu : SDU]
      \cup [code : {"UNLOCK"}, num : {0}, sdu : {NoSDU}]
      \cup [code : {"SETVR"}, num : SeqNum, sdu : {NoSDU}]

FarmNext ==
    \/ \E fr \in Uplinked : Receive(fr)
    \/ \E n \in 1 .. RxCap : Consume(n)
    \/ BufferRelease

FarmSpec == FarmInit /\ [][FarmNext]_farmVars

(* The application keeps emptying its queue and making the call it owes. *)
FarmFairness ==
    /\ WF_farmVars(\E n \in 1 .. RxCap : Consume(n))
    /\ WF_farmVars(BufferRelease)

FarmFairSpec == FarmSpec /\ FarmFairness
-----------------------------------------------------------------------------
(* Properties. *)

FarmTypeOK ==
    /\ farm \in FarmConfig
    /\ rx \in Seq(SDU) /\ Len(rx) <= RxCap
    /\ owed \in BOOLEAN
    /\ verdict \in Verdicts

(***************************************************************************)
(* The control word alone tells the sender which state the FARM is in as   *)
(* far as the sender must react: a FARM in WAIT reports both the wait and  *)
(* the retransmit flag, a FARM in LOCKOUT reports lockout, and an OPEN     *)
(* FARM never asks to wait.  The flags and the state are set by different  *)
(* events (farm_e2 to farm_e8, osdlp_reset_wait).                          *)
(***************************************************************************)
ClcwTellsState ==
    /\ farm.state = "WAIT" => ClcwReport.wait /\ ClcwReport.rt
    /\ farm.state = "LOCKOUT" => ClcwReport.lockout
    /\ farm.state = "OPEN" => ~ClcwReport.wait

(***************************************************************************)
(* The sender reads from the four octets of the control word what the FARM *)
(* reports, whatever the fields hold that were never set: flags, counters  *)
(* and the channel are packed into shared octets and none of them shows    *)
(* through in another.                                                     *)
(***************************************************************************)
ReportSurvives ==
    \A u \in Unset : HeardReport(ClcwPack(PreparedClcw(u))) = ClcwReport

(***************************************************************************)
(* A FARM never waits for a release that nobody will make: while it is in  *)
(* WAIT either the receive queue is still full, so that emptying it will   *)
(* lead to the call, or the call is already due.                           *)
(***************************************************************************)
WaitIsReleasable == farm.state = "WAIT" => RxFull \/ owed

(* Distance of ns ahead of and behind V(R), on the circle of sequence numbers. *)
Ahead(ns) == (ns - farm.vr) % SeqMod
Behind(ns) == (farm.vr - ns) % SeqMod

(***************************************************************************)
(* The integer comparisons of condition_farm_e3 and condition_farm_e4 are  *)
(* exactly the two windows on the circle of sequence numbers, for every    *)
(* V(R), except for one number each: when the positive window wraps its    *)
(* last number is left out, and when V(R) is 0 the frame just behind it is *)
(* left out.  In particular no number outside both windows is let in.      *)
(***************************************************************************)
WindowExact ==
    \A ns \in SeqNum \ {farm.vr} :
        /\ ConditionE3(ns, farm.vr) <=>
              Ahead(ns) < PW /\ ~(ns < farm.vr /\ Ahead(ns) = PW - 1)
        /\ ConditionE4(ns, farm.vr) /\ ~ConditionE3(ns, farm.vr) <=>
              Behind(ns) <= NW /\ ~(farm.vr = 0 /\ ns = SeqMod - 1)

AdFrames == [code : {"AD"}, num : SeqNum, sdu : SDU]

(***************************************************************************)
(* A frame the sender is waiting to get through is never dropped silently: *)
(* whenever an AD frame inside the positive window is not put in the       *)
(* queue, the next control word asks for a retransmission or reports the   *)
(* lockout.  In WAIT and LOCKOUT the handlers set no flag and rely on the  *)
(* ones set on entry still standing.                                       *)
(***************************************************************************)
DiscardReported ==
    [][\A fr \in AdFrames :
          Receive(fr) /\ Ahead(fr.num) < PW /\ verdict' # "ENQ"
            => ClcwReport'.rt \/ ClcwReport'.lockout]_farmVars

(***************************************************************************)
(* V(R) acknowledges a frame exactly when its SDU has entered the queue:   *)
(* an AD frame moves V(R), by one, if and only if the queue grows by its   *)
(* SDU.                                                                    *)
(***************************************************************************)
AckedIffQueued ==
    [][\A fr \in AdFrames :
          Receive(fr) =>
            \/ farm'.vr = Inc(farm.vr) /\ rx' = Append(rx, fr.sdu) /\ fr.num = farm.vr
            \/ farm'.vr = farm.vr /\ rx' = rx]_farmVars

(***************************************************************************)
(* Once the FARM is waiting, an application that keeps emptying its queue  *)
(* and calling osdlp_buffer_release gets it out of WAIT.                   *)
(***************************************************************************)
WaitEnds == (farm.state = "WAIT") ~> (farm.state # "WAIT")

-----------------------------------------------------------------------------
(* What the tests and headers say of the FARM and the code does not do. *)

(***************************************************************************)
(* test_farm_window.c, 181-195: once the frame of                          *)
(* osdlp_initiate_with_unlock has been received, the control word no       *)
(* longer reports a lockout.                                               *)
(***************************************************************************)
UnlockClearsLockout ==
    [][Receive([code |-> "UNLOCK", num |-> 0, sdu |-> NoSDU])
          => ~ClcwReport'.lockout]_farmVars
=============================================================================
