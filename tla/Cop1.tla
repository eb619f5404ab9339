--------------------------------- MODULE Cop1 ---------------------------------
(***************************************************************************)
(* COP-1: a FOP and a FARM on one virtual channel, joined by the channels  *)
(* of test_normal_op.c: the tx queue, whose frames the receiver takes or   *)
(* loses, and a queue of control words going down.  The AD service only:   *)
(* nobody sends bypass data.  SDUs are numbered as they are accepted.      *)
(***************************************************************************)
EXTENDS Fop, Farm

CONSTANTS
    DownCap,    \* bound: control words under way
    MaxStarts,  \* bound: initiating directives
    NewVrs      \* values the management gives Set V(R)

ASSUME SduNumbersAssumption == IsFiniteSet(SDU) /\ SDU = 1 .. Cardinality(SDU)
ASSUME NewVrsAssumption == NewVrs \subseteq SeqNum
ASSUME DownCapAssumption == DownCap \in Nat
ASSUME MaxStartsAssumption == MaxStarts \in Nat

VARIABLES
    down,       \* control words under way to the sender
    taken,      \* SDUs the receiving application has taken
    accepted,   \* number of SDUs the FOP has accepted
    starts      \* initiating directives given so far

copVars == <<fop, late, farm, rx, owed, verdict, down, taken, accepted, starts>>

CopInit ==
    /\ FopInit /\ FarmInit
    /\ down = <<>>
    /\ taken = <<>>
    /\ accepted = 0
    /\ starts = 0

-----------------------------------------------------------------------------
(* The sending side. *)

Offer ==
    /\ accepted + 1 \in SDU
    /\ RequestAd(accepted + 1)
    /\ accepted' = IF fop'.signal \in {"ACCEPT_TX", "DELAY_RESP"} THEN accepted + 1 ELSE accepted
    /\ UNCHANGED <<farmVars, down, taken, starts>>

TakeClcw ==
    /\ down # <<>>
    /\ HandleClcw(Head(down))
    /\ down' = Tail(down)
    /\ UNCHANGED <<farmVars, taken, accepted, starts>>

Timer ==
    /\ Expire \/ HandleTimerExpired
    /\ UNCHANGED <<farmVars, down, taken, accepted, starts>>

(* Nothing of the service before is under way. *)
Quiet == fop.tx = <<>> /\ down = <<>>

Initiate ==
    /\ starts < MaxStarts /\ Quiet
    /\ \/ starts = 0 /\ InitiateNoClcw
       \/ InitiateWithClcw \/ InitiateWithUnlock \/ \E v \in NewVrs : InitiateWithSetvr(v)
    /\ starts' = starts + 1
    /\ UNCHANGED <<farmVars, down, taken, accepted>>

Manage ==
    /\ TerminateAd \/ ResumeAd
    /\ UNCHANGED <<farmVars, down, taken, accepted, starts>>

-----------------------------------------------------------------------------
(* The channels and the receiving side. *)

HearFrame ==
    /\ fop.tx # <<>>
    /\ Receive(Head(fop.tx))
    /\ Uplink
    /\ UNCHANGED <<down, taken, accepted, starts>>

LoseFrame ==
    /\ Uplink
    /\ UNCHANGED <<farmVars, down, taken, accepted, starts>>

Report ==
    /\ Len(down) < DownCap
    /\ down' = Append(down, ClcwReport)
    /\ UNCHANGED <<fopVars, farmVars, taken, accepted, starts>>

LoseClcw ==
    /\ down # <<>>
    /\ down' = Tail(down)
    /\ UNCHANGED <<fopVars, farmVars, taken, accepted, starts>>

Take(n) ==
    /\ Consume(n)
    /\ taken' = taken \o SubSeq(rx, 1, n)
    /\ UNCHANGED <<fopVars, down, accepted, starts>>

Release ==
    /\ BufferRelease
    /\ UNCHANGED <<fopVars, down, taken, accepted, starts>>

CopNext ==
    \/ Offer \/ TakeClcw \/ Timer \/ Initiate \/ Manage
    \/ HearFrame \/ LoseFrame \/ Report \/ LoseClcw
    \/ \E n \in 1 .. RxCap : Take(n)
    \/ Release

CopSpec == CopInit /\ [][CopNext]_copVars

(* The timer runs out, both applications and the channels keep moving, and a control
   word gets through again and again. *)
CopFairness ==
    /\ WF_copVars(Timer)
    /\ WF_copVars(\E n \in 1 .. RxCap : Take(n))
    /\ WF_copVars(Release)
    /\ WF_copVars(HearFrame)
    /\ WF_copVars(Report)
    /\ SF_copVars(TakeClcw)

CopFairSpec == CopSpec /\ CopFairness

-----------------------------------------------------------------------------
(* Properties. *)

CopTypeOK ==
    /\ FopTypeOK /\ FarmTypeOK
    /\ down \in Seq(Clcw) /\ Len(down) <= DownCap
    /\ taken \in Seq(SDU)
    /\ accepted \in 0 .. Cardinality(SDU) /\ starts \in 0 .. MaxStarts

(***************************************************************************)
(* V(R) is never behind the oldest outstanding frame of an open service    *)
(* nor ahead of V(S): whatever is lost, repeated or late, the two ends     *)
(* agree on the window.                                                    *)
(***************************************************************************)
NumbersAgree ==
    Serving => (fop.vs - farm.vr) % SeqMod <= Len(fop.sent)

(***************************************************************************)
(* The tx queue holds at most one window of frames and the sent ones once  *)
(* more: the clearing of osdlp_initiate_ad_retransmission keeps a slow     *)
(* channel from piling up frames that are there already.                   *)
(***************************************************************************)
TxBounded ==
    Serving => Len(fop.tx) <= fop.wnd + Len(fop.sent)

(* What the receiving application has got, and what its queue still holds. *)
Arrived == taken \o rx

(* The SDUs the FOP holds: sent or waiting. *)
Held(f) == [i \in DOMAIN f.sent |-> f.sent[i].sdu] \o f.wait

Due(d, arrived) == d # NoSDU /\ \A i \in DOMAIN arrived : arrived[i] # d

(* Those the service still owes: from the first that has not arrived on. *)
Owed(f, arrived) ==
    LET n == CHOOSE k \in 1 .. Len(Held(f)) + 1 :
                /\ \A i \in 1 .. k - 1 : ~ Due(Held(f)[i], arrived)
                /\ k <= Len(Held(f)) => Due(Held(f)[k], arrived)
    IN  SubSeq(Held(f), n, Len(Held(f)))

OwedSdus == Owed(fop, Arrived)

Service == INSTANCE AdService WITH
    open <- Serving, accepted <- accepted, current <- OwedSdus, delivered <- Arrived

(***************************************************************************)
(* COP-1 keeps the promise of AdService: an SDU leaves the queues of the   *)
(* FOP only by arriving, in order and once, or with the whole service.     *)
(***************************************************************************)
AdServiceKept == Service!AdSpec

(***************************************************************************)
(* A service that owes SDUs delivers them or gives up: it does not hang on *)
(* lost frames, lost control words and a spent transmission limit.         *)
(***************************************************************************)
OwedArriveOrEnd == []<>(OwedSdus = <<>> \/ fop.state = "INIT")

-----------------------------------------------------------------------------
(* What the comments say of the two ends together and the code does not do. *)

(***************************************************************************)
(* test_farm_window.c, 332: with V(R) = 1 the frame 255, two behind, is    *)
(* "Inside negative window of FARM", which is window_width / 2 wide        *)
(* (osdlp_cop.c, 45).  So is, for every V(R), the frame just received: a   *)
(* FOP whose window is smaller than the FARM's, and whose V(S) starts at   *)
(* V(R), never locks the FARM out by retransmitting.                       *)
(***************************************************************************)
RetransmissionHarmless == farm.state # "LOCKOUT"
=============================================================================
