# OSDLP: a verification development

OSDLP implements the Space Data Link Protocols for small satellites in C: TC
(telecommand) and TM (telemetry) transfer frames, the space packet header, the
CLCW and the COP-1 retransmission protocol. This directory holds TLA+ models of
its core, TLC runs on small instances, and TLAPS proofs for all values of the
parameters. Run things from here:

    tlasany Cop1.tla                                  # parse
    tlc -workers 2 -config MCFarm.cfg MCFarm          # one run
    tlapm FarmProofs.tla                              # proofs: the headers and the FARM
    tlapm FopProofs.tla                               # the FOP: types, queues, timer, numbers, headers
    tlapm FopStepProofs.tla                           # the FOP: what a step may never do
    tlapm Cop1Proofs.tla                              # both ends: types and numbers
    tlapm Cop1ServiceProofs.tla                       # both ends: window and service
    tlapm Cop1RoomProofs.tla                          # both ends: room for two windows
    tlapm SegmentsProofs.tla                          # segmentation and reassembly
    tlapm TmProofs.tla                                # packets over telemetry frames

`PROJECT.json` lists the components, the runs, one mutant per property, the
source lines behind each definition, the disagreements found, the hazards and
the theorems.

## 1. Inventory

| Component | Source | State | Operations |
|---|---|---|---|
| FARM-1, receiving end of COP-1 | `src/osdlp_cop.c` 30-330 | `struct farm_config`: state OPEN/WAIT/LOCKOUT, flags lockout, wait, retransmit, V(R), FARM-B counter | `osdlp_farm_1` (events E1-E8), `osdlp_buffer_release` |
| FOP-1, sending end of COP-1 | `src/osdlp_cop.c` 330-2450 | `struct fop_config`: six states, V(S), NN(R), window, transmission counter, limit, timeout type, suspend state, signal; wait and sent queue | `osdlp_handle_clcw` (E1-E14, E101-E103), `osdlp_handle_timer_expired` (E16-E18, E104), requests (E19-E21), directives (E23-E38), the four accept/reject answers |
| TC frames | `src/osdlp_tc.c` | `struct tc_transfer_frame`: the header (shared between requests), the segmentation status, the reassembly loop | `osdlp_tc_transmit`, `osdlp_tc_receive`, pack/unpack, `osdlp_prepare_*` |
| CLCW codec | `src/osdlp_clcw.c` | none | pack/unpack |
| TM frames | `src/osdlp_tm.c` | per virtual channel and end: loop state, octets queued or buffered, expected length, stuffing switch; frame counters | `osdlp_tm_transmit*`, `osdlp_abort_segmentation`, the stuffing switch, `osdlp_tm_receive` |
| Headers | `osdlp_tc_pack`, `osdlp_tm_pack` and their counterparts, `src/osdlp_spp.c` | none | pure functions |
| CRC-16 | `src/osdlp_crc.c` | none | a pure function |
| Queues, timer, channels, applications | `test/test.c`, `test/queue_util.c`, `test/test_normal_op.c` | circular queues, a timer thread, two channels | the weak functions that the library calls |

How they meet. `osdlp_tc_transmit` hands an SDU to the FOP (E19-E21), which
packs it, keeps it in the sent queue and calls `osdlp_tc_tx_queue_enqueue`. That
callback answers *from inside the call*, through `osdlp_ad_accept`,
`osdlp_ad_reject`, `osdlp_bc_accept` and so on, which change the same struct and
may look for the next frame: the sending side is re-entrant. On the other side
`osdlp_tc_receive` runs the FARM and puts the SDU in the receive queue;
`osdlp_prepare_clcw` builds the control word from the FARM's flags; it travels
down and enters `osdlp_handle_clcw`. The application that empties a full receive
queue calls `osdlp_buffer_release`. In `test_normal_op.c` the sender, the
receiver, the CLCW listener and the timer are threads; one mutex makes the calls
of the first three atomic; the timer handler calls the FOP without it (see
"Atomicity" below).

An SDU longer than a frame is cut by `osdlp_tc_transmit`, segment by segment,
each a request of its own to the FOP; a call that has to stop remembers how far
it got in `seg_status`, and the application calls again. `osdlp_tc_receive` joins
the segments that the FARM lets through. On the way down, `osdlp_tm_transmit`
packs packets into frames of fixed length in a queue, the next packet perhaps
into the unused end of the last frame, and `osdlp_tm_receive` takes them apart
by the first header pointer and the length inside each packet.

What is hard: numbers that wrap, in integer comparisons; re-entrant callbacks
that change the state of the handler that called them; the queues at their
capacity; a timer whose expiry is noted and handled apart; services that are
suspended, resumed, ended and started again over state that survives; lost and
repeated frames and control words; the state of an SDU or packet in progress, at
both ends, that survives partial calls, refusals, losses and ends of service;
lengths and positions at frame borders. Each hazard is in `PROJECT.json` at its line,
with the properties that watch it.

What makes each component correct:

- FARM: the control word tells the truth about the state; no useful frame is
  dropped without saying so; V(R) acknowledges exactly what was queued; WAIT can
  always end and does; the windows are the windows.
- FOP: the queues hold what the state allows; the sent queue is the run of
  numbers below V(S); only acknowledged frames are forgotten; waiting is timed.
- Both together: in-order, exactly-once, or the service ends.
- TC segmentation: what is handed on is an SDU as it was sent, unless a frame of
  it was lost; a loss costs no more than it must; what is started arrives.
- TM: a packet that lost no octet arrives, in order and once; nothing else is made
  up except over a lost frame; stuffing spares what is in the queue.
- Headers: what is packed is what is read.

## 2. Modules

| Module | What it is |
|---|---|
| `CopTypes` | sequence numbers, frames and control words |
| `Headers` | the four headers as octets: pack and unpack |
| `Farm` | the FARM, its receive queue and the receiving application |
| `Fop` | the FOP with its queues, timer, directives and transmit requests |
| `AdService` | abstract: what the AD service promises |
| `Cop1` | a `Fop` and a `Farm` over two lossy channels; implements `AdService` |
| `Segments` | TC segmentation and reassembly over the service below |
| `Tm` | packets over telemetry frames |
| `FarmProofs` | theorems about `Headers` and `Farm` |
| `FopProofs`, `FopStepProofs` | theorems about `Fop` |
| `Cop1Proofs`, `Cop1ServiceProofs`, `Cop1RoomProofs` | theorems about `Cop1`, from those about its parts |
| `SegmentsProofs` | theorems about `Segments` |
| `TmProofs` | theorems about `Tm` |
| `MCFarm`, `MCFop`, `MCCop1`, `MCSegments`, `MCTm` | instances for TLC; the values are in the `.cfg` files |

### Farm

One action per event: `FarmE1` ... `FarmE8` are the C functions of those names,
chosen by `Receive` as `osdlp_farm_1` and `handle_farm_typea` choose them (queue
full or not, `ConditionE3`, `ConditionE4`, else E5); the conditions are the
integer comparisons of the code, on numbers below `SeqMod` (256 in the code).
`verdict` is the result that decides what `osdlp_tc_receive` does with the SDU,
so the enqueueing is part of the action. A bypass frame that meets a full queue
overwrites the *head*: in `enqueue_now` tail and head of a full circular queue
are the same slot. `Consume(n)` is the application taking SDUs; `owed` remembers that
the queue was full when it did, so that `osdlp_buffer_release` is due
(`test_normal_op.c`, 273). The guard `owed` is that documented calling rule.
The standalone FARM hears any frame that `osdlp_tc_pack` can build (`Uplinked`). A control
frame with a command that is neither UNLOCK nor Set V(R) is answered with `COP_ERROR`
(`osdlp_cop.c`, 301) and changes nothing; nobody builds one, so `Receive` leaves it out.

`ClcwReport` is what the FOP reads of the control word. `PreparedClcw` and
`HeardReport` take it through the octets of `Headers`; the fields that nobody
sets (`Unset`) hold what `osdlp_tc_init` copies from an uninitialised local
struct, so they may be anything. `ReportSurvives` says that both are the same, so
that the other modules may exchange `ClcwReport` itself.

`osdlp_prepare_farm` sets the state and the window only; V(R), the flags
and the counter are zero at the start because the struct of the tests is static.

### Fop

The C functions change one struct in place and call one another, so each is an
operator from a FOP state to the next (`FopE6(f, nr)`), and an action is one call
of an entry point, `fop' = Handler(fop)`. `fop` is `struct fop_config` with the
wait, sent and tx queues, the `armed` timer, and `hdr`, the frame type left in
the header the requests share: that is what makes a delayed SDU go out under
another request's type. The order inside a handler is kept: where the code sets
the state after `osdlp_look_for_fdu`, so does `FopE6` or `Retransmit`, over
whatever the callbacks did.

- *Re-entrance in closed form.* `osdlp_look_for_fdu` enqueues a flagged frame,
  whose acceptance looks for the next one, and so on. `Resend` states what the
  recursion does: it sends the run of flagged items from the first on, up to the
  first that is not an AD frame, only one in RT_WAIT, and purges everything when
  the tx queue refuses one. `RetransmitBc` does the same for the control frame.
  This also keeps `Fop` free of RECURSIVE operators, so it can be proved about.
- *Timer.* `Expire` notes that the timer ran out (`timer_thread`), the flag
  `late` stays up until `HandleTimerExpired` runs (`timer_handler`); a cancel in
  between does not take it back. `osdlp_timer_start` and `_cancel` are taken to
  do what their header says; the further races inside the timer threads of the test
  (a start lost between the kill and the end of the thread) are left out.
  `osdlp_set_timer` changes only the length of the timer, which untimed models do
  not see.
- *Atomicity.* One call of an entry point is one step. The threads of the test
  serialise all entry points by `lock`, except the timer handler; a program that
  lets it run inside another call has a data race on the whole struct, which the
  models do not follow.
- *Head of a full sent queue.* `front` of `queue_util.c` answers NULL when tail
  and head are equal, which is so for a full queue, and
  `osdlp_tc_sent_queue_head` then reads through NULL. A control word that would
  make the FOP do so is not taken (`ReadsSentHead`): the program does not survive it.
  In a correct set-up the sent queue is longer than the window.
- *Rejected directives* that change nothing and return an error are stutters.
- *MarksBc.* The header says `osdlp_mark_bc_as_rt` marks the queued item; the
  callback of the test casts to another struct and marks nothing. The constant
  chooses; TRUE is used for the one run about retransmitted control frames (`fop_live`).
  With FALSE, where an expiry only arms the timer again, that run's instance (108 thousand
  states) satisfies `InitEnds` too; it is not kept as a run.

### Cop1 and AdService

`Cop1` extends both ends. `Offer` numbers the SDUs as the signal says that they are
accepted (ACCEPT_TX or DELAY_RESP), so a delivery in order is an increasing one. `HearFrame` takes the head of the tx
queue to the FARM, `LoseFrame` loses it (one in five in the test); `Report`
puts a control word on the channel down, `TakeClcw` and `LoseClcw` take it off.
A control word rides in every TM frame, so `Report` may happen at any time, not
only after a frame. `Timer`, `Initiate`, `Manage`, `Take` and `Release` are the
calls of the timer, the management and the receiving application.

`AdService` is a page: `Accept`, `Deliver` in order, `End`, and `DeliverPast`,
for what a service that has ended left on its way and may still arrive, in order
and once. The mapping: `current` is what the FOP still holds, sent or
waiting, from the first SDU on that has not arrived (`OwedSdus`), `delivered` is what the application took and the
queue holds. An SDU that the FOP forgets without its having arrived
has no abstract step, unless the whole service ends.

Two assumptions of the composition, each needed:

- `Quiet`: a directive starts a service only when no frame and no control word
  of the service before is under way. COP-1 has no connection numbers: TLC shows
  that with either half left out an old frame or an old report is taken for one of the
  new service, and SDUs are silently skipped. The code does nothing about it
  (CCSDS leaves it to the operator). A late timer expiry from the service before is
  allowed and does no harm.
- `InitiateNoClcw` is only the first start: it assumes that V(S) equals V(R),
  which the operator knows only of a fresh pair.

The queues must have room: the sent queue for a window, the tx queue for two, and the
transmission limit must not be zero. The tests have it (windows of 5 over queues of 10,
`test_normal_op.c`, 425-450). With less, the tx queue may refuse a frame and the
service goes on in a broken state (run `cop_error_ends_service`); with this much it never
does (`RoomEndsService` in section 4).

### Segments

One sender, one receiver, one virtual channel with segmentation header. Octets
are pairs (SDU, position), so a segment knows what it carries. `Transmit` and
`Resume` are one call of `osdlp_tc_transmit` in closed form (`SendFrom`): its loop
hands over as many segments as the FOP takes (`Slots`), as the tx queue has room
for, or as the SDU has; `seg` is `seg_status`, with the type of the request in
progress. `SeqFlag` is what the two branches of lines 358-372 amount to. `wait` is
the FOP's wait queue, at most one segment, which counts as sent (lines 394-402) and goes
out in `ReleaseWait`. `HearAd` and `HearBd` are `osdlp_tc_receive` after the
FARM's verdict, with `Reassemble` as its switch over the sequence flag; `held` is
the FARM in WAIT, `TakeSdu` and `BufferRelease` the two steps of the receiving
application, `EndService` an alert or a directive and `Initiate` the next start.

- *The service below* is what `Cop1` shows: AD frames arrive in order and once, or
  are lost from some point on with the end of the service, and nothing of the old
  service is under way when the next one starts. When a queue is full the frame comes again. BD frames
  are lost one by one (also by the tx queue being cleared) and overtake AD frames.
  How many segments the FOP takes at once is left open up to the window.
- *The application's rule* is that of `transmitter` in `test_normal_op.c`: call
  again only after an accepting signal (`wait = <<>>`), resume the SDU in progress
  before another, with the same buffer. That also keeps another request from
  rewriting the header under which a waiting segment is packed
  (run `fop_item_type_is_frame_type` shows what happens otherwise).
- *Ghosts*: `torn` are the SDUs that lost a frame, or of which a frame was mixed
  with a bypass SDU under way at the same time; `arrived` those put whole into
  the receive queue.

### Tm

One virtual channel from `osdlp_tm_transmit` to the receive queue of the other
end. Octets are pairs again, `Idle` the fill octet. `Transmit` is one whole call: the
look at the last frame of the queue (`HasRoom`, `ResidueLen` for
`eval_residue_len`), the stuffing into it (`Stuffed`), and the loop over the remaining frames
up to the one the queue refuses (`Enqueue`); `Resume` is the call with the loop
open, `Abort`, `TransmitIdle` and `SwitchStuffing` the other entry points.
`Receive` dispatches as `osdlp_tm_receive` does; `Explore`, `JoinFrame`,
`JoinTail` and `ReceivePlain` are the handlers of the same cases, on a record of
the receiver's state that is handed from one to the next, because a frame may
end one packet, hold some, and start another. `stuffs`, chosen at the start, is
the receiver's own switch.

- *The length inside a packet* is read by a callback that needs the first `LenAt`
  octets (5 in the test). Where the octets joined are not the head of one packet,
  the length is anything (`garbage`); that is only possible while a head shorter
  than `LenAt` is being completed. A length of 0, with which the loops of the
  code would not advance, is not answered: packets have at least `LenAt` octets.
- *The walks* over the packets of a frame, of `eval_residue_len` from the pointer to the
  last packet and of the receiver from the pointer to what is left over, are one recursive
  function (`Walk`), which goes on by a given step until that stays where it is. `Explore` is
  the receiver's loop in closed form: as many of the packets found as the queue has room for
  are delivered, and the rest is kept only if none was refused.
- `eval_residue_len` looks up the length of a packet however few octets of it the frame holds.
  `LengthsRead` says that it never meets one of which the length is behind the data field.
- A full queue answers no last frame (`back` of `queue_util.c` returns NULL when
  tail and head are equal): nothing is stuffed then.
- The two frame counters are counted up even for a frame that the queue refuses,
  and nothing reads them; they are left out, with the control word field and the CRC.
- *Ghosts*: `hurt` are the packets that lost an octet or were given up, `arrived` has an
  entry for each delivery, in order: the packet, or 0 if the item is no whole packet.

### Headers

Pure operators, one pair for each header. A shift is a product or quotient by a power of
two, a mask a remainder, and the OR of disjoint fields a sum: `Put` and `Read`.
`TmUnpack` keeps the `&&` with which the code reads the version number.

## 3. Runs

The state spaces are complete in each run. The bounds:

| Run | Specification | Instance | States | What it shows |
|---|---|---|---|---|
| `farm` | `FarmFairSpec` | 8 numbers, window width 6 (halves of 3), queue of 2, 2 SDUs | 11 thousand | every property of the FARM |
| `fop_safety` | `FopSpec` | 3 numbers, windows 1 and 2 (changing under way), sent queue of 3, tx queue of 2, limit 2, counter modulo 3 | 1.4 million | the FOP against *any* control word at any time, any expiry, request and directive |
| `fop_live` | `FopFairSpec` | window 1, limits 1 and 2 (changing), tx queue of 1, control frames marked | 106 thousand | `InitEnds` |
| `cop_safety` | `CopSpec` | 3 SDUs, 5 numbers, FARM width 4, window 2, sent queue of 3, tx queue of 4, receive queue of 1, one control word under way, 2 services | 979 thousand | `NumbersAgree`, `TxBounded`, `ErrorEndsService` with room for two windows, and `AdServiceKept`: refinement of `AdService` |
| `cop_live` | `CopFairSpec` | 2 SDUs, 4 numbers, receive queue of 2, 1 service | 38 thousand | `OwedArriveOrEnd` |
| `segments` | `SegFairSpec` | segments of 2 octets, SDUs of 2, 3, 5 and 6 octets (5 fit the receiver), window 2, 3 frames under way, receive queue of 1, 3 SDUs, 1 end of service | 461 thousand | segmentation and reassembly |
| `tm` | `TmSpec` | data fields of 5 octets, packets of 2, 3, 8 and 10 octets (10 the longest), tx queue of 3, receive queue of 2, 4 packets, 1 idle frame, with and without stuffing | 2.3 million | packets over frames |

Why these are enough: numbers only meet in comparisons modulo `SeqMod`, and each
instance wraps (8 numbers cover every relative position of N(S), V(R) and both
window edges; V(S) of the composition starts at 3 of 5 by Set V(R)); the queues
fill; a window of two gives a first, a last and a waiting SDU; a receive queue of one
reaches WAIT after one frame; a limit of two has a first transmission, a
retransmission and the exhausted case, and limits 0 and 1 take the other
branches; two services in a row meet the left-overs of the first. Segments: the sizes give
one, two and three segments, the last full or not, and one SDU too long to join; three
SDUs are one torn, one that pays for it and one that must not. Tm: the packets
are shorter than the frame's own header, one to a frame, two frames, exactly two data
fields, with every offset that stuffing makes; the fourth packet follows a lost one and a
stuffed one. No symmetry is used. CHECK_DEADLOCK is off for `segments` and
`tm` only, where the bounded number of SDUs or packets ends a behaviour.

A larger instance of `fop_safety` (4 numbers, sent queue of 4, windows 1 and 3, tx
queue of 1: 3.6 million states, over five minutes) also satisfies all its properties; it
is not kept as a run. It was needed to see three frames outstanding under a
window of one, which is why `TimerLostOnlyInRtWait` speaks of the window.

The properties, briefly:

- `ClcwTellsState`, `WaitIsReleasable`: flags and states are set by different
  events, and the release of a wait comes from the application.
- `WindowExact`: the comparisons are the circular windows, except the last
  number of a positive window that wraps, and the frame just received when V(R) = 0.
- `ReportSurvives`: the octets of the control word carry the report, whatever its
  unset fields hold.
- `BoundsExact`: what the bounds test of `osdlp_handle_clcw` accepts on the circle:
  before V(S) has wrapped past NN(R), every number; after, the outstanding ones but NN(R) itself.
- `QueuesMatchState`: every way out of a service has purged; a suspended one
  keeps its queues; flagged items are adjacent (what `Resend` relies on).
- `SentEndsAtVs`: what `osdlp_remove_acked_frames` relies on. A queue that has
  been full may have lost a number, so it is stated below the capacity.
- `SduUnderDataHeader`: the header is shared, and a waiting SDU is packed under what
  others leave in it; that may be a bypass header, but never one of a control frame,
  because the directives that send one have purged the wait queue.
- `UnackedKept`: an item leaves the sent queue only by a report that is past it,
  or with everything. The purge by a refused enqueue is excepted.
- `ClearedComesAgain`: an AD frame cleared from the tx queue by a retransmission is
  marked or sent anew while it is outstanding.
- `FateSignalled`: an SDU that waits leaves the wait queue by acceptance or by an
  alert the application sees, and nothing but a bypass request or a directive
  shows an accepting signal meanwhile.
- `TimerLostOnlyInRtWait`: the loss of an outstanding frame is noticed, unless
  RT_WAIT was passed or the window was set below what is outstanding. What the first
  exception costs is `OwedArriveOrEnd` in run `cop_stuck`; of the second the repository
  says nothing.
- `NumbersAgree`: V(R) lies between the oldest outstanding number and V(S).
- `TxBounded`: whatever the channel loses or delays, retransmissions do not pile up:
  the tx queue holds a window at most and the outstanding frames once more. Two windows
  are reached: a window of frames the receiver already has and a window of new ones.
- `ErrorEndsService`: no handler sets a state over the alert of a frame that was
  refused. It holds in `cop_safety`, where there is room for two windows, and fails in
  `cop_error_ends_service`, where the tx queue is too short.
- `OwedArriveOrEnd`: under fairness, owed SDUs arrive or the service gives up.
- `WholeOrTorn`, `EachTearCostsOne`: only an SDU that lost a frame is handed on
  damaged, and each such SDU makes at most one other vanish (the loop it leaves open drops the
  next first segment).
- `StartedArrives`: through partial calls, waits and full queues an SDU arrives
  unless a frame is lost or the service is closed.
- `CleanArrive`, `InOrderOnce`: every packet that lost no octet arrives, in order
  and once; excepted is a packet of the maximal length under stuffing.
- `GivenUpUnmeasured`: the price of that exception. A packet being joined, of which no
  octet was lost, is dropped only if it is of the maximal length *and* its length has not
  been read yet, because a frame border fell into it; once it has, a packet that fills the
  buffer to the last octet is delivered.
- `WholeOrHurt`: a delivery that is no packet holds octets of a packet that was hurt.
- `LengthsRead`: the sender's walk asks for no length behind the data field. A packet
  that is stuffed and cut by the end of the frame leaves a head too short to be read; but stuffing
  needs a free place in the queue, so that a frame follows at once, which stays when the packet
  is refused further and given up.
- `StuffingSpares`: stuffing writes over no octet of a queued packet, except in an
  idle frame and except of a packet no longer than the frame's header that lies in the
  last octets of the frame, no more than that header has. `eval_residue_len` counts the header in
  and may overlook such a packet; one that lies further ahead it must not.

### Fairness

`FarmFairness`: the application keeps emptying its queue and makes the call it
owes: the loop of `receiver`. `FopFairness`: a running timer expires and its
expiry is handled: the loop of `timer_handler`. `CopFairness` adds that frames
are heard (weakly: they may also be lost, always), that control words are sent,
and strong fairness of `TakeClcw`: a control word gets through again and again,
which RT_WAIT needs, since only a control word ends it. Nothing is assumed
of requests, directives or the channel up. `SegFairness`: the loops of both
applications of `test_normal_op.c` go on, and frames are heard and the waiting
segment goes out as long as the service stands, which is what `OwedArriveOrEnd`
gives; nothing is assumed of new SDUs, ends of service or the next start.
`Tm` has no timer and no feedback: a lost frame is lost, so that only safety is stated.

### Disagreements found

Each has a run that TLC ends with a counterexample:

| Run | What the repository says | What happens |
|---|---|---|
| `farm_unlock_clears_lockout` | `test_farm_window.c`, 185-195: after `osdlp_initiate_with_unlock` the lockout is asserted to be reported as 0 | a release during LOCKOUT opens the FARM with the flag up; UNLOCK in OPEN does not lower it |
| `fop_item_type_is_frame_type` | `osdlp_cop.h`, 65: the type of an item is "Type_A or Type_B" | a BD request while an AD SDU waits turns the waiting SDU into a bypass frame kept as type A |
| `cop_error_ends_service` | `osdlp_cop.h`, 350-353: the higher layers' enqueue can "stop the flow of packets if some error occurs" | the state set after `osdlp_look_for_fdu` overwrites the alert raised inside it |
| `cop_stuck` | `test_normal_op.c`, 273: after `osdlp_buffer_release` COP "can resume operations" | the sender passes RT_WAIT, where the expiry is swallowed, leaves it by E6 without a timer, the last frame is lost, and nothing moves again |
| `cop_lockout` | `test_farm_window.c`, 332: frame 255 is "Inside negative window of FARM" | with V(R) = 0 a plain retransmission of frame 255 locks the FARM out |

The line quoted for `cop_lockout` is about V(R) = 1, where the code agrees and the test
asserts only that the frame is refused and V(R) stays 1. With V(R) = 0 frame 255 is
nearer still, and the width of the window, `window_width / 2`, does not depend on V(R)
(`osdlp_cop.c`, 45).

`cop_live` and `cop_stuck` check the same property: with a receive queue that
holds a window the sender never meets WAIT with frames behind it, and the
service always ends its debts; with a queue of one it does not.

Other behaviour the models show, some of it written into the exceptions of the properties:

- FOP: after V(S) has wrapped, a report of nothing new (N(R) = NN(R)) ends the
  service with ALERT_NNR, and before, any N(R) is taken for an acknowledgement
  (`BoundsExact`); a marked control frame is enqueued until the tx queue is full
  and the last refusal ends in an alert; a BD request sets ACCEPT_TX while an AD SDU
  waits; a retransmission that stops at an item sent as a bypass frame, and whose
  next frame the tx queue refuses, purges the service and signals ACCEPT_TX; NN(R) survives a service that ended with frames
  outstanding, so that the report that confirms the next one may be taken for E2
  and ignored, until the timer ends the initialisation; a retransmission clears
  accepted bypass frames from the tx queue; a window set below what is
  outstanding leaves acknowledged frames in the sent queue, with the timer off.
- Queues: `osdlp_tc_rx_queue_enqueue_now` overwrites the oldest SDU where the
  header speaks of the tail item.
- Reassembly: a first segment that meets an open loop is acknowledged and dropped
  with what was joined; a frame between the emptying of a full queue and
  `osdlp_buffer_release` closes the loop, so that the SDU in progress is lost
  though no frame is.
- TM: a packet stuffed into an idle frame is swallowed; a receive queue that
  refuses a packet costs the rest of the frame; a packet of `max_sdu_len` octets whose
  length falls on a frame border is dropped; near the end of a frame a packet no longer than the
  header is stuffed over; frames lost in between may join two packets into one, since no
  frame counter is compared; the version number is read as 1 unless it is 0.

## 4. Proofs

`FarmProofs` proves, for every `SeqMod`, `WindowWidth`, `RxCap` and set of
SDUs that satisfy the named assumptions of `CopTypes` and `Farm` (a modulus of
at least 2, a width from 2 to `SeqMod - 1`, a capacity of at least 1, a channel of six
bits, `NoSDU` not an SDU):

| Theorem | Property | Argument |
|---|---|---|
| `FarmTypeCorrect` | `FarmTypeOK` | inductive by itself: one case per event; `EnqueueNow` keeps the length bound |
| `WindowsExact` | `WindowExact` | follows from the type of V(R): `ModOnce` removes the `%`, `HalfWindow` bounds the half width, and the two conditions are compared with the distances case by case |
| `ClcwIsFaithful` | `ClcwTellsState` | `ClcwInv`: with the type it is inductive; E2 raises both flags with the state, and what lowers one leaves the state |
| `WaitHasRelease` | `WaitIsReleasable` | `WaitInv`: WAIT is entered only with a full queue, and the step that makes it less than full raises `owed` |
| `DiscardsAreReported` | `DiscardReported` | an action property, from `ClcwInv`: in WAIT and LOCKOUT the handlers rely on the flags set on entry |
| `AckMeansQueued` | `AckedIffQueued` | an action property: only E1 in OPEN moves V(R) |
| `ReportsAreHeard` | `ReportSurvives` | for `SeqMod <= 256`: the prepared fields have the widths for which `ClcwSurvives` holds |

`FopProofs` proves, for every modulus, queue capacity, set of windows and limits and both behaviours of `osdlp_mark_bc_as_rt`
that satisfy the assumptions named in `Fop` (a sent queue of at least 2, a tx
queue of at least 1, windows from 1 to `SeqMod - 1`, limits below `CntMod`), every
invariant of run `fop_safety`:

| Theorem | Property | Argument |
|---|---|---|
| `FopTypeCorrect` | `FopTypeOK` | from `SoundAlways` |
| `QueuesKept` | `QueuesMatchState` | from `SoundAlways` |
| `InitialisationsTimed` | `InitTimed` | inductive with `Sound`: the directives start the timer with the initialisation, an expiry that does not end it starts the timer again |
| `BoundsAreExact` | `BoundsExact` | follows from the type of V(S) and NN(R) alone |
| `SentRunKept` | `SentEndsAtVs` | inductive with `Sound` as `Steady` |
| `SdusLeaveAsData` | `SduUnderDataHeader` | inductive with `Sound` as `Labelled`: items and frames are packed right, and while an SDU waits the header is one of a data frame |

All but the bounds rest on one invariant, `Sound(f)`: the record type, the three capacities, and
`Matched(f)`. The type alone is not inductive: `RunStart` and `RunEnd` (which
items a retransmission sends) are defined only when the flags stand on adjacent
items, and the release of a control frame empties the sent queue only because
INIT_BC holds nothing else. `QueuesMatchState` alone is not inductive either: a
suspended service is resumed with the queues it kept, so `Matched` also says that
what is kept under SS = 1, 2, 3 is of type A. The lemmas follow the call
structure of the code: `RemoveAckedOpen`, `ResendSound` (a run that fits, a run
that is refused), `TransmitTypeAdSound`, `LookForFduSound`, then one lemma for
each handler, and `SoundStep` by the entry points. `LookForFduSound` says that
`osdlp_look_for_fdu` leaves an open service open in its state or purged in INIT, which
is what the handlers that set a state after the call (`FopE6`, `Retransmit`) need.
The counts and run ends that `Fop` writes with CHOOSE are shown to exist from the
well-foundedness of the naturals (`AckedCountDefined`, `RunDefined`,
`ClcwEventKnown` for the dispatch of a control word).

`Steady` says that the sent queue is a run of numbers before V(S) in every state
but INIT_BC (where it holds the control frame), suspended or not, and that the run ends
at V(S) as long as the queue has room. `SentEndsAtVs` itself is not inductive, since it
is silent in INIT. The clause about room is needed: `osdlp_transmit_type_ad` counts V(S)
up also when the full sent queue does not take the item. From a full queue a run can only be
restored by purging it, because a control word that reads the head of a full
queue is not taken (section 2): the theorem relies on that guard.

`FopStepProofs` proves every action property of run `fop_safety`, what a step of the FOP may
never do:

| Theorem | Property | Hypothesis |
|---|---|---|
| `UnackedAreKept` | `UnackedKept` | none |
| `ClearedComeAgain` | `ClearedComesAgain` | `SentCap <= SeqMod` |
| `TimerKeptOutsideRtWait` | `TimerLostOnlyInRtWait` | `SentCap <= SeqMod` |
| `FateIsSignalled` | `FateSignalled` | none |

The hypothesis says that the sent queue is no longer than there are numbers (10 of 256 in
the tests). Beyond it two outstanding items share a number, and which of them a frame in
the tx queue belongs to cannot be told. All four rest on `Regular`, which is `Sound`
with `Steady`. An event leaves an open service in INIT, purged by a refusal, or *following* what it was
(`Follows(f, g, k)`: the first k items are gone, the others stand in
the same order, and an item whose frame was queued is marked or queued still). k is the
number of acknowledged items; `AckedInRun` shows that it is no more than the distance on the
circle from the head to N(R), so that `osdlp_remove_acked_frames` stops where it should.
`KeepsTimer` is carried along the same call tree, and `Answered` says of every event what it
did to the waiting SDU and to the signal.

`Cop1Proofs` puts the two ends together, for every value of the constants (a finite
set of SDUs numbered from 1, natural bounds for control words and starts):

| Theorem | Property | Argument |
|---|---|---|
| `CopTypeCorrect` | `CopTypeOK` | from `CopSound`: `Sound`, `Labelled`, `FarmTypeOK` and the types of what lies between, inductive together |
| `CopIsAFop` | | `CopSpec => FopSpec`: each step is one of the FOP alone or leaves it as it is |
| `CopIsAFarm` | | `CopSpec => FarmSpec`: the frames in the tx queue are among `Uplinked`, by `Labelled` |

The last two justify the environments in which `Fop` and `Farm` are checked alone
(any control word of the type, any frame of `Uplinked`): all that is proved there
holds of the whole.

`Cop1ServiceProofs` and `Cop1RoomProofs` prove what the two ends achieve together:

| Theorem | Statement | Argument |
|---|---|---|
| `WindowAgreed` | `CopSpec /\ []ErrorEndsService => []NumbersAgree` | from `Agreed` |
| `ServiceImplemented` | `CopSpec /\ []ErrorEndsService => AdServiceKept` | each step is one of `AdService` or a stutter, by `Agreed` |
| `RoomEndsService` | `RoomForTwoWindows /\ CopSpec => []ErrorEndsService` | from `InRoom` |
| `RoomSuffices` | `RoomForTwoWindows /\ CopSpec => []TxBounded` | from `InRoom` |
| `RoomKeepsWindow` | `RoomForTwoWindows /\ CopSpec => []NumbersAgree` | the first with the third |
| `RoomKeepsService` | `RoomForTwoWindows /\ CopSpec => AdServiceKept` | the second with the third |

The circular numbers are unwound: behind each stands an integer, `Num(x)` its
remainder, and by `NumInjective` and `NumDistance` integers less than a turn apart are told
apart by their numbers (the second half of `Cop1Proofs`). A book `B` says which SDU stands
behind each integer. `Run(f, N, B)` says that the integers from N on stand behind NN(R), the
sent queue and V(S), and that the items carry the SDUs of the book; `Up` and `Down` put integers behind
the frames and the reports under way, none more than a window behind V(R), and the reports
do not fall back. `InService` adds the integer R of V(R) between them, and `Booked` that
what the book has before R has arrived, and from R on has not, in the order of
acceptance. Before a service is open, `AtStart`: at most the control frame is on its way,
and once a report says V(S) the receiver stands there and later reports say so too.
After it has ended, what it left in the tx queue may arrive still, in order
(`DeliverPast`). These together are `Agreed`, which is inductive with `CopSound`. The
lemmas follow the code again: every handler of an open service leaves it (`Left`) or goes
on (`Goes`: the same run, perhaps longer, and AD frames of it added to the tx queue); then one
lemma for each kind of step of the composition.

The hypothesis `[]ErrorEndsService` is needed. Where the code sets a state over the
alert of a refused frame, the sent queue is purged under an open service, and TLC finds
`NumbersAgree` violated: with a tx queue or sent queue shorter than the window, and even
with a tx queue of just the window when RT_WAIT is left by E6 (window 3, limit 3), since E6 does
not clear the tx queue.

`RoomForTwoWindows` discharges it: no limit of zero, and every window `w` of the set has
`w <= SentCap` and `2 * w <= TxCap`. `InRoom` adds to `Agreed` the invariant `Clean`: a service that
is open has not failed, nothing is in a place twice, and what is marked or waiting is not in
the tx queue (`Tidy`). So the data frames of the tx queue, and those a retransmission is
about to add, have distinct SDUs; by `Agreed` their integers lie within a window of V(R)
on either side; and a set of 2 * w integers has room in the queue. The control frame of the
start, which may be in front of them, is counted apart (`Lead`).

`FarmProofs` also proves that unpacking gives back what was packed, for every value of
the fields: `ClcwSurvives`, `SppHeaderSurvives`, `TcHeaderSurvives` (the number only
of AD frames; a frame that its length field can describe) and
`TmHeaderSurvivesButVersion`. Its lemmas take a field that is spread over two
octets apart (`HighLow`) and an octet that several fields share (`Read...`).

`SegmentsProofs` proves every safety property of run `segments`, for every segment length,
buffer of at least one segment, capacity, window, set of SDU lengths and number of SDUs and of
ends of service:

| Theorem | Property | Argument |
|---|---|---|
| `SegTypeCorrect` | `SegTypeOK` | from `Tracked` |
| `OnlyTornDamaged` | `WholeOrTorn` | from `Tracked` |
| `TearsCostOne` | `EachTearCostsOne` | from `Tracked`, by counting |

`Tracked` is inductive. It looks at what is under way as one row of segments: those of the
link, then the waiting one (`Row`), with the receiver's loop before and the SDU in progress
behind. Each segment is the one that `osdlp_tc_transmit` cuts at its place (`AllCut`), each
first segment is there once (`Once`), and a segment of an SDU that lost nothing is followed at
once by the next of it, in the row or as the next to be cut (`Unbroken`). Where a bypass
frame may overtake an AD frame, both SDUs are torn (`Ordered`); hence a
frame that is heard out of turn disturbs no SDU that lost nothing. An open loop belongs to an SDU whose first
segment has been heard, and, unless that SDU is torn, holds all its octets so far and waits for the
head of the row (`Joining`). `WholeOrTorn` follows when the last segment comes.

`EachTearCostsOne` is silent while an SDU is on its way, and so not inductive. `Paid` counts
instead the SDUs that are *left*, no longer ahead in the row and not in the loop: those lost
without having lost a frame (`Lost`) are no more than the torn ones (`Spent`). What makes
`Lost` grow makes `Spent` grow with it: a first segment that meets an open loop gives up that
loop too, whose SDU must be torn by `Joining`, and tearing an SDU that was counted
in `Lost` takes it out again.

A loss anywhere, one bypass frame or the AD frames after an end of service, is one notion, `Thinned`: the row is
what `Only` leaves of it, in order, and the SDUs of what is left out are torn. Each part of
`Tracked` is shown to survive a thinning, a call of `osdlp_tc_transmit` (`Longer`, from
the segments `SendFrom` appends) and a frame heard (`Hearing`, with one lemma for each
outcome of the switch over the sequence flag).

`TmProofs` proves every property of run `tm`, for every length of data field, frame header
and buffer, every capacity, set of packet lengths and number of packets and idle frames; of
a packet only that it is at least as long as what its length is read from, and that this
fits a frame:

| Theorem | Property | Argument |
|---|---|---|
| `RowIsTracked` | | the invariant `Streamed` is inductive |
| `TmTypeCorrect` | `TmTypeOK` | from `Streamed` |
| `CleanPacketsArrive` | `CleanArrive` | from `Streamed`: a packet that has passed is nowhere else |
| `PacketsInOrder` | `InOrderOnce` | from `Streamed` |
| `OnlyHurtDamaged` | `WholeOrHurt` | from `Streamed` |
| `LengthsInside` | `LengthsRead` | from `Streamed`, by the last frame (`LastSound`) |
| `PacketsSpared` | `StuffingSpares` | an action property, from `Streamed`: `OverlookedShort` |
| `OnlyUnmeasuredGivenUp` | `GivenUpUnmeasured` | an action property, from `Streamed` and what a handler leaves (`Handled`): `Excused` is all it may give up |

`Streamed` follows the octets in the order they are sent: the packets that arrived, the
octets in the receiver's loop, those of the frames of the tx queue (`Row`), and the octet
the sender goes on with (`Coming`). They are in that order (`Sorted`, `Ahead`), which gives
`InOrderOnce`. Each frame is `Shaped`: its octets are runs of packets, one beginning where
another ends, its pointer is what `osdlp_tm_transmit` computes from its first octet, and
idle octets come last. A packet that was not hurt goes on at once in the next frame that is
not idle, or with the sender (`Unbroken`). If it is the one in the receiver's loop, its
octets are all there, and it goes on at the head of the queue (`Joining`). And every packet
that was not hurt is somewhere on the row or has arrived (`Kept`).

None of the parts is inductive alone. `WholeOrHurt` is silent about the buffer,
`CleanArrive` about packets under way, and the shape of a frame is kept by the stuffing only
because the walk of `eval_residue_len` ends at the octet behind the last packet: `LastSound`
says that the last frame of the queue holds the length of each packet that begins in it, and
octets of one packet only if it ends inside one. Without stuffing a frame has octets of one
packet only (`Plain`), which is what the handlers without stuffing rely on.

The first part of the module is about the walk: `WalkOver` says for any set of positions
that a step keeps, and any step that does not fall back, that `Walk` is a path of the step
that ends where the step stays, after no more steps than the frame has octets; that the
recursive function exists is shown from the least element of a set of naturals. From it the
sender's walk (`ResidueLen`) ends behind the last packet of a shaped frame, and the
receiver's (`ExploredAre`) finds exactly the packets that the frame holds whole. The second
part takes the calls of the sender apart (`StuffedIn`, `Cuts` for the frames that follow,
`Rested` for what is given up), the third the receiver's handlers: each hands on the packet
it had in the loop, or loses it with the packet hurt (`JoinedTo`, `Joins`), and then what it
finds (`Found`). What it reads as a length out of octets that belong to no one packet may be
anything, and nothing depends on it: such octets hold one of a packet that was hurt.

The theorems are about the model's states: what is not taken there (section 2) is
not covered by them.

Only model-checked: liveness (`WaitEnds`, `InitEnds`, `OwedArriveOrEnd`,
`StartedArrives`), which is out of the prover's reach.

## 5. Not modelled

- The CRC as a function, and delimiting and validation of TC frames: a damaged
  or invalid frame is a lost frame in every module.
- The frame counters of TM (counted, never read) and the copy of the control word
  into a TM frame.
- Two virtual channels at once: they share `lock`, the uplink queue and one timer
  in the test only. In TM they share the master channel counter.
- The length of the timer (`osdlp_set_timer`), and the races inside the timer
  threads of the test.
- Calls of the library that overlap (the resumption of an SDU in
  `test_normal_op.c`, 106 and 176, is outside the mutex): a data race on the whole struct.
- Failures of callbacks other than a full queue.
- Behaviour after a read through a NULL head of a full sent queue.

## 6. What could follow

`Segments` as a refinement of one queue of whole SDUs, and the composition of
`Segments` with `Cop1` in place of its description of the service below.
