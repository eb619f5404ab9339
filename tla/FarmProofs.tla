----------------------------- MODULE FarmProofs -----------------------------
(***************************************************************************)
(* Proofs about the headers the two ends exchange (Headers), for every     *)
(* value of their fields, and about Farm, for every modulus, window, queue *)
(* capacity and set of SDUs.                                               *)
(***************************************************************************)
EXTENDS Farm, SequenceTheorems, TLAPS

(***************************************************************************)
(* What one end packs the other unpacks.                                   *)
(***************************************************************************)

(* A field longer than an octet is its high part and its low octet. *)
LEMMA HighLow ==
    ASSUME NEW n \in Nat, NEW x \in Bits(n * 256)
    PROVE  \E hi \in Bits(n), lo \in Bits(256) :
              x = hi * 256 + lo /\ x \div 256 = hi /\ x % 256 = lo
<1>1. x \in Nat /\ x < n * 256
    BY DEF Bits
<1> DEFINE hi == x \div 256
<1> DEFINE lo == x % 256
<1>2. hi \in Nat /\ lo \in Bits(256)
    BY <1>1 DEF Bits
<1>3. hi < n
    BY <1>1
<1>4. hi * 256 + lo = x
  <2>1. hi = x \div 256 /\ lo = x % 256
      OBVIOUS
  <2> HIDE DEF hi, lo
  <2> QED BY <1>1, <1>2, <2>1, SMTT(30) DEF Bits
<1>5. hi \in Bits(n)
    BY <1>2, <1>3 DEF Bits
<1> QED BY <1>2, <1>4, <1>5

(* The same for a field whose lowest four bits stand apart (osdlp_tm_pack). *)
LEMMA HighLow16 ==
    ASSUME NEW x \in Bits(1024)
    PROVE  \E hi \in Bits(64), lo \in Bits(16) :
              x = hi * 16 + lo /\ x \div 16 = hi /\ x % 16 = lo
<1>1. x \in Nat /\ x < 1024
    BY DEF Bits
<1> DEFINE hi == x \div 16
<1> DEFINE lo == x % 16
<1>2. hi \in Nat /\ lo \in Bits(16)
    BY <1>1 DEF Bits
<1>3. hi < 64
    BY <1>1
<1>4. hi * 16 + lo = x
  <2>1. hi = x \div 16 /\ lo = x % 16
      OBVIOUS
  <2> HIDE DEF hi, lo
  <2> QED BY <1>1, <1>2, <2>1, SMTT(30) DEF Bits
<1>5. hi \in Bits(64)
    BY <1>2, <1>3 DEF Bits
<1> QED BY <1>2, <1>4, <1>5

(* The length field of a TC frame: within its ten bits, and back to the data's length. *)
LEMMA LengthField ==
    ASSUME NEW n \in Nat, NEW overhead \in Nat, overhead > 0, n + overhead <= 1024,
           NEW total, total = overhead + n - 1
    PROVE  total \in Bits(1024) /\ total + 1 - overhead = n
    BY DEF Bits

(* A field in the lowest bits of an octet is its own remainder. *)
LEMMA PutLow ==
    ASSUME NEW n \in Nat \ {0}, NEW x \in Int, NEW y \in Nat, x % n = y
    PROVE  Put(x, n, 1) = y
    BY DEF Put

(* The octets that share a longer field with others; here the first of a TC frame. *)
LEMMA ReadTcFirst ==
    ASSUME NEW a \in Bits(4), NEW b \in Bits(2), NEW c \in Bits(2), NEW d \in Bits(4),
           NEW e \in Bits(4), NEW o, o = a * 64 + b * 32 + c * 16 + d * 4 + e
    PROVE  /\ Read(o, 4, 64) = a /\ Read(o, 2, 32) = b /\ Read(o, 2, 16) = c
           /\ Read(o, 4, 4) = d /\ Put(o, 4, 256) = e * 256
    BY DEF Read, Put, Bits

(* The channel and the high part of the length. *)
LEMMA ReadTcThird ==
    ASSUME NEW a \in Bits(64), NEW b \in Bits(4), NEW o, o = a * 4 + b
    PROVE  Read(o, 64, 4) = a /\ Put(o, 4, 256) = b * 256
    BY DEF Read, Put, Bits

(* The version and the high part of the spacecraft, TM. *)
LEMMA ReadTmFirst ==
    ASSUME NEW a \in Bits(4), NEW b \in Bits(64), NEW o, o = a * 64 + b
    PROVE  /\ (o \div 64 # 0) <=> (a # 0)
           /\ Read(o, 4, 64) = a /\ Put(o, 64, 16) = b * 16 /\ Put(o, 64, 256) = b * 256
    BY DEF Read, Put, Bits

(* The low part of the spacecraft, the channel and the flag of the control word. *)
LEMMA ReadTmSecond ==
    ASSUME NEW a \in Bits(16), NEW b \in Bits(8), NEW c \in Bits(2), NEW o,
           o = a * 16 + b * 2 + c
    PROVE  Read(o, 16, 16) = a /\ Read(o, 8, 2) = b /\ Read(o, 2, 1) = c
    BY DEF Read, Bits

(* The data field status and the high part of the first header pointer. *)
LEMMA ReadTmFifth ==
    ASSUME NEW a \in Bits(2), NEW b \in Bits(2), NEW c \in Bits(2), NEW d \in Bits(4),
           NEW e \in Bits(8), NEW o, o = a * 128 + b * 64 + c * 32 + d * 8 + e
    PROVE  /\ Read(o, 2, 128) = a /\ Read(o, 2, 64) = b /\ Read(o, 2, 32) = c
           /\ Read(o, 4, 8) = d /\ Put(o, 8, 256) = e * 256
    BY DEF Read, Put, Bits

(* The first octet of a space packet. *)
LEMMA ReadSppFirst ==
    ASSUME NEW a \in Bits(8), NEW b \in Bits(2), NEW c \in Bits(2), NEW d \in Bits(8),
           NEW o, o = a * 32 + b * 16 + c * 8 + d
    PROVE  /\ Read(o, 8, 32) = a /\ Read(o, 2, 16) = b /\ Read(o, 2, 8) = c
           /\ Put(o, 8, 256) = d * 256
    BY DEF Read, Put, Bits

(***************************************************************************)
(* Every field of the control word survives osdlp_clcw_pack and            *)
(* osdlp_clcw_unpack: no field's mask or shift touches its neighbours.     *)
(***************************************************************************)
THEOREM ClcwSurvives == \A c \in ClcwFields : ClcwUnpack(ClcwPack(c)) = c
<1> SUFFICES ASSUME NEW c \in ClcwFields PROVE ClcwUnpack(ClcwPack(c)) = c
    OBVIOUS
<1> DEFINE o == ClcwPack(c)
<1>1. /\ c.ctrl_word_type \in Bits(2) /\ c.clcw_version_num \in Bits(4)
      /\ c.status_field \in Bits(8) /\ c.cop_in_effect \in Bits(4)
      /\ c.vcid \in Bits(64) /\ c.rsvd_spare1 \in Bits(4)
      /\ c.rf_avail \in Bits(2) /\ c.bit_lock \in Bits(2) /\ c.lockout \in Bits(2)
      /\ c.wait \in Bits(2) /\ c.rt \in Bits(2) /\ c.farm_b_counter \in Bits(4)
      /\ c.rsvd_spare2 \in Bits(2) /\ c.report_value \in Bits(256)
    BY DEF ClcwFields
<1>2. /\ Read(o[1], 2, 128) = c.ctrl_word_type
      /\ Read(o[1], 4, 32) = c.clcw_version_num
      /\ Read(o[1], 8, 4) = c.status_field
      /\ Read(o[1], 4, 1) = c.cop_in_effect
    BY <1>1 DEF ClcwPack, Read, Put, Bits
<1>3. Read(o[2], 64, 4) = c.vcid /\ Read(o[2], 4, 1) = c.rsvd_spare1
    BY <1>1 DEF ClcwPack, Read, Put, Bits
<1>4. /\ Read(o[3], 2, 128) = c.rf_avail
      /\ Read(o[3], 2, 64) = c.bit_lock
      /\ Read(o[3], 2, 32) = c.lockout
      /\ Read(o[3], 2, 16) = c.wait
      /\ Read(o[3], 2, 8) = c.rt
      /\ Read(o[3], 4, 2) = c.farm_b_counter
      /\ Read(o[3], 2, 1) = c.rsvd_spare2
    BY SMTT(30), <1>1 DEF ClcwPack, Read, Put, Bits
<1>5. o[4] = c.report_value
    BY <1>1 DEF ClcwPack, Put, Bits
<1> HIDE DEF o
<1>6. ClcwUnpack(o) =
         [ctrl_word_type |-> c.ctrl_word_type, clcw_version_num |-> c.clcw_version_num,
          status_field |-> c.status_field, cop_in_effect |-> c.cop_in_effect,
          vcid |-> c.vcid, rsvd_spare1 |-> c.rsvd_spare1, rf_avail |-> c.rf_avail,
          bit_lock |-> c.bit_lock, lockout |-> c.lockout, wait |-> c.wait, rt |-> c.rt,
          farm_b_counter |-> c.farm_b_counter, rsvd_spare2 |-> c.rsvd_spare2,
          report_value |-> c.report_value]
    BY <1>2, <1>3, <1>4, <1>5, Zenon DEF ClcwUnpack
<1>7. ClcwUnpack(o) = c
    BY <1>6 DEF ClcwFields
<1> QED BY <1>7 DEF o

(***************************************************************************)
(* Every field of a TC frame's header survives osdlp_tc_pack and           *)
(* osdlp_tc_unpack, and with them the length of the data, when the frame   *)
(* is no longer than 1024 octets; a bypass frame carries the number 0.     *)
(***************************************************************************)
THEOREM TcHeaderSurvives ==
    \A h \in TcFields, overhead \in 5 .. 8 :
        h.data_len + overhead <= 1024 =>
            TcUnpack(TcPack(h, overhead), overhead)
              = [h EXCEPT !.vs = IF h.bypass = 0 THEN h.vs ELSE 0]
<1> SUFFICES ASSUME NEW h \in TcFields, NEW overhead \in 5 .. 8,
                    h.data_len + overhead <= 1024
             PROVE  TcUnpack(TcPack(h, overhead), overhead)
                      = [h EXCEPT !.vs = IF h.bypass = 0 THEN h.vs ELSE 0]
    OBVIOUS
<1> DEFINE o == TcPack(h, overhead)
<1> DEFINE total == overhead + h.data_len - 1
<1>1. /\ h.version_num \in Bits(4) /\ h.bypass \in Bits(2) /\ h.ctrl_cmd \in Bits(2)
      /\ h.rsvd_spare \in Bits(4) /\ h.vcid \in Bits(64)
      /\ h.vs \in Bits(256) /\ h.seq_flag \in Bits(4) /\ h.map_id \in Bits(64)
    BY DEF TcFields
<1>0. h.spacecraft_id \in Bits(1024) /\ h.data_len \in Bits(1024)
    BY DEF TcFields
<1>2. /\ Read(o[1], 4, 64) = h.version_num
      /\ Read(o[1], 2, 32) = h.bypass
      /\ Read(o[1], 2, 16) = h.ctrl_cmd
      /\ Read(o[1], 4, 4) = h.rsvd_spare
      /\ Put(o[1], 4, 256) + o[2] = h.spacecraft_id
  <2>1. PICK hi \in Bits(4), lo \in Bits(256) :
            /\ h.spacecraft_id = hi * 256 + lo
            /\ h.spacecraft_id \div 256 = hi /\ h.spacecraft_id % 256 = lo
      BY <1>0, HighLow, 4 * 256 = 1024
  <2>2. o[1] = Put(h.version_num, 4, 64) + Put(h.bypass, 2, 32) + Put(h.ctrl_cmd, 2, 16)
                 + Put(h.rsvd_spare, 4, 4) + Put(hi, 4, 1)
      BY <2>1 DEF TcPack
  <2>3. o[2] = lo
    <3>1. o[2] = Put(h.spacecraft_id, 256, 1)
        BY DEF TcPack
    <3> QED BY <1>0, <2>1, <3>1, PutLow DEF Bits
  <2> HIDE DEF o
  <2>4. o[1] = h.version_num * 64 + h.bypass * 32 + h.ctrl_cmd * 16 + h.rsvd_spare * 4 + hi
      BY <1>1, <2>2 DEF Put, Bits
  <2>5. /\ Read(o[1], 4, 64) = h.version_num /\ Read(o[1], 2, 32) = h.bypass
        /\ Read(o[1], 2, 16) = h.ctrl_cmd /\ Read(o[1], 4, 4) = h.rsvd_spare
        /\ Put(o[1], 4, 256) = hi * 256
      BY <1>1, <2>4, ReadTcFirst
  <2> QED BY <2>1, <2>3, <2>5
<1>3. total \in Bits(1024) /\ total + 1 - overhead = h.data_len
  <2>1. h.data_len \in Nat
      BY <1>0, SMTT(30) DEF Bits
  <2>2. total = overhead + h.data_len - 1
      OBVIOUS
  <2> HIDE DEF total, o
  <2> QED BY <2>1, <2>2, LengthField
<1>4. Read(o[3], 64, 4) = h.vcid /\ Put(o[3], 4, 256) + o[4] = total
  <2> HIDE DEF total
  <2>1. PICK hi \in Bits(4), lo \in Bits(256) :
            total = hi * 256 + lo /\ total \div 256 = hi /\ total % 256 = lo
      BY <1>3, HighLow, 4 * 256 = 1024
  <2>2. /\ o[3] = Put(h.vcid, 64, 4) + Put(total \div 256, 4, 1)
        /\ o[4] = Put(total, 256, 1)
      BY DEF TcPack, total
  <2>3. o[3] = h.vcid * 4 + hi /\ o[4] = lo
      BY <1>1, <2>1, <2>2 DEF Put, Bits
  <2> HIDE DEF o
  <2>4. Read(o[3], 64, 4) = h.vcid /\ Put(o[3], 4, 256) = hi * 256
      BY <1>1, <2>3, ReadTcThird
  <2> QED BY <2>1, <2>3, <2>4
<1>5. Put(o[3], 4, 256) + o[4] + 1 - overhead = h.data_len
  <2> HIDE DEF o, total
  <2> QED BY <1>3, <1>4
<1>6. o[5] = IF h.bypass = 0 THEN h.vs ELSE 0
    BY <1>1 DEF TcPack, Put, Bits
<1>7. Read(o[6], 4, 64) = h.seq_flag /\ Read(o[6], 64, 1) = h.map_id
    BY <1>1 DEF TcPack, Read, Put, Bits
<1> HIDE DEF o, total
<1>8. TcUnpack(o, overhead) =
         [version_num |-> h.version_num, bypass |-> h.bypass, ctrl_cmd |-> h.ctrl_cmd,
          rsvd_spare |-> h.rsvd_spare, spacecraft_id |-> h.spacecraft_id, vcid |-> h.vcid,
          vs |-> IF h.bypass = 0 THEN h.vs ELSE 0, seq_flag |-> h.seq_flag,
          map_id |-> h.map_id, data_len |-> h.data_len]
    BY <1>2, <1>4, <1>5, <1>6, <1>7, Zenon DEF TcUnpack
<1>9. TcUnpack(o, overhead) = [h EXCEPT !.vs = IF h.bypass = 0 THEN h.vs ELSE 0]
    BY <1>8 DEF TcFields
<1> QED BY <1>9 DEF o

(***************************************************************************)
(* Every field of a TM frame's headers survives osdlp_tm_pack and          *)
(* osdlp_tm_unpack except the version number, which is read with a logical *)
(* and: versions 2 and 3 are taken for 1.                                  *)
(***************************************************************************)
THEOREM TmHeaderSurvivesButVersion ==
    \A h \in TmFields :
        TmUnpack(TmPack(h)) = [h EXCEPT !.version_num = IF h.version_num = 0 THEN 0 ELSE 1]
<1> SUFFICES ASSUME NEW h \in TmFields
             PROVE  TmUnpack(TmPack(h))
                      = [h EXCEPT !.version_num = IF h.version_num = 0 THEN 0 ELSE 1]
    OBVIOUS
<1> DEFINE o == TmPack(h)
<1>1. /\ h.version_num \in Bits(4) /\ h.vcid \in Bits(8)
      /\ h.ocf \in Bits(2) /\ h.mc_frame_cnt \in Bits(256) /\ h.vc_frame_cnt \in Bits(256)
      /\ h.sec_hdr \in Bits(2) /\ h.sync \in Bits(2) /\ h.pkt_order \in Bits(2)
      /\ h.seg_len_id \in Bits(4)
      /\ h.sec_version_num \in Bits(4) /\ h.length \in Bits(64)
    BY DEF TmFields
<1>0. h.spacecraft_id \in Bits(1024) /\ h.first_hdr_ptr \in Bits(2048)
    BY DEF TmFields
<1>2. /\ (IF o[1] \div 64 # 0 THEN 1 ELSE 0) = IF h.version_num = 0 THEN 0 ELSE 1
      /\ Put(o[1], 64, 16) + Read(o[2], 16, 16) = h.spacecraft_id
      /\ Read(o[2], 8, 2) = h.vcid
      /\ Read(o[2], 2, 1) = h.ocf
  <2>1. PICK hi \in Bits(64), lo \in Bits(16) :
            /\ h.spacecraft_id = hi * 16 + lo
            /\ h.spacecraft_id \div 16 = hi /\ h.spacecraft_id % 16 = lo
      BY <1>0, HighLow16
  <2>2. /\ o[1] = h.version_num * 64 + hi
        /\ o[2] = lo * 16 + h.vcid * 2 + h.ocf
      BY <1>1, <2>1 DEF TmPack, Put, Bits
  <2> HIDE DEF o
  <2>3. (o[1] \div 64 # 0 <=> h.version_num # 0) /\ Put(o[1], 64, 16) = hi * 16
      BY <1>1, <2>2, ReadTmFirst
  <2>4. Read(o[2], 16, 16) = lo /\ Read(o[2], 8, 2) = h.vcid /\ Read(o[2], 2, 1) = h.ocf
      BY <1>1, <2>2, ReadTmSecond
  <2> QED BY <2>1, <2>3, <2>4
<1>3. o[3] = h.mc_frame_cnt /\ o[4] = h.vc_frame_cnt
    BY <1>1 DEF TmPack, Put, Bits
<1>4. /\ Read(o[5], 2, 128) = h.sec_hdr
      /\ Read(o[5], 2, 64) = h.sync
      /\ Read(o[5], 2, 32) = h.pkt_order
      /\ Read(o[5], 4, 8) = h.seg_len_id
      /\ Put(o[5], 8, 256) + o[6] = h.first_hdr_ptr
  <2>1. PICK hi \in Bits(8), lo \in Bits(256) :
            /\ h.first_hdr_ptr = hi * 256 + lo
            /\ h.first_hdr_ptr \div 256 = hi /\ h.first_hdr_ptr % 256 = lo
      BY <1>0, HighLow, 8 * 256 = 2048
  <2>2. /\ o[5] = h.sec_hdr * 128 + h.sync * 64 + h.pkt_order * 32 + h.seg_len_id * 8 + hi
        /\ o[6] = lo
      BY <1>1, <2>1 DEF TmPack, Put, Bits
  <2> HIDE DEF o
  <2>3. /\ Read(o[5], 2, 128) = h.sec_hdr /\ Read(o[5], 2, 64) = h.sync
        /\ Read(o[5], 2, 32) = h.pkt_order /\ Read(o[5], 4, 8) = h.seg_len_id
        /\ Put(o[5], 8, 256) = hi * 256
      BY <1>1, <2>2, ReadTmFifth
  <2> QED BY <2>1, <2>2, <2>3
<1>5. Read(o[7], 4, 64) = h.sec_version_num /\ Read(o[7], 64, 1) = h.length
    BY <1>1 DEF TmPack, Read, Put, Bits
<1> HIDE DEF o
<1>6. TmUnpack(o) =
         [version_num |-> IF h.version_num = 0 THEN 0 ELSE 1,
          spacecraft_id |-> h.spacecraft_id, vcid |-> h.vcid, ocf |-> h.ocf,
          mc_frame_cnt |-> h.mc_frame_cnt, vc_frame_cnt |-> h.vc_frame_cnt,
          sec_hdr |-> h.sec_hdr, sync |-> h.sync, pkt_order |-> h.pkt_order,
          seg_len_id |-> h.seg_len_id, first_hdr_ptr |-> h.first_hdr_ptr,
          sec_version_num |-> h.sec_version_num, length |-> h.length]
    BY <1>2, <1>3, <1>4, <1>5, Zenon DEF TmUnpack
<1>7. TmUnpack(o) = [h EXCEPT !.version_num = IF h.version_num = 0 THEN 0 ELSE 1]
    BY <1>6 DEF TmFields
<1> QED BY <1>7 DEF o

(***************************************************************************)
(* Every field of the space packet header survives osdlp_spp_pack and      *)
(* osdlp_spp_unpack.                                                       *)
(***************************************************************************)
THEOREM SppHeaderSurvives == \A h \in SppFields : SppUnpack(SppPack(h)) = h
<1> SUFFICES ASSUME NEW h \in SppFields PROVE SppUnpack(SppPack(h)) = h
    OBVIOUS
<1> DEFINE o == SppPack(h)
<1>1. /\ h.version \in Bits(8) /\ h.is_tc \in Bits(2) /\ h.has_sec_hdr \in Bits(2)
      /\ h.seq_flag \in Bits(4)
    BY DEF SppFields
<1>0. /\ h.apid \in Bits(2048) /\ h.seq_count \in Bits(16384)
      /\ h.packet_data_len \in Bits(65536)
    BY DEF SppFields
<1>2. /\ Read(o[1], 8, 32) = h.version
      /\ Read(o[1], 2, 16) = h.is_tc
      /\ Read(o[1], 2, 8) = h.has_sec_hdr
      /\ Put(o[1], 8, 256) + o[2] = h.apid
  <2>1. PICK hi \in Bits(8), lo \in Bits(256) :
            /\ h.apid = hi * 256 + lo
            /\ h.apid \div 256 = hi /\ h.apid % 256 = lo
      BY <1>0, HighLow, 8 * 256 = 2048
  <2>2. o[1] = h.version * 32 + h.is_tc * 16 + h.has_sec_hdr * 8 + hi /\ o[2] = lo
      BY <1>1, <2>1 DEF SppPack, Put, Bits
  <2> HIDE DEF o
  <2>3. /\ Read(o[1], 8, 32) = h.version /\ Read(o[1], 2, 16) = h.is_tc
        /\ Read(o[1], 2, 8) = h.has_sec_hdr /\ Put(o[1], 8, 256) = hi * 256
      BY <1>1, <2>2, ReadSppFirst
  <2> QED BY <2>1, <2>2, <2>3
<1>3. Read(o[3], 4, 64) = h.seq_flag /\ Put(o[3], 64, 256) + o[4] = h.seq_count
  <2>1. PICK hi \in Bits(64), lo \in Bits(256) :
            /\ h.seq_count = hi * 256 + lo
            /\ h.seq_count \div 256 = hi /\ h.seq_count % 256 = lo
      BY <1>0, HighLow, 64 * 256 = 16384
  <2>2. o[3] = h.seq_flag * 64 + hi /\ o[4] = lo
      BY <1>1, <2>1 DEF SppPack, Put, Bits
  <2> HIDE DEF o
  <2>3. Read(o[3], 4, 64) = h.seq_flag /\ Put(o[3], 64, 256) = hi * 256
      BY <1>1, <2>2, ReadTmFirst
  <2> QED BY <2>1, <2>2, <2>3
<1>4. o[5] * 256 + o[6] = h.packet_data_len
  <2>1. PICK hi \in Bits(256), lo \in Bits(256) :
            /\ h.packet_data_len = hi * 256 + lo
            /\ h.packet_data_len \div 256 = hi /\ h.packet_data_len % 256 = lo
      BY <1>0, HighLow, 256 * 256 = 65536
  <2>2. o[5] = hi /\ o[6] = lo
      BY <1>1, <2>1 DEF SppPack, Put, Bits
  <2> HIDE DEF o
  <2> QED BY <2>1, <2>2
<1> HIDE DEF o
<1>5. SppUnpack(o) =
         [version |-> h.version, is_tc |-> h.is_tc, has_sec_hdr |-> h.has_sec_hdr,
          apid |-> h.apid, seq_flag |-> h.seq_flag, seq_count |-> h.seq_count,
          packet_data_len |-> h.packet_data_len]
    BY <1>2, <1>3, <1>4, Zenon DEF SppUnpack
<1>6. SppUnpack(o) = h
    BY <1>5 DEF SppFields
<1> QED BY <1>6 DEF o

(***************************************************************************)
(* Receiving a frame, by the handlers that may run.                        *)
(***************************************************************************)
LEMMA ReceiveCases ==
    ASSUME NEW fr, Receive(fr)
    PROVE  \/ fr.code = "AD" /\ FarmE1(fr)
           \/ fr.code = "AD" /\ FarmE2(fr)
           \/ fr.code = "AD" /\ FarmE3(fr)
           \/ fr.code = "AD" /\ FarmE4(fr)
           \/ fr.code = "AD" /\ FarmE5(fr)
           \/ fr.code = "BD" /\ FarmE6(fr)
           \/ fr.code = "UNLOCK" /\ FarmE7
           \/ fr.code = "SETVR" /\ FarmE8(fr)
  BY DEF Receive

(***************************************************************************)
(* The frames a FARM hears carry numbers, and SDUs where they carry data.  *)
(***************************************************************************)
LEMMA UplinkedFields ==
    ASSUME NEW fr \in Uplinked
    PROVE  /\ fr.num \in SeqNum
           /\ fr.code \in {"AD", "BD"} => fr.sdu \in SDU
  BY SeqModAssumption DEF Uplinked, SeqNum

LEMMA IncInSeqNum == \A x \in SeqNum : Inc(x) \in SeqNum
  BY SeqModAssumption DEF Inc, SeqNum

(***************************************************************************)
(* Counting a bypass frame keeps the other fields.                         *)
(***************************************************************************)
LEMMA CountBFields ==
    ASSUME NEW f \in FarmConfig
    PROVE  CountB(f) \in FarmConfig
  BY DEF CountB, FarmConfig

(***************************************************************************)
(* osdlp_tc_rx_queue_enqueue_now never makes the queue longer than it is   *)
(* large, and never shortens it.                                           *)
(***************************************************************************)
LEMMA EnqueueNowBounded ==
    ASSUME NEW q \in Seq(SDU), Len(q) <= RxCap, NEW d \in SDU
    PROVE  /\ EnqueueNow(q, d) \in Seq(SDU)
           /\ Len(EnqueueNow(q, d)) <= RxCap
           /\ Len(q) = RxCap => Len(EnqueueNow(q, d)) = RxCap
  BY RxCapAssumption DEF EnqueueNow

-----------------------------------------------------------------------------
(***************************************************************************)
(* Type correctness, and with it the capacity of the receive queue.        *)
(***************************************************************************)
LEMMA FarmTypeInit == FarmInit => FarmTypeOK
<1> SUFFICES ASSUME FarmInit PROVE FarmTypeOK
  OBVIOUS
<1>1. 0 \in SeqNum
  BY SeqModAssumption DEF SeqNum
<1>2. rx \in Seq(SDU) /\ Len(rx) <= RxCap
  BY RxCapAssumption DEF FarmInit
<1>3. farm \in FarmConfig
  BY <1>1 DEF FarmInit, FarmConfig
<1> QED BY <1>2, <1>3 DEF FarmInit, FarmTypeOK, Verdicts

LEMMA FarmTypeReceive ==
    ASSUME FarmTypeOK, NEW fr \in Uplinked, Receive(fr)
    PROVE  FarmTypeOK'
<1> USE DEF FarmTypeOK, Verdicts, Receive
<1>1. CASE fr.code = "AD" /\ FarmE1(fr)
  <2>1. fr.sdu \in SDU
    BY <1>1, UplinkedFields
  <2>2. rx' \in Seq(SDU) /\ Len(rx') <= RxCap
    BY <1>1, <2>1, RxCapAssumption DEF FarmE1, RxFull
  <2>3. Inc(farm.vr) \in SeqNum
    BY IncInSeqNum DEF FarmConfig
  <2>4. farm' \in FarmConfig
    BY <1>1, <2>3 DEF FarmE1, FarmConfig
  <2> QED BY <1>1, <2>2, <2>4 DEF FarmE1
<1>2. CASE fr.code = "AD" /\ FarmE2(fr)
  <2>1. farm' \in FarmConfig
    BY <1>2 DEF FarmE2, FarmConfig
  <2> QED BY <1>2, <2>1 DEF FarmE2
<1>3. CASE fr.code = "AD" /\ FarmE3(fr)
  <2>1. farm' \in FarmConfig
    BY <1>3 DEF FarmE3, FarmConfig
  <2> QED BY <1>3, <2>1 DEF FarmE3
<1>4. CASE fr.code = "AD" /\ FarmE4(fr)
  BY <1>4 DEF FarmE4
<1>5. CASE fr.code = "AD" /\ FarmE5(fr)
  <2>1. farm' \in FarmConfig
    BY <1>5 DEF FarmE5, FarmConfig
  <2> QED BY <1>5, <2>1 DEF FarmE5
<1>6. CASE fr.code = "BD" /\ FarmE6(fr)
  <2>1. fr.sdu \in SDU
    BY <1>6, UplinkedFields
  <2>2. rx' \in Seq(SDU) /\ Len(rx') <= RxCap
    BY <1>6, <2>1, EnqueueNowBounded DEF FarmE6
  <2>3. farm' \in FarmConfig
    BY <1>6, CountBFields DEF FarmE6
  <2> QED BY <1>6, <2>2, <2>3 DEF FarmE6
<1>7. CASE fr.code = "UNLOCK" /\ FarmE7
  <2>1. CountB(farm) \in FarmConfig /\ farm.state \in {"OPEN", "WAIT", "LOCKOUT"}
    BY CountBFields DEF FarmConfig
  <2>2. \A g \in FarmConfig :
          LET f == [g EXCEPT !.retransmit = FALSE]
          IN  /\ f \in FarmConfig
              /\ [f EXCEPT !.wait = FALSE, !.state = "OPEN"] \in FarmConfig
              /\ [f EXCEPT !.wait = FALSE, !.lockout = FALSE, !.state = "OPEN"] \in FarmConfig
    BY DEF FarmConfig
  <2>3. farm' \in FarmConfig
    BY <1>7, <2>1, <2>2 DEF FarmE7
  <2> QED BY <1>7, <2>3 DEF FarmE7
<1>8. CASE fr.code = "SETVR" /\ FarmE8(fr)
  <2>1. /\ CountB(farm) \in FarmConfig /\ farm.state \in {"OPEN", "WAIT", "LOCKOUT"}
        /\ fr.num \in SeqNum
    BY CountBFields, UplinkedFields DEF FarmConfig
  <2>2. \A g \in FarmConfig, n \in SeqNum :
          LET f == [g EXCEPT !.vr = n, !.retransmit = FALSE]
          IN  /\ f \in FarmConfig
              /\ [f EXCEPT !.wait = FALSE, !.state = "OPEN"] \in FarmConfig
    BY DEF FarmConfig
  <2>3. farm' \in FarmConfig
    BY <1>8, <2>1, <2>2 DEF FarmE8
  <2> QED BY <1>8, <2>3 DEF FarmE8
<1> QED BY ReceiveCases, <1>1, <1>2, <1>3, <1>4, <1>5, <1>6, <1>7, <1>8

LEMMA FarmTypeStep == FarmTypeOK /\ [FarmNext]_farmVars => FarmTypeOK'
<1> SUFFICES ASSUME FarmTypeOK, [FarmNext]_farmVars PROVE FarmTypeOK'
  OBVIOUS
<1>1. ASSUME NEW fr \in Uplinked, Receive(fr) PROVE FarmTypeOK'
  BY <1>1, FarmTypeReceive
<1>2. ASSUME NEW n \in 1 .. RxCap, Consume(n) PROVE FarmTypeOK'
  <2>1. rx' \in Seq(SDU) /\ Len(rx') <= RxCap
    <3>1. \A i \in n + 1 .. Len(rx) : rx[i] \in SDU
      BY <1>2 DEF FarmTypeOK
    <3>2. rx' = SubSeq(rx, n + 1, Len(rx)) /\ n \in 1 .. Len(rx) /\ Len(rx) <= RxCap
      BY <1>2 DEF Consume, FarmTypeOK
    <3>3. n + 1 \in Int /\ Len(rx) \in Int
      BY <3>2
    <3> QED BY <3>1, <3>2, <3>3, SubSeqProperties, RxCapAssumption
  <2>2. owed' \in BOOLEAN
    BY <1>2 DEF Consume, FarmTypeOK, RxFull
  <2> QED BY <1>2, <2>1, <2>2 DEF Consume, FarmTypeOK
<1>3. CASE BufferRelease
  BY <1>3 DEF BufferRelease, ResetWait, FarmTypeOK, FarmConfig
<1>4. CASE UNCHANGED farmVars
  BY <1>4 DEF farmVars, FarmTypeOK
<1> QED BY <1>1, <1>2, <1>3, <1>4 DEF FarmNext

(***************************************************************************)
(* In every behaviour of a FARM its variables keep their types and the     *)
(* receive queue its capacity.                                             *)
(***************************************************************************)
THEOREM FarmTypeCorrect == FarmSpec => []FarmTypeOK
  BY FarmTypeInit, FarmTypeStep, PTL DEF FarmSpec

-----------------------------------------------------------------------------
(***************************************************************************)
(* The windows.  All sums and differences the code reduces stay within one *)
(* turn of the circle.                                                     *)
(***************************************************************************)
LEMMA ModOnce ==
    ASSUME NEW x \in Int, -SeqMod < x, x < 2 * SeqMod
    PROVE  x % SeqMod = IF x < 0 THEN x + SeqMod ELSE IF x < SeqMod THEN x ELSE x - SeqMod
  BY SeqModAssumption, SMTT(30)

LEMMA HalfWindow == PW \in 1 .. SeqMod - 1 /\ NW = PW /\ 2 * PW <= SeqMod - 1
  BY SeqModAssumption, WindowAssumption DEF PW, NW

(***************************************************************************)
(* condition_farm_e3 and condition_farm_e4 without a remainder.            *)
(***************************************************************************)
LEMMA ConditionE3Cases ==
    ASSUME NEW ns \in SeqNum, NEW vr \in SeqNum
    PROVE  ConditionE3(ns, vr) <=>
             \/ ns > vr /\ ns <= vr + PW - 1
             \/ ns < vr /\ vr + PW - 1 >= SeqMod /\ ns < vr + PW - 1 - SeqMod
<1>1. vr + PW - 1 \in Int /\ -SeqMod < vr + PW - 1 /\ vr + PW - 1 < 2 * SeqMod
  BY HalfWindow, SeqModAssumption DEF SeqNum
<1> DEFINE m == (vr + PW - 1) % SeqMod
<1>2. m = IF vr + PW - 1 < SeqMod THEN vr + PW - 1 ELSE vr + PW - 1 - SeqMod
  BY <1>1, ModOnce, HalfWindow, SeqModAssumption DEF SeqNum
<1> HIDE DEF m
<1>3. ConditionE3(ns, vr) <=>
        \/ ns > vr /\ ns <= vr + PW - 1
        \/ vr > m /\ ns < vr /\ ns < m
  BY DEF ConditionE3, m
<1> QED BY <1>2, <1>3, HalfWindow, SeqModAssumption DEF SeqNum

LEMMA ConditionE4Cases ==
    ASSUME NEW ns \in SeqNum, NEW vr \in SeqNum
    PROVE  ConditionE4(ns, vr) <=>
             \/ ns < vr /\ ns >= vr - PW
             \/ ns + PW < SeqMod /\ ns + PW >= vr /\ ns < vr - 1
             \/ ns + PW >= SeqMod /\ ns + PW - SeqMod >= vr /\ ns - SeqMod < vr - 1
<1>1. ns + PW \in Int /\ -SeqMod < ns + PW /\ ns + PW < 2 * SeqMod
  BY HalfWindow, SeqModAssumption DEF SeqNum
<1> DEFINE m == (ns + PW) % SeqMod
<1>2. m = IF ns + PW < SeqMod THEN ns + PW ELSE ns + PW - SeqMod
  BY <1>1, ModOnce, HalfWindow, SeqModAssumption DEF SeqNum
<1> HIDE DEF m
<1>3. ConditionE4(ns, vr) <=>
        \/ ns < vr /\ ns >= vr - PW
        \/ m >= vr /\ m < vr + PW - 1
  BY HalfWindow DEF ConditionE4, m
<1> QED BY <1>2, <1>3, HalfWindow, SeqModAssumption DEF SeqNum

(***************************************************************************)
(* The two distances from V(R), without a remainder.                       *)
(***************************************************************************)
LEMMA Distances ==
    ASSUME FarmTypeOK, NEW ns \in SeqNum \ {farm.vr}
    PROVE  /\ Ahead(ns) = IF ns < farm.vr THEN ns - farm.vr + SeqMod ELSE ns - farm.vr
           /\ Behind(ns) = IF farm.vr < ns THEN farm.vr - ns + SeqMod ELSE farm.vr - ns
<1> DEFINE v == farm.vr
<1>1. v \in SeqNum /\ ns \in SeqNum /\ ns # v
  BY DEF FarmTypeOK, FarmConfig
<1>2. Ahead(ns) = IF ns < v THEN ns - v + SeqMod ELSE ns - v
  BY <1>1, ModOnce, SeqModAssumption DEF Ahead, SeqNum
<1>3. Behind(ns) = IF v < ns THEN v - ns + SeqMod ELSE v - ns
  BY <1>1, ModOnce, SeqModAssumption DEF Behind, SeqNum
<1> QED BY <1>2, <1>3

LEMMA WindowExactState == FarmTypeOK => WindowExact
<1> SUFFICES ASSUME FarmTypeOK, NEW ns \in SeqNum \ {farm.vr}
             PROVE  /\ ConditionE3(ns, farm.vr) <=>
                          Ahead(ns) < PW /\ ~(ns < farm.vr /\ Ahead(ns) = PW - 1)
                    /\ ConditionE4(ns, farm.vr) /\ ~ConditionE3(ns, farm.vr) <=>
                          Behind(ns) <= NW /\ ~(farm.vr = 0 /\ ns = SeqMod - 1)
  BY DEF WindowExact
<1> DEFINE v == farm.vr
<1>1. v \in SeqNum /\ ns \in SeqNum /\ ns # v
  BY DEF FarmTypeOK, FarmConfig
<1>2. Ahead(ns) = IF ns < v THEN ns - v + SeqMod ELSE ns - v
  BY Distances
<1>3. Behind(ns) = IF v < ns THEN v - ns + SeqMod ELSE v - ns
  BY Distances
<1> HIDE DEF v
<1>4. ConditionE3(ns, v) <=>
        Ahead(ns) < PW /\ ~(ns < v /\ Ahead(ns) = PW - 1)
  BY <1>1, <1>2, ConditionE3Cases, HalfWindow, SeqModAssumption DEF SeqNum
<1>5. ConditionE4(ns, v) /\ ~ConditionE3(ns, v) <=>
        Behind(ns) <= PW /\ ~(v = 0 /\ ns = SeqMod - 1)
  BY <1>1, <1>3, ConditionE3Cases, ConditionE4Cases, HalfWindow, SeqModAssumption DEF SeqNum
<1> QED BY <1>4, <1>5, HalfWindow DEF v

(***************************************************************************)
(* For every modulus and window width the comparisons of the code are the  *)
(* two windows, but for the two numbers WindowExact names.                 *)
(***************************************************************************)
THEOREM WindowsExact == FarmSpec => []WindowExact
  BY FarmTypeCorrect, WindowExactState, PTL

-----------------------------------------------------------------------------
(***************************************************************************)
(* The control word.  ClcwTellsState is inductive with the types: every    *)
(* handler that changes the state sets the flags the new state owes.       *)
(***************************************************************************)
ClcwInv == FarmTypeOK /\ ClcwTellsState

LEMMA ClcwReceive ==
    ASSUME ClcwInv, NEW fr \in Uplinked, Receive(fr)
    PROVE  ClcwTellsState'
<1> USE DEF ClcwInv, ClcwTellsState, ClcwReport
<1>0. farm \in FarmConfig
  BY DEF FarmTypeOK
<1>1. CASE fr.code = "AD" /\ FarmE1(fr)
  BY <1>0, <1>1 DEF FarmE1, FarmConfig
<1>2. CASE fr.code = "AD" /\ FarmE2(fr)
  BY <1>0, <1>2 DEF FarmE2, FarmConfig
<1>3. CASE fr.code = "AD" /\ FarmE3(fr)
  BY <1>0, <1>3 DEF FarmE3, FarmConfig
<1>4. CASE fr.code = "AD" /\ FarmE4(fr)
  BY <1>4 DEF FarmE4
<1>5. CASE fr.code = "AD" /\ FarmE5(fr)
  BY <1>0, <1>5 DEF FarmE5, FarmConfig
<1>6. CASE fr.code = "BD" /\ FarmE6(fr)
  BY <1>0, <1>6 DEF FarmE6, CountB, FarmConfig
<1>7. CASE fr.code = "UNLOCK" /\ FarmE7
  BY <1>0, <1>7 DEF FarmE7, CountB, FarmConfig
<1>8. CASE fr.code = "SETVR" /\ FarmE8(fr)
  BY <1>0, <1>8 DEF FarmE8, CountB, FarmConfig
<1> QED BY ReceiveCases, <1>1, <1>2, <1>3, <1>4, <1>5, <1>6, <1>7, <1>8

LEMMA ClcwStep == ClcwInv /\ [FarmNext]_farmVars => ClcwInv'
<1> SUFFICES ASSUME ClcwInv, [FarmNext]_farmVars PROVE ClcwTellsState'
  BY FarmTypeStep DEF ClcwInv
<1>1. ASSUME NEW fr \in Uplinked, Receive(fr) PROVE ClcwTellsState'
  BY <1>1, ClcwReceive
<1>2. ASSUME NEW n \in 1 .. RxCap, Consume(n) PROVE ClcwTellsState'
  BY <1>2 DEF Consume, ClcwInv, ClcwTellsState, ClcwReport
<1>3. CASE BufferRelease
  BY <1>3 DEF BufferRelease, ResetWait, ClcwInv, FarmTypeOK, FarmConfig, ClcwTellsState, ClcwReport
<1>4. CASE UNCHANGED farmVars
  BY <1>4 DEF farmVars, ClcwInv, ClcwTellsState, ClcwReport
<1> QED BY <1>1, <1>2, <1>3, <1>4 DEF FarmNext

LEMMA ClcwInvariant == FarmSpec => []ClcwInv
<1>1. FarmInit => ClcwInv
  BY FarmTypeInit DEF FarmInit, ClcwInv, ClcwTellsState, ClcwReport
<1> QED BY <1>1, ClcwStep, PTL DEF FarmSpec

(***************************************************************************)
(* The control word tells the sender the state of the FARM.                *)
(***************************************************************************)
THEOREM ClcwIsFaithful == FarmSpec => []ClcwTellsState
<1>1. ClcwInv => ClcwTellsState
  BY DEF ClcwInv
<1> QED BY ClcwInvariant, <1>1, PTL

(***************************************************************************)
(* The sender reads what the FARM reports, for every modulus an octet can  *)
(* hold: the prepared fields have the widths for which ClcwSurvives.       *)
(***************************************************************************)
THEOREM ReportsAreHeard == SeqMod <= 256 => (FarmSpec => []ReportSurvives)
<1> SUFFICES ASSUME SeqMod <= 256 PROVE FarmSpec => []ReportSurvives
  OBVIOUS
<1>1. ASSUME FarmTypeOK PROVE ReportSurvives
  <2> SUFFICES ASSUME NEW u \in Unset
               PROVE  HeardReport(ClcwPack(PreparedClcw(u))) = ClcwReport
    BY DEF ReportSurvives
  <2>1. /\ farm.lockout \in BOOLEAN /\ farm.wait \in BOOLEAN /\ farm.retransmit \in BOOLEAN
        /\ farm.vr \in SeqNum /\ farm.farmb \in 0 .. 3
    BY <1>1 DEF FarmTypeOK, FarmConfig
  <2>2. farm.vr \in Bits(256) /\ farm.farmb \in Bits(4)
    BY <2>1, SeqModAssumption DEF SeqNum, Bits
  <2>3. /\ Bit(farm.lockout) \in Bits(2) /\ Bit(farm.wait) \in Bits(2)
        /\ Bit(farm.retransmit) \in Bits(2)
        /\ 0 \in Bits(2) /\ 0 \in Bits(4) /\ 1 \in Bits(4)
    BY DEF Bit, Bits
  <2>4. PreparedClcw(u) \in ClcwFields
    BY <2>2, <2>3, VcidAssumption DEF PreparedClcw, ClcwFields, Unset
  <2>5. ClcwUnpack(ClcwPack(PreparedClcw(u))) = PreparedClcw(u)
    BY <2>4, ClcwSurvives
  <2>6. HeardReport(ClcwPack(PreparedClcw(u)))
           = [lockout |-> Bit(farm.lockout) = 1, wait |-> Bit(farm.wait) = 1,
              rt |-> Bit(farm.retransmit) = 1, nr |-> farm.vr]
    BY <2>5 DEF HeardReport, PreparedClcw
  <2>7. \A b \in BOOLEAN : (Bit(b) = 1) = b
    BY DEF Bit
  <2> QED BY <2>1, <2>6, <2>7 DEF ClcwReport
<1> QED BY <1>1, FarmTypeCorrect, PTL

-----------------------------------------------------------------------------
(***************************************************************************)
(* The wait and its release.  A handler that enters or stays in WAIT finds *)
(* the queue full, a bypass frame never shortens the queue, and the        *)
(* application that shortens a full queue owes the release.                *)
(***************************************************************************)
WaitInv == FarmTypeOK /\ WaitIsReleasable

LEMMA WaitReceive ==
    ASSUME WaitInv, NEW fr \in Uplinked, Receive(fr)
    PROVE  WaitIsReleasable'
<1> USE DEF WaitInv, WaitIsReleasable
<1>0. farm \in FarmConfig /\ rx \in Seq(SDU) /\ Len(rx) <= RxCap /\ owed' = owed
  BY DEF FarmTypeOK, Receive
<1>1. CASE fr.code = "AD" /\ FarmE1(fr)
  BY <1>0, <1>1 DEF FarmE1, FarmConfig, RxFull
<1>2. CASE fr.code = "AD" /\ FarmE2(fr)
  BY <1>0, <1>2 DEF FarmE2, FarmConfig, RxFull
<1>3. CASE fr.code = "AD" /\ FarmE3(fr)
  BY <1>0, <1>3 DEF FarmE3, FarmConfig, RxFull
<1>4. CASE fr.code = "AD" /\ FarmE4(fr)
  BY <1>0, <1>4 DEF FarmE4, RxFull
<1>5. CASE fr.code = "AD" /\ FarmE5(fr)
  BY <1>0, <1>5 DEF FarmE5, FarmConfig, RxFull
<1>6. CASE fr.code = "BD" /\ FarmE6(fr)
  <2>1. farm'.state = farm.state
    BY <1>0, <1>6 DEF FarmE6, CountB, FarmConfig
  <2>2. RxFull => RxFull'
    BY <1>0, <1>6, UplinkedFields, EnqueueNowBounded DEF FarmE6, RxFull
  <2> QED BY <1>0, <2>1, <2>2
<1>7. CASE fr.code = "UNLOCK" /\ FarmE7
  BY <1>0, <1>7 DEF FarmE7, CountB, FarmConfig, RxFull
<1>8. CASE fr.code = "SETVR" /\ FarmE8(fr)
  BY <1>0, <1>8 DEF FarmE8, CountB, FarmConfig, RxFull
<1> QED BY ReceiveCases, <1>1, <1>2, <1>3, <1>4, <1>5, <1>6, <1>7, <1>8

LEMMA WaitStep == WaitInv /\ [FarmNext]_farmVars => WaitInv'
<1> SUFFICES ASSUME WaitInv, [FarmNext]_farmVars PROVE WaitIsReleasable'
  BY FarmTypeStep DEF WaitInv
<1>1. ASSUME NEW fr \in Uplinked, Receive(fr) PROVE WaitIsReleasable'
  BY <1>1, WaitReceive
<1>2. ASSUME NEW n \in 1 .. RxCap, Consume(n) PROVE WaitIsReleasable'
  BY <1>2 DEF Consume, WaitInv, WaitIsReleasable
<1>3. CASE BufferRelease
  BY <1>3 DEF BufferRelease, ResetWait, WaitInv, FarmTypeOK, FarmConfig, WaitIsReleasable
<1>4. CASE UNCHANGED farmVars
  BY <1>4 DEF farmVars, WaitInv, WaitIsReleasable, RxFull
<1> QED BY <1>1, <1>2, <1>3, <1>4 DEF FarmNext

(***************************************************************************)
(* A FARM in WAIT always has a full queue or a release that is due.        *)
(***************************************************************************)
THEOREM WaitHasRelease == FarmSpec => []WaitIsReleasable
<1>1. FarmInit => WaitInv
  BY FarmTypeInit DEF FarmInit, WaitInv, WaitIsReleasable
<1>2. WaitInv => WaitIsReleasable
  BY DEF WaitInv
<1> QED BY <1>1, <1>2, WaitStep, PTL DEF FarmSpec

-----------------------------------------------------------------------------
(***************************************************************************)
(* What a step may do to an AD frame.                                      *)
(***************************************************************************)
LEMMA DiscardReportedStep ==
    ASSUME ClcwInv, NEW fr \in AdFrames, Receive(fr), Ahead(fr.num) < PW, verdict' # "ENQ"
    PROVE  ClcwReport'.rt \/ ClcwReport'.lockout
<1> USE DEF ClcwInv, ClcwTellsState, ClcwReport
<1>0. /\ farm \in FarmConfig /\ fr.num \in SeqNum /\ fr.code = "AD"
      /\ farm.vr \in SeqNum
  BY DEF FarmTypeOK, AdFrames, FarmConfig
<1>1. CASE FarmE1(fr)
  BY <1>0, <1>1 DEF FarmE1, FarmConfig
<1>2. CASE FarmE2(fr)
  BY <1>0, <1>2 DEF FarmE2, FarmConfig
<1>3. CASE FarmE3(fr)
  BY <1>0, <1>3 DEF FarmE3, FarmConfig
<1>4. CASE FarmE4(fr)
  <2>1. Behind(fr.num) <= NW /\ fr.num # farm.vr
    BY <1>0, <1>4, WindowExactState DEF FarmE4, WindowExact
  <2>2. /\ Ahead(fr.num) = IF fr.num < farm.vr THEN fr.num - farm.vr + SeqMod
                           ELSE fr.num - farm.vr
        /\ Behind(fr.num) = IF farm.vr < fr.num THEN farm.vr - fr.num + SeqMod
                            ELSE farm.vr - fr.num
    BY <1>0, <2>1, Distances
  <2> QED BY <1>0, <2>1, <2>2, HalfWindow, SeqModAssumption DEF SeqNum
<1>5. CASE FarmE5(fr)
  BY <1>0, <1>5 DEF FarmE5, FarmConfig
<1> QED BY <1>0, <1>1, <1>2, <1>3, <1>4, <1>5 DEF Receive

(***************************************************************************)
(* No AD frame of the positive window is dropped without a flag.           *)
(***************************************************************************)
THEOREM DiscardsAreReported == FarmSpec => DiscardReported
<1>1. ClcwInv /\ [FarmNext]_farmVars =>
        [\A fr \in AdFrames :
            Receive(fr) /\ Ahead(fr.num) < PW /\ verdict' # "ENQ"
              => ClcwReport'.rt \/ ClcwReport'.lockout]_farmVars
  BY DiscardReportedStep
<1> QED BY <1>1, ClcwInvariant, PTL DEF FarmSpec, DiscardReported

(***************************************************************************)
(* V(R) moves, by one, exactly when the SDU enters the queue.              *)
(***************************************************************************)
THEOREM AckMeansQueued == FarmSpec => AckedIffQueued
<1>1. ASSUME FarmTypeOK, NEW fr \in AdFrames, Receive(fr)
      PROVE  \/ farm'.vr = Inc(farm.vr) /\ rx' = Append(rx, fr.sdu) /\ fr.num = farm.vr
             \/ farm'.vr = farm.vr /\ rx' = rx
  <2>1. farm \in FarmConfig /\ fr.code = "AD"
    BY <1>1 DEF FarmTypeOK, AdFrames
  <2>2. FarmE1(fr) \/ FarmE2(fr) \/ FarmE3(fr) \/ FarmE4(fr) \/ FarmE5(fr)
    BY <1>1, <2>1 DEF Receive
  <2> QED BY <2>1, <2>2 DEF FarmE1, FarmE2, FarmE3, FarmE4, FarmE5, FarmConfig
<1>2. FarmTypeOK /\ [FarmNext]_farmVars =>
        [\A fr \in AdFrames :
            Receive(fr) =>
              \/ farm'.vr = Inc(farm.vr) /\ rx' = Append(rx, fr.sdu) /\ fr.num = farm.vr
              \/ farm'.vr = farm.vr /\ rx' = rx]_farmVars
  BY <1>1
<1> QED BY <1>2, FarmTypeCorrect, PTL DEF FarmSpec, AckedIffQueued
=============================================================================
