------------------------------- MODULE Headers -------------------------------
(***************************************************************************)
(* The headers as octets: the control word (src/osdlp_clcw.c), the TC and  *)
(* TM transfer frame headers (osdlp_tc_pack, osdlp_tm_pack and their       *)
(* counterparts) and the space packet header (src/osdlp_spp.c).  A shift   *)
(* is a multiplication or a division by a power of two, a mask a           *)
(* remainder, and the OR of fields that do not meet a sum.                 *)
(***************************************************************************)
EXTENDS Integers, Sequences

(* What a field of n values holds. *)
Bits(n) == 0 .. n - 1

(* (x & (n - 1)) times weight k, and the way back. *)
Put(x, n, k) == (x % n) * k
Read(octet, n, k) == (octet \div k) % n

-----------------------------------------------------------------------------
(* struct clcw_frame. *)

ClcwFields ==
    [ctrl_word_type : Bits(2), clcw_version_num : Bits(4), status_field : Bits(8),
     cop_in_effect : Bits(4), vcid : Bits(64), rsvd_spare1 : Bits(4), rf_avail : Bits(2),
     bit_lock : Bits(2), lockout : Bits(2), wait : Bits(2), rt : Bits(2),
     farm_b_counter : Bits(4), rsvd_spare2 : Bits(2), report_value : Bits(256)]

ClcwPack_RtShifted(c) ==
    <<Put(c.ctrl_word_type, 2, 128) + Put(c.clcw_version_num, 4, 32)
        + Put(c.status_field, 8, 4) + Put(c.cop_in_effect, 4, 1),
      Put(c.vcid, 64, 4) + Put(c.rsvd_spare1, 4, 1),
      Put(c.rf_avail, 2, 128) + Put(c.bit_lock, 2, 64) + Put(c.lockout, 2, 32)
        + Put(c.wait, 2, 16) + Put(c.rt, 2, 4) + Put(c.farm_b_counter, 4, 2)
        + Put(c.rsvd_spare2, 2, 1),
      Put(c.report_value, 256, 1)>>

ClcwPack(c) ==
    <<Put(c.ctrl_word_type, 2, 128) + Put(c.clcw_version_num, 4, 32)
        + Put(c.status_field, 8, 4) + Put(c.cop_in_effect, 4, 1),
      Put(c.vcid, 64, 4) + Put(c.rsvd_spare1, 4, 1),
      Put(c.rf_avail, 2, 128) + Put(c.bit_lock, 2, 64) + Put(c.lockout, 2, 32)
        + Put(c.wait, 2, 16) + Put(c.rt, 2, 8) + Put(c.farm_b_counter, 4, 2)
        + Put(c.rsvd_spare2, 2, 1),
      Put(c.report_value, 256, 1)>>

ClcwUnpack(o) ==
    [ctrl_word_type   |-> Read(o[1], 2, 128),
     clcw_version_num |-> Read(o[1], 4, 32),
     status_field     |-> Read(o[1], 8, 4),
     cop_in_effect    |-> Read(o[1], 4, 1),
     vcid             |-> Read(o[2], 64, 4),
     rsvd_spare1      |-> Read(o[2], 4, 1),
     rf_avail         |-> Read(o[3], 2, 128),
     bit_lock         |-> Read(o[3], 2, 64),
     lockout          |-> Read(o[3], 2, 32),
     wait             |-> Read(o[3], 2, 16),
     rt               |-> Read(o[3], 2, 8),
     farm_b_counter   |-> Read(o[3], 4, 2),
     rsvd_spare2      |-> Read(o[3], 2, 1),
     report_value     |-> o[4]]

-----------------------------------------------------------------------------
(* struct tc_primary_hdr and the segmentation header; V(S) is the number that is packed,
   and the length field holds the octets of the whole frame less one. *)

TcFields ==
    [version_num : Bits(4), bypass : Bits(2), ctrl_cmd : Bits(2), rsvd_spare : Bits(4),
     spacecraft_id : Bits(1024), vcid : Bits(64), vs : Bits(256),
     seq_flag : Bits(4), map_id : Bits(64), data_len : Bits(1024)]

TcPack(h, overhead) ==
    LET packet_len == overhead + h.data_len - 1
    IN  <<Put(h.version_num, 4, 64) + Put(h.bypass, 2, 32) + Put(h.ctrl_cmd, 2, 16)
            + Put(h.rsvd_spare, 4, 4) + Put(h.spacecraft_id \div 256, 4, 1),
          Put(h.spacecraft_id, 256, 1),
          Put(h.vcid, 64, 4) + Put(packet_len \div 256, 4, 1),
          Put(packet_len, 256, 1),
          IF h.bypass = 0 THEN Put(h.vs, 256, 1) ELSE 0,
          Put(h.seq_flag, 4, 64) + Put(h.map_id, 64, 1)>>

TcUnpack(o, overhead) ==
    [version_num   |-> Read(o[1], 4, 64),
     bypass        |-> Read(o[1], 2, 32),
     ctrl_cmd      |-> Read(o[1], 2, 16),
     rsvd_spare    |-> Read(o[1], 4, 4),
     spacecraft_id |-> Put(o[1], 4, 256) + o[2],
     vcid          |-> Read(o[3], 64, 4),
     vs            |-> o[5],
     seq_flag      |-> Read(o[6], 4, 64),
     map_id        |-> Read(o[6], 64, 1),
     data_len      |-> Put(o[3], 4, 256) + o[4] + 1 - overhead]

-----------------------------------------------------------------------------
(* struct tm_primary_hdr and the two fields of the secondary header's identification. *)

TmFields ==
    [version_num : Bits(4), spacecraft_id : Bits(1024), vcid : Bits(8), ocf : Bits(2),
     mc_frame_cnt : Bits(256), vc_frame_cnt : Bits(256), sec_hdr : Bits(2), sync : Bits(2),
     pkt_order : Bits(2), seg_len_id : Bits(4), first_hdr_ptr : Bits(2048),
     sec_version_num : Bits(4), length : Bits(64)]

TmPack(h) ==
    <<Put(h.version_num, 4, 64) + Put(h.spacecraft_id \div 16, 64, 1),
      Put(h.spacecraft_id, 16, 16) + Put(h.vcid, 8, 2) + Put(h.ocf, 2, 1),
      Put(h.mc_frame_cnt, 256, 1),
      Put(h.vc_frame_cnt, 256, 1),
      Put(h.sec_hdr, 2, 128) + Put(h.sync, 2, 64) + Put(h.pkt_order, 2, 32)
        + Put(h.seg_len_id, 4, 8) + Put(h.first_hdr_ptr \div 256, 8, 1),
      Put(h.first_hdr_ptr, 256, 1),
      Put(h.sec_version_num, 4, 64) + Put(h.length, 64, 1)>>

(* The version is read with && for &: any of its bits makes it 1. *)
TmUnpack(o) ==
    [version_num     |-> IF o[1] \div 64 # 0 THEN 1 ELSE 0,
     spacecraft_id   |-> Put(o[1], 64, 16) + Read(o[2], 16, 16),
     vcid            |-> Read(o[2], 8, 2),
     ocf             |-> Read(o[2], 2, 1),
     mc_frame_cnt    |-> o[3],
     vc_frame_cnt    |-> o[4],
     sec_hdr         |-> Read(o[5], 2, 128),
     sync            |-> Read(o[5], 2, 64),
     pkt_order       |-> Read(o[5], 2, 32),
     seg_len_id      |-> Read(o[5], 4, 8),
     first_hdr_ptr   |-> Put(o[5], 8, 256) + o[6],
     sec_version_num |-> Read(o[7], 4, 64),
     length          |-> Read(o[7], 64, 1)]

-----------------------------------------------------------------------------
(* struct spp_prim_hdr. *)

SppFields ==
    [version : Bits(8), is_tc : Bits(2), has_sec_hdr : Bits(2), apid : Bits(2048),
     seq_flag : Bits(4), seq_count : Bits(16384), packet_data_len : Bits(65536)]

SppPack(h) ==
    <<Put(h.version, 8, 32) + Put(h.is_tc, 2, 16) + Put(h.has_sec_hdr, 2, 8)
        + Put(h.apid \div 256, 8, 1),
      Put(h.apid, 256, 1),
      Put(h.seq_flag, 4, 64) + Put(h.seq_count \div 256, 64, 1),
      Put(h.seq_count, 256, 1),
      Put(h.packet_data_len \div 256, 256, 1),
      Put(h.packet_data_len, 256, 1)>>

SppUnpack(o) ==
    [version         |-> Read(o[1], 8, 32),
     is_tc           |-> Read(o[1], 2, 16),
     has_sec_hdr     |-> Read(o[1], 2, 8),
     apid            |-> Put(o[1], 8, 256) + o[2],
     seq_flag        |-> Read(o[3], 4, 64),
     seq_count       |-> Put(o[3], 64, 256) + o[4],
     packet_data_len |-> o[5] * 256 + o[6]]

(* The octets osdlp_spp_pack takes of the buffer and osdlp_spp_unpack asks of it, with and
   without data; -1 when the buffer is shorter. *)
SppLen(h, hasData, available) ==
    LET n == 6 + (IF hasData THEN h.packet_data_len + 1 ELSE 0)
    IN  IF available < n THEN -1 ELSE n
=============================================================================
