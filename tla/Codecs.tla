------------------------------- MODULE Codecs -------------------------------
(***************************************************************************)
(* The manual codecs in use: a tester encodes a message, the link may      *)
(* damage it, the other side decodes it with the same library.  A message  *)
(* is a record [codec, v], where v is what that codec encodes.             *)
(***************************************************************************)
EXTENDS Integers, Sequences, SequencesExt, FiniteSets, FiniteSetsExt

CONSTANTS Messages,   \* the messages of the instance
          MaxFlips,   \* how many bits the link may flip in a checked message
          Junk        \* octets that may lie behind the end of a buffer

R == INSTANCE RLCMAC
I == INSTANCE IuUP
B == INSTANCE BSSGPHelper
M == INSTANCE MNCC

VARIABLES msg, stage, wire, got, damage, junk

vars == <<msg, stage, wire, got, damage, junk>>

None == <<>>

Init == /\ msg \in Messages
        /\ junk \in Junk
        /\ stage = "value" /\ wire = None /\ got = None /\ damage = {}

Encoded ==
  CASE msg.codec = "rlcmac_ul" -> R!enc__RlcmacUlBlock(msg.v, junk)
    [] msg.codec = "rlcmac_dl" -> R!enc__RlcmacDlBlock(msg.v)
    [] msg.codec \in {"rlcmac_ul_rx", "rlcmac_dl_rx"} -> [kind |-> "octets", data |-> msg.v]
    [] msg.codec = "iuup"  -> I!f__enc__IuUP__PDU(msg.v)
    [] msg.codec = "llc"   -> msg.v \o B!f__LLC__compute__fcs(msg.v)
    [] msg.codec = "bssgp" -> B!f__BSSGP__compact__len(msg.v, junk)
    [] msg.codec = "ns"    -> B!f__NS__compact__len(msg.v, junk)
    [] msg.codec = "mncc"  -> M!enc__MNCC__PDU(msg.v, M!set__MNCC__version(7, msg.version))

Encode == /\ stage = "value"
          /\ wire' = Encoded
          /\ stage' = "wire"
          /\ UNCHANGED <<msg, got, damage, junk>>

Checked == msg.codec \in {"iuup", "llc"}
Tlvs    == msg.codec \in {"bssgp", "ns"}

Flipped(o, k) == IF (o \div 2^k) % 2 = 1 THEN o - 2^k ELSE o + 2^k

\* Bits are flipped in the order of their positions, which damage holds, so that
\* no two undo each other.
Flip == /\ stage = "wire" /\ Checked /\ Cardinality(damage) < MaxFlips
        /\ \E i \in DOMAIN wire, k \in 0..7 :
             /\ \A p \in damage : p < 8 * i + k
             /\ wire' = [wire EXCEPT ![i] = Flipped(@, k)]
             /\ damage' = damage \cup {8 * i + k}
        /\ UNCHANGED <<msg, stage, got, junk>>

\* damage holds the length that is left.
Truncate == /\ stage = "wire" /\ Tlvs /\ damage = {}
            /\ \E n \in 1..(Len(wire) - 1) : /\ wire' = SubSeq(wire, 1, n)
                                             /\ damage' = {n}
            /\ UNCHANGED <<msg, stage, got, junk>>

Decoded ==
  CASE msg.codec \in {"rlcmac_ul", "rlcmac_ul_rx"} ->
         IF wire = R!Error THEN wire ELSE R!dec__RlcmacUlBlock(wire.data)
    [] msg.codec \in {"rlcmac_dl", "rlcmac_dl_rx"} ->
         IF wire = R!Error THEN wire ELSE R!dec__RlcmacDlBlock(wire.data)
    [] msg.codec = "iuup"  -> [header  |-> I!osmo_iuup_compute_header_crc(wire) = I!HeaderCrc(wire),
                               payload |-> I!osmo_iuup_compute_payload_crc(wire) = I!PayloadCrc(wire)]
    [] msg.codec = "llc"   -> LET n == Len(wire) - 3
                              IN  [fcs |-> B!f__LLC__compute__fcs(SubSeq(wire, 1, n))
                                            = SubSeq(wire, n + 1, n + 3)]
    [] msg.codec = "bssgp" -> B!f__BSSGP__expand__len(wire, junk)
    [] msg.codec = "ns"    -> B!f__NS__expand__len(wire, junk)
    [] msg.codec = "mncc"  -> IF wire = M!Error THEN wire
                              ELSE M!dec__MNCC__PDU(wire, M!set__MNCC__version(7, msg.version))

Decode == /\ stage = "wire"
          /\ got' = Decoded
          /\ stage' = "decoded"
          /\ UNCHANGED <<msg, wire, damage, junk>>

Next == Encode \/ Flip \/ Truncate \/ Decode
Spec == Init /\ [][Next]_vars

-----------------------------------------------------------------------------
\* Blocks that say themselves where they end: each has a length octet with the
\* length of its payload, and the e bit of the last one is set.  A first block
\* of the downlink may have length 0 when it fills the block.
Delimited(blocks) ==
  /\ blocks # <<>>
  /\ \A i \in DOMAIN blocks :
       /\ blocks[i].li = Len(blocks[i].payload)
       /\ blocks[i].e = IF i = Len(blocks) THEN 1 ELSE 0

Used(v, tlli, pfi) ==
  Len(tlli) + Len(pfi) + FoldLeft(LAMBDA n, b : n + Len(b.payload) + (IF b.li = -1 THEN 0 ELSE 1),
                                  0, v.blocks)

\* What the codec can carry: the blocks fit, and delimit themselves or fill the
\* block without a length octet (where no spare octet follows: CS-1, EGPRS).
Carried(v, room, tlli, pfi) ==
  LET used == Used(v, tlli, pfi)
  IN  \/ Delimited(v.blocks) /\ used <= room
      \/ Len(v.blocks) = 1 /\ v.blocks[1].li = -1 /\ used = room

\* The header as the decoder returns it, with the bits the encoder sets itself.
GprsUlSent(v) ==
  [v EXCEPT !.hdr = [R!Presence(v.hdr, R!Present(v.tlli), R!Present(v.pfi))
                       EXCEPT !.e = R!UlE(v)]]
EgprsUlSent(v) ==
  [kind |-> "data_egprs", mcs |-> v.mcs,
   hdr |-> [f \in DOMAIN v.hdr \ {"bsn2_offset"} |->
              IF f = "pfi_ind" THEN R!Present(v.pfi) ELSE v.hdr[f]],
   tlli_ind |-> 0, e |-> R!UlE(v), tlli |-> <<>>, pfi |-> v.pfi, bound |-> TRUE,
   blocks |-> v.blocks]

\* An uplink block comes out of the decoder as it went into the encoder, for
\* CS-1..4 and MCS-1..4: the length octets, the TLLI, the PFI and the payloads
\* are found again behind a header that does not end at an octet boundary,
\* whatever lies behind the buffers the two copy.  (enc__RlcmacUlBlock,
\* dec__RlcmacUlBlock, put_egprs_data_block, get_egprs_data_block.  MCS-5..9
\* and the TLLI of EGPRS blocks are left out: see the findings.)
RlcmacRoundTrip ==
  stage = "decoded" /\ msg.codec = "rlcmac_ul" =>
    LET v == msg.v
    IN  /\ v.kind = "data" /\ Carried(v, R!block_len_no_spare_bits[v.cs] - 3, v.tlli, v.pfi)
             /\ (R!UlE(v) = 1 => v.cs = "CS_1")
           => got = GprsUlSent(v)
        /\ v.kind = "data_egprs" /\ v.hdr.header_type = 3 /\ v.tlli = <<>>
             /\ Carried(v, R!data_block_len[v.mcs], <<>>, v.pfi)
             /\ v.hdr.spb[1] = v.hdr.spb[2]
           => got = EgprsUlSent(v)

\* A block received from the PCU in the layout of TS 44.060 (the message holds
\* what it means): the fields of the three downlink headers and of the data
\* part behind 40, 28 or 31 bits of header, and the GPRS length octets with the
\* zero first length.  (dec__RlcmacDlBlock, dec__EgprsDlMacDataHeader_type1..3,
\* get_egprs_data_block.)
RlcmacReceived ==
  stage = "decoded" /\ msg.codec = "rlcmac_dl_rx" => got = msg.meant

\* Up to MaxFlips flipped bits never go unnoticed: the header or the payload
\* checksum of an IuUP PDU of type 0 or 14, or the check sequence of an LLC
\* frame, differs; and without damage both agree.  (osmo_crc8gen_compute_bits,
\* osmo_crc16gen_compute_bits, f__enc__IuUP__PDU, f__LLC__compute__fcs.)
FlipsNoticed ==
  stage = "decoded" /\ Checked =>
    /\ msg.codec = "iuup" => ((got.header /\ got.payload) <=> damage = {})
    /\ msg.codec = "llc"  => (got.fcs <=> damage = {})

\* Expanding what was compacted gives the message back, and a message cut off
\* inside its only information element is an error, not a shorter message.
\* (f__BSSGP__compact__len, f__BSSGP__expand__len, f__NS__compact__len,
\* f__NS__expand__len.)
TlvsKept ==
  stage = "decoded" /\ Tlvs =>
    /\ damage = {} => got = msg.v
    /\ damage # {} /\ msg.tlvs = 1 /\ Len(wire) > msg.header => got = B!Error

\* What arrives of the optional field m of a signal v: a text is cut to its array, and
\* a bearer capability always has its data part.
Cut(s, size) == [s EXCEPT !.len = Min({@, size})]
Arrives(m, x) ==
  CASE m \in M!Numbers -> [x EXCEPT !.number = Cut(@, M!Size.number)]
    [] m = "useruser"  -> [x EXCEPT !.info = Cut(@, M!Size.info)]
    [] m \in {"facility", "ssversion", "sdp"} -> Cut(x, M!Size[m])
    [] m = "bearer_cap" /\ x.data = <<>> -> [x EXCEPT !.data = <<0>>]
    [] OTHER -> x

\* A text that fills its array in front of a member that is not zero.
RunsOn(v, m) ==
  \/ /\ m = "facility" /\ v.opt[m].len >= M!Size[m]
     /\ "cccap" \in DOMAIN v.opt /\ v.opt["cccap"].dtmf # 0
  \/ m = "ssversion" /\ v.opt[m].len >= M!Size[m] /\ v.clir_sup # 0
  \/ m = "imsi" /\ v.imsi.len >= M!Size[m] /\ v.lchan_type # 0

\* Keypad is written to signal.
Arrived(v) ==
  /\ [got EXCEPT !.opt = <<>>, !.imsi = <<>>] = [v EXCEPT !.opt = <<>>, !.imsi = <<>>]
  /\ got.imsi = IF RunsOn(v, "imsi") THEN M!Overrun ELSE Cut(v.imsi, M!Size.imsi)
  /\ DOMAIN got.opt = DOMAIN v.opt \cup {"sdp"}
  /\ "sdp" \notin DOMAIN v.opt => got.opt["sdp"] = M!Empty
  /\ \A m \in DOMAIN v.opt :
       \/ "keypad" \in DOMAIN v.opt /\ m \in {"keypad", "signal"}
       \/ got.opt[m] = IF RunsOn(v, m) THEN M!Overrun ELSE Arrives(m, v.opt[m])

\* Every optional field of an MNCC signal arrives by itself, in both versions of the
\* socket interface: none that was not sent appears, a text that is too long is
\* silently cut, and of the texts that fill their array, without a NUL, exactly
\* those are read on into another field that stand in front of a member that is not
\* zero (facility, ssversion, imsi; the sdp of an RTP message at the end of its buffer).
\* Only a diagnostic that is too long and a field the version does not have are
\* errors.  Of a data frame neither payload nor call reference ever arrives.
\* (enc__MNCC__PDU, dec__MNCC__PDU; for keypad and data frames see the findings.)
MnccRoundTrip ==
  stage = "decoded" /\ msg.codec = "mncc" =>
    LET v == msg.v
        refused == \/ "cause" \in DOMAIN v.opt /\ v.opt["cause"].diag.len > 32
                   \/ "gcr" \in DOMAIN v.opt /\ msg.version # 8
    IN  CASE v.kind = "signal" -> IF refused THEN got = M!Error ELSE Arrived(v)
          [] v.kind = "rtp" ->
               got = [v EXCEPT !.sdp = IF @ = <<>> THEN <<M!Empty>>
                                       ELSE IF @[1].len < M!Size.sdp THEN @ ELSE <<M!Overrun>>]
          [] v.kind = "data" -> \/ got \in {M!Error, M!Overread}
                                \/ got.data = <<>> /\ got.callref = 0
          [] v.kind = "hello" -> got = v

\* What f_rlcmac_ul_decenc, f_rlcmac_uld_decenc and f_rlcmac_dld_decenc assert
\* of the blocks of TC_selftest_rlcmac: encoding what a block decodes to gives
\* the block.
ReEncodesEqual ==
  /\ stage = "decoded" /\ msg.codec = "rlcmac_ul_rx" =>
       got # R!Error /\ R!enc__RlcmacUlBlock(got, junk).data = wire.data
  /\ stage = "decoded" /\ msg.codec = "rlcmac_dl_rx" =>
       got # R!Error /\ R!enc__RlcmacDlBlock(got).data = wire.data
=============================================================================
