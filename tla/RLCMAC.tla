------------------------------- MODULE RLCMAC -------------------------------
(***************************************************************************)
(* The manual codec of RLC/MAC data blocks (library/RLCMAC_EncDec.cc): the *)
(* GPRS data blocks of CS-1..4 and the EGPRS data blocks of MCS-1..9, whose *)
(* data part starts in the middle of an octet.  A buffer is a sequence of   *)
(* octets; the read position of a TTCN_Buffer is the sequence that is left. *)
(* Control blocks go through the generated codec and are kept as they are.  *)
(***************************************************************************)
EXTENDS Integers, Sequences, FiniteSetsExt, SequencesExt, Bitwise

GprsSchemes  == {"CS_1", "CS_2", "CS_3", "CS_4"}
EgprsSchemes == {"MCS_1", "MCS_2", "MCS_3", "MCS_4", "MCS_5", "MCS_6", "MCS_7",
                 "MCS_8", "MCS_9"}

\* A dynamic test case error of the runtime: unbound values, a short stream.
Error == [kind |-> "error"]

Drop(s, n) == SubSeq(s, n + 1, Len(s))
Take(s, n) == SubSeq(s, 1, IF n < Len(s) THEN n ELSE Len(s))

(***************************************************************************)
(* Coding schemes.                                                         *)
(***************************************************************************)
\* The length on the wire says the coding scheme; unknown lengths are CS-1.
payload_len_2_coding_scheme(n) ==
  CASE n = 34 -> "CS_2"          [] n = 40 -> "CS_3"          [] n = 54 -> "CS_4"
    [] n = 27 -> "MCS_1"         [] n = 33 -> "MCS_2"         [] n = 42 -> "MCS_3"
    [] n = 49 -> "MCS_4"         [] n \in 60..61 -> "MCS_5"   [] n \in 78..79 -> "MCS_6"
    [] n \in 118..119 -> "MCS_7" [] n \in 142..143 -> "MCS_8" [] n \in 154..155 -> "MCS_9"
    [] OTHER -> "CS_1"

\* Octets of one RLC data block.
data_block_len ==
  [CS_1 |-> 22, CS_2 |-> 22, CS_3 |-> 22, CS_4 |-> 22, MCS_1 |-> 22, MCS_2 |-> 28,
   MCS_3 |-> 37, MCS_4 |-> 44, MCS_5 |-> 56, MCS_6 |-> 74, MCS_7 |-> 56,
   MCS_8 |-> 68, MCS_9 |-> 74]

\* Octets of a whole block, and the ones before its spare octet.
block_len ==
  [CS_1 |-> 23, CS_2 |-> 34, CS_3 |-> 40, CS_4 |-> 54, MCS_1 |-> 27, MCS_2 |-> 33,
   MCS_3 |-> 42, MCS_4 |-> 49, MCS_5 |-> 61, MCS_6 |-> 79, MCS_7 |-> 119,
   MCS_8 |-> 143, MCS_9 |-> 155]
block_len_no_spare_bits ==
  [block_len EXCEPT !["CS_2"] = 33, !["CS_3"] = 39, !["CS_4"] = 53]

HeaderType(mcs) == CASE mcs \in {"MCS_1", "MCS_2", "MCS_3", "MCS_4"} -> 3
                     [] mcs \in {"MCS_5", "MCS_6"} -> 2
                     [] OTHER -> 1

(***************************************************************************)
(* Bit fields: least significant bit first, as the packed C structures.    *)
(***************************************************************************)
Bits(v, w)   == [i \in 1..w |-> (v \div 2^(i - 1)) % 2]
Number(bits) == FoldRight(LAMBDA b, n : 2 * n + b, bits, 0)
Octets(bits) == [k \in 1..(Len(bits) \div 8) |-> Number(SubSeq(bits, 8*k - 7, 8*k))]
BitsOf(octets) == FlattenSeq([k \in DOMAIN octets |-> Bits(octets[k], 8)])

\* A bit string of TTCN-3, whose first bit the encoder takes as the highest.
bs2uint8(bs) == FoldLeft(LAMBDA n, b : 2 * n + b, 0, bs)

UlStart == << <<"r", 1>>, <<"si", 1>>, <<"cv", 4>>, <<"tfi_hi", 2>>, <<"tfi_lo", 3>>,
              <<"bsn1_hi", 5>>, <<"bsn1_lo", 6>> >>
DlStart == << <<"usf", 3>>, <<"es_p", 2>>, <<"rrbp", 2>>, <<"tfi_hi", 1>>,
              <<"tfi_lo", 4>>, <<"pr", 2>>, <<"bsn1_hi", 2>>, <<"bsn1_mid", 8>>,
              <<"bsn1_lo", 1>> >>

ul_header_egprs_1 == UlStart \o << <<"bsn2_hi", 2>>, <<"bsn2_lo", 8>>, <<"cps", 5>>,
                       <<"rsb", 1>>, <<"pi", 1>>, <<"zero", 7>>, <<"zero", 2>> >>
ul_header_egprs_2 == UlStart \o << <<"cps_hi", 2>>, <<"cps_lo", 1>>, <<"rsb", 1>>,
                       <<"pi", 1>>, <<"zero", 10>>, <<"zero", 3>> >>
ul_header_egprs_3 == UlStart \o << <<"cps_hi", 2>>, <<"cps_lo", 2>>, <<"spb", 2>>,
                       <<"rsb", 1>>, <<"pi", 1>>, <<"zero", 1>>, <<"zero", 1>> >>
dl_header_egprs_1 == DlStart \o << <<"bsn2_hi", 7>>, <<"bsn2_lo", 3>>, <<"cps", 5>> >>
dl_header_egprs_2 == DlStart \o << <<"cps", 3>>, <<"zero", 4>> >>
dl_header_egprs_3 == DlStart \o << <<"cps", 4>>, <<"spb", 2>>, <<"zero", 1>> >>

UlLayout(type) ==
  <<ul_header_egprs_1, ul_header_egprs_2, ul_header_egprs_3>>[type]
DlLayout(type) ==
  <<dl_header_egprs_1, dl_header_egprs_2, dl_header_egprs_3>>[type]

\* The structure as octets, and its field back from octets.
Packed(layout, s) ==
  Octets(FlattenSeq([i \in DOMAIN layout |->
           Bits(IF layout[i][1] = "zero" THEN 0 ELSE s[layout[i][1]], layout[i][2])]))
Unpacked(layout, octets) ==
  LET bits   == BitsOf(octets)
      Before(k) == FoldLeft(LAMBDA n, f : n + f[2], 0, SubSeq(layout, 1, k - 1))
      Place(name) == CHOOSE k \in DOMAIN layout : layout[k][1] = name
  IN  [name \in {layout[k][1] : k \in DOMAIN layout} |->
        LET k == Place(name)
        IN  Number(SubSeq(bits, Before(k) + 1, Before(k) + layout[k][2]))]

(***************************************************************************)
(* The data part of an EGPRS block, which is not aligned to octets.        *)
(***************************************************************************)
\* Bit offset of the first RLC data block behind the header.
data_block_offset(type, uplink) ==
  CASE type = 1 -> IF uplink THEN 46 ELSE 40
    [] type = 2 -> IF uplink THEN 37 ELSE 28
    [] type = 3 -> 31

At(src, k, junk) == IF k \in DOMAIN src THEN src[k] ELSE junk

\* length octets of src from offset on, moved to an octet boundary.
clone_aligned_buffer_lsbf(offset, length, src) ==
  LET hdr   == offset \div 8
      extra == offset % 8
  IN  IF extra = 0 THEN SubSeq(src, hdr + 1, hdr + length)
      ELSE [i \in 1..length |-> src[hdr + i] \div 2^extra
                                + ((src[hdr + i + 1] * 2^(8 - extra)) % 256)]

\* The data block with six spare bits before it, which are then cleared.
get_egprs_data_block(src, offset, bits) ==
  LET b == clone_aligned_buffer_lsbf(offset - 6, (6 + bits + 7) \div 8, src)
  IN  [b EXCEPT ![1] = @ \div 64]

\* With the octets of src merged in without regard to the header octet they share.
clone_unaligned_Mistake(offset, length, src, dst, junk) ==
  LET hdr == offset \div 8
  IN  Take(dst, hdr) \o [i \in 1..(length - hdr) |->
                           (IF i = 1 THEN 0 ELSE At(src, i - 1, junk) \div 2^(8 - (offset % 8)))
                           + ((At(src, i, junk) * 2^(offset % 8)) % 256)]

\* The header octets dst with the octets of src merged in from offset on.  The
\* loop runs over the length of both and reads octets behind src: junk.
clone_unaligned_buffer_lsbf(offset, length, src, dst, junk) ==
  LET hdr   == offset \div 8
      extra == offset % 8
      Src(k) == At(src, k, junk)
      moved == [i \in 1..(length - hdr) |->
                  (IF i = 1 THEN dst[hdr + 1] % 2^extra ELSE Src(i - 1) \div 2^(8 - extra))
                  + ((Src(i) * 2^extra) % 256)]
      first == dst[hdr + 1] | ((src[1] * 2^(8 - extra)) % 256)
      second == moved[2] | ((src[1] \div 2^extra) % 2^extra)
  IN  IF extra = 0 THEN [i \in 1..length |-> Src(hdr + i)]
      ELSE Take(dst, hdr) \o [moved EXCEPT ![1] = first, ![2] = second]

put_egprs_data_block(aligned, offset, dst, junk) ==
  clone_unaligned_buffer_lsbf(offset - 6, Len(dst) + Len(aligned), aligned, dst, junk)

\* Filled up to the length of the coding scheme; too much data is left as it is.
encode_trailing_padding_spb(data, cs) ==
  IF Len(data) > block_len_no_spare_bits[cs] THEN data
  ELSE data \o [i \in 1..(block_len_no_spare_bits[cs] - Len(data)) |-> 43]
            \o [i \in 1..(block_len[cs] - block_len_no_spare_bits[cs]) |-> 0]

(***************************************************************************)
(* LLC blocks: an optional length octet (li, -1 when it is omitted; the    *)
(* more and e bits) and a payload.                                         *)
(***************************************************************************)
Bare(payload) == [li |-> -1, more |-> 0, e |-> 0, payload |-> payload]
LiOctet(b)      == b.li * 4 + b.more * 2 + b.e
EgprsLiOctet(b) == b.li * 2 + b.e
LiFields(o)      == [li |-> o \div 4, more |-> (o \div 2) % 2, e |-> o % 2]
EgprsLiFields(o) == [li |-> o \div 2, more |-> 0, e |-> o % 2]

\* The length octets at the start of rest: up to the first with its e bit set.
Delimiters(rest) ==
  LET last == {k \in DOMAIN rest : rest[k] % 2 = 1}
  IN  IF last = {} THEN <<>> ELSE Take(rest, Min(last))

\* The blocks that the length octets lis cut out of rest; what is left is lost.
LlcBlocks(lis, rest) ==
  LET Cut(acc, l) == [rest |-> Drop(acc.rest, l.li),
                      out  |-> Append(acc.out, [li |-> l.li, more |-> l.more, e |-> l.e,
                                                payload |-> Take(acc.rest, l.li)])]
  IN  FoldLeft(Cut, [rest |-> rest, out |-> <<>>], lis).out

Each(Op(_), s) == [i \in DOMAIN s |-> Op(s[i])]

(***************************************************************************)
(* GPRS data blocks.  The three octets of the MAC header come from the     *)
(* generated codec: pt the payload type, w0 and w1 the fields this module  *)
(* does not touch, bsn, e and (uplink) the presence bits ti and pi in w1.  *)
(***************************************************************************)
MacOctets(h) == <<h.pt * 64 + h.w0, h.w1, h.bsn * 2 + h.e>>
MacHeader(s) == [pt |-> s[1] \div 64, w0 |-> s[1] % 64, w1 |-> s[2],
                 bsn |-> s[3] \div 2, e |-> s[3] % 2]
ti(h) == h.w1 % 2
pi(h) == (h.w1 \div 64) % 2
Presence(h, t, p) == [h EXCEPT !.w1 = @ - ti(h) - 64 * pi(h) + t + 64 * p]

\* An optional field is <<>> or what it holds.
Present(f) == IF f = <<>> THEN 0 ELSE 1

dec__RlcmacDlDataBlock(s) ==
  LET h    == MacHeader(s)
      rest == Drop(s, 3)
      lis  == Each(LiFields, Delimiters(rest))
      data == Drop(rest, Len(lis))
      \* A first length of 0 takes all: there was no room for the octet's PDU.
      cut  == IF lis[1].li = 0 THEN [lis EXCEPT ![1].li = Len(data)] ELSE lis
      got  == LlcBlocks(cut, data)
  IN  IF h.e = 0 /\ lis = <<>> THEN Error
      ELSE [kind |-> "data", cs |-> payload_len_2_coding_scheme(Len(s)), hdr |-> h,
            bound |-> TRUE,
            blocks |-> IF h.e = 1 THEN <<Bare(rest)>>
                       ELSE [got EXCEPT ![1].li = lis[1].li]]

dec__RlcmacUlDataBlock(s) ==
  LET h    == MacHeader(s)
      rest == Drop(s, 3)
      lis  == IF h.e = 1 THEN <<>> ELSE Each(LiFields, Delimiters(rest))
      tlli == Drop(rest, Len(lis))
      pfi  == Drop(tlli, 4 * ti(h))
      data == Drop(pfi, pi(h))
  IN  IF (h.e = 0 /\ lis = <<>>) \/ (pi(h) = 1 /\ pfi = <<>>) THEN Error
      ELSE [kind |-> "data", cs |-> payload_len_2_coding_scheme(Len(s)), hdr |-> h,
            tlli |-> Take(tlli, 4 * ti(h)), pfi |-> Take(pfi, pi(h)), bound |-> TRUE,
            blocks |-> IF h.e = 1 THEN <<Bare(data)>> ELSE LlcBlocks(lis, data)]

Payloads(v) == FlattenSeq([i \in DOMAIN v.blocks |-> v.blocks[i].payload])

\* The e bits of the length octets, as the downlink encoder rewrites them.
Chained(blocks) ==
  [i \in DOMAIN blocks |-> [blocks[i] EXCEPT !.e = IF i = Len(blocks) THEN 1 ELSE 0]]

\* An omitted length octet is bound, so that the downlink encoder writes it
\* whenever there is a block: its fields are not bound, an error.
enc__RlcmacDlDataBlock(v) ==
  LET h == [v.hdr EXCEPT !.e = IF v.bound THEN 0 ELSE 1]
  IN  IF \E i \in DOMAIN v.blocks : v.blocks[i].li = -1 THEN Error
      ELSE [kind |-> "octets",
            data |-> encode_trailing_padding_spb(
                       MacOctets(h) \o Each(LiOctet, Chained(v.blocks)) \o Payloads(v), v.cs)]

\* Length octets of the uplink: a zero one when blocks is unbound, none for the
\* blocks that omit it, and their e bits as the caller set them.
UlDelimiters(v, octets) == IF v.bound THEN octets ELSE <<1>>
UlDelimited(v) == SelectSeq(v.blocks, LAMBDA b : b.li # -1)
UlE(v) == IF v.bound /\ Len(v.blocks) = 1 /\ v.blocks[1].li = -1 THEN 1 ELSE 0

enc__RlcmacUlDataBlock(v) ==
  LET h == [Presence(v.hdr, Present(v.tlli), Present(v.pfi)) EXCEPT !.e = UlE(v)]
  IN  [kind |-> "octets",
       data |-> encode_trailing_padding_spb(
                  MacOctets(h)
                    \o (IF h.e = 0 THEN UlDelimiters(v, Each(LiOctet, UlDelimited(v))) ELSE <<>>)
                    \o v.tlli \o v.pfi \o Payloads(v), v.cs)]

(***************************************************************************)
(* EGPRS data blocks.                                                      *)
(***************************************************************************)
\* With the parts of the block sequence number joined in the wrong order.
dec__EgprsDlMacDataHeader_Mistake(s, type) ==
  LET f == Unpacked(DlLayout(type), Take(s, 5))
  IN  [header_type |-> type, tfi |-> f.tfi_lo * 2 + f.tfi_hi, rrbp |-> f.rrbp,
       esp |-> Bits(f.es_p, 2), usf |-> f.usf,
       bsn1 |-> f.bsn1_hi * 512 + f.bsn1_mid * 2 + f.bsn1_lo,
       bsn2_offset |-> IF type = 1 THEN f.bsn2_lo * 128 + f.bsn2_hi ELSE 0,
       pr |-> f.pr, cps |-> f.cps, spb |-> IF type = 3 THEN <<f.spb>> ELSE <<>>]

dec__EgprsDlMacDataHeader(s, type) ==
  LET f == Unpacked(DlLayout(type), Take(s, 5))
  IN  [header_type |-> type, tfi |-> f.tfi_lo * 2 + f.tfi_hi, rrbp |-> f.rrbp,
       esp |-> Bits(f.es_p, 2), usf |-> f.usf,
       bsn1 |-> f.bsn1_lo * 1024 + f.bsn1_mid * 4 + f.bsn1_hi,
       bsn2_offset |-> IF type = 1 THEN f.bsn2_lo * 128 + f.bsn2_hi ELSE 0,
       pr |-> f.pr, cps |-> f.cps, spb |-> IF type = 3 THEN <<f.spb>> ELSE <<>>]

\* Uplink headers are decoded for type 3 only: the others stay unbound.
dec__EgprsUlMacDataHeader(s, type) ==
  LET f == Unpacked(UlLayout(3), Take(s, 4))
  IN  IF type # 3 THEN Error
      ELSE [kind |-> "header", header_type |-> 3, tfi |-> f.tfi_lo * 4 + f.tfi_hi,
            countdown |-> f.cv, foi_si |-> Bits(f.si, 1), r_ri |-> Bits(f.r, 1),
            bsn1 |-> f.bsn1_lo * 32 + f.bsn1_hi, cps |-> f.cps_lo * 4 + f.cps_hi,
            pfi_ind |-> f.pi, rsb |-> Bits(f.rsb, 1), spb |-> Bits(f.spb, 2)]

\* The aligned data block of a stream; its first octet holds TI or FBI, and E.
Aligned(s, mcs, uplink) ==
  get_egprs_data_block(s, data_block_offset(HeaderType(mcs), uplink),
                       data_block_len[mcs] * 8 + 2)

\* Only the first data block of MCS-7..9 is decoded.  Without length octets the
\* payload is taken from the start of the stream, not of the aligned block.
dec__RlcmacDlEgprsDataBlock(s) ==
  LET mcs  == payload_len_2_coding_scheme(Len(s))
      b    == Aligned(s, mcs, FALSE)
      rest == Drop(b, 1)
      lis  == Each(EgprsLiFields, Delimiters(rest))
      e    == b[1] % 2
  IN  IF e = 0 /\ lis = <<>> THEN Error
      ELSE [kind |-> "data_egprs", mcs |-> mcs,
            hdr |-> dec__EgprsDlMacDataHeader(s, HeaderType(mcs)),
            fbi |-> (b[1] \div 2) % 2, e |-> e, bound |-> TRUE,
            blocks |-> IF e = 1 THEN <<Bare(Take(s, Len(rest)))>>
                       ELSE LlcBlocks(lis, Drop(rest, Len(lis)))]

dec__RlcmacUlEgprsDataBlock(s) ==
  LET mcs  == payload_len_2_coding_scheme(Len(s))
      h    == dec__EgprsUlMacDataHeader(s, HeaderType(mcs))
      b    == Aligned(s, mcs, TRUE)
      rest == Drop(b, 1)
      e    == b[1] % 2
      t    == (b[1] \div 2) % 2
      lis  == IF e = 1 THEN <<>> ELSE Each(EgprsLiFields, Delimiters(rest))
      tlli == Drop(rest, Len(lis))
      pfi  == Drop(tlli, 4 * t)
      data == Drop(pfi, h.pfi_ind)
  IN  IF h = Error THEN Error
      ELSE IF (e = 0 /\ lis = <<>>) \/ (h.pfi_ind = 1 /\ pfi = <<>>) THEN Error
      ELSE [kind |-> "data_egprs", mcs |-> mcs, hdr |-> h, tlli_ind |-> t, e |-> e,
            tlli |-> Take(tlli, 4 * t), pfi |-> Take(pfi, h.pfi_ind), bound |-> TRUE,
            blocks |-> IF e = 1 THEN <<Bare(data)>> ELSE LlcBlocks(lis, data)]

\* The encoders of the three downlink headers are stubs that write nothing, and
\* so is the octet of FBI and E: the length octets come first.
enc__RlcmacDlEgprsDataBlock(v) ==
  IF \E i \in DOMAIN v.blocks : v.blocks[i].li = -1 THEN Error
  ELSE [kind |-> "octets",
        data |-> encode_trailing_padding_spb(
                   Each(EgprsLiOctet, Chained(v.blocks)) \o Payloads(v), v.mcs)]

enc__RlcmacUlEgprsDataHeader(h, pfi_ind) ==
  Packed(UlLayout(h.header_type),
         [r |-> bs2uint8(h.r_ri), si |-> bs2uint8(h.foi_si), cv |-> h.countdown,
          tfi_hi |-> h.tfi, tfi_lo |-> h.tfi \div 4,
          bsn1_hi |-> h.bsn1, bsn1_lo |-> h.bsn1 \div 32,
          bsn2_hi |-> h.bsn2_offset, bsn2_lo |-> h.bsn2_offset \div 4,
          cps |-> h.cps, cps_hi |-> h.cps, cps_lo |-> h.cps \div 4,
          spb |-> bs2uint8(h.spb), rsb |-> bs2uint8(h.rsb), pi |-> pfi_ind])

\* The TLLI is written in reverse; the decoder does not reverse it.
enc__RlcmacUlEgprsDataBlock(v, junk) ==
  LET hdr     == enc__RlcmacUlEgprsDataHeader(v.hdr, Present(v.pfi))
      aligned == <<Present(v.tlli) * 2 + UlE(v)>>
                 \o (IF UlE(v) = 0
                     THEN UlDelimiters(v, Each(EgprsLiOctet, UlDelimited(v))) ELSE <<>>)
                 \o Reverse(v.tlli) \o v.pfi \o Payloads(v)
      merged  == put_egprs_data_block(aligned, data_block_offset(v.hdr.header_type, TRUE),
                                      hdr, junk)
  IN  [kind |-> "octets", data |-> encode_trailing_padding_spb(merged, v.mcs)]

(***************************************************************************)
(* The entry points: the length of a stream tells GPRS from EGPRS, the     *)
(* payload type (0: data) a GPRS data block from a control block.          *)
(***************************************************************************)
Control(s) == [kind |-> "ctrl", data |-> s]

dec__RlcmacDlBlock(s) ==
  IF payload_len_2_coding_scheme(Len(s)) \notin GprsSchemes
  THEN dec__RlcmacDlEgprsDataBlock(s)
  ELSE IF s[1] \div 64 = 0 THEN dec__RlcmacDlDataBlock(s) ELSE Control(s)

dec__RlcmacUlBlock(s) ==
  IF payload_len_2_coding_scheme(Len(s)) \notin GprsSchemes
  THEN dec__RlcmacUlEgprsDataBlock(s)
  ELSE IF s[1] \div 64 = 0 THEN dec__RlcmacUlDataBlock(s) ELSE Control(s)

enc__RlcmacDlBlock(v) ==
  CASE v.kind = "data_egprs" -> enc__RlcmacDlEgprsDataBlock(v)
    [] v.kind = "data" -> enc__RlcmacDlDataBlock(v)
    [] v.kind = "ctrl" -> [kind |-> "octets", data |-> v.data]

enc__RlcmacUlBlock(v, junk) ==
  CASE v.kind = "data_egprs" -> enc__RlcmacUlEgprsDataBlock(v, junk)
    [] v.kind = "data" -> enc__RlcmacUlDataBlock(v)
    [] v.kind = "ctrl" -> [kind |-> "octets", data |-> v.data]
=============================================================================
