----------------------------- MODULE BSSGPHelper -----------------------------
(***************************************************************************)
(* library/BSSGP_Helper.cc: NS and BSSGP information elements between the  *)
(* variable-length coding of the wire (TvLV: one or two length octets) and *)
(* the fixed one of the generated codec (TL16V), and the checksum of LLC   *)
(* frames.  A message is a sequence of octets.                             *)
(***************************************************************************)
EXTENDS Integers, Sequences, SequencesExt, Bitwise

\* A dynamic test case error.
Error == <<-1>>
Then(prefix, out) == IF out = Error THEN Error ELSE prefix \o out

\* n octets of in behind ofs.  Nothing stops the code at the end of in: what it
\* reads there is junk.
Octets(in, ofs, n, junk) ==
  [i \in 1..n |-> IF ofs + i \in DOMAIN in THEN in[ofs + i] ELSE junk]

\* The length check counts the octets from the start of in, not from ofs.
RECURSIVE ExpandFrom(_, _, _)
ExpandFrom(in, ofs, junk) ==
  LET remain   == Len(in) - ofs
      short    == in[ofs + 2] >= 128
      tl       == IF short THEN 2 ELSE 3
      data_len == IF short THEN in[ofs + 2] % 128 ELSE in[ofs + 2] * 256 + in[ofs + 3]
  IN  IF remain <= 0 THEN <<>>
      ELSE IF remain < 2 THEN Error
      ELSE IF remain < tl THEN Error
      ELSE IF Len(in) < tl + data_len THEN Error
      ELSE Then(<<in[ofs + 1], data_len \div 256, data_len % 256>>
                  \o Octets(in, ofs + tl, data_len, junk),
                ExpandFrom(in, ofs + data_len + tl, junk))
expand_tlv_part(in, junk) == ExpandFrom(in, 0, junk)

RECURSIVE CompactFrom(_, _, _)
CompactFrom(in, ofs, junk) ==
  LET remain   == Len(in) - ofs
      data_len == in[ofs + 2] * 256 + in[ofs + 3]
      length   == IF data_len <= 127 THEN <<128 + data_len>>
                  ELSE <<data_len \div 256, data_len % 256>>
  IN  IF remain <= 0 THEN <<>>
      ELSE IF remain < 3 THEN Error
      ELSE IF Len(in) < 3 + data_len THEN Error
      ELSE Then(<<in[ofs + 1]>> \o length \o Octets(in, ofs + 3, data_len, junk),
                CompactFrom(in, ofs + data_len + 3, junk))
compact_tlv_part(in, junk) == CompactFrom(in, 0, junk)

\* Without the fixed header of DL-UNITDATA and UL-UNITDATA.
BssgpHeader_Mistake(in) == 1

\* The octets of a message before its information elements.
BssgpHeader(in) == IF in[1] \in {0, 1} THEN 8 ELSE 1

\* A header that is kept, and the elements after it once they are converted
Split(in, hdr, converted) ==
  IF Len(in) < hdr THEN Error ELSE Then(SubSeq(in, 1, hdr), converted)
Elements(in, hdr) == SubSeq(in, hdr + 1, Len(in))

f__BSSGP__expand__len(in, junk) ==
  LET hdr == BssgpHeader(in) IN Split(in, hdr, expand_tlv_part(Elements(in, hdr), junk))

f__BSSGP__compact__len(in, junk) ==
  LET hdr == BssgpHeader(in) IN Split(in, hdr, compact_tlv_part(Elements(in, hdr), junk))

\* NS-UNITDATA (type 0) has no information elements to convert.
f__NS__expand__len(in, junk) ==
  IF in[1] = 0 THEN in ELSE Split(in, 1, expand_tlv_part(Elements(in, 1), junk))

f__NS__compact__len(in, junk) ==
  IF in[1] = 0 THEN in ELSE Split(in, 1, compact_tlv_part(Elements(in, 1), junk))

(***************************************************************************)
(* CRC-24.  The entry i of the table is the remainder of the octet i,      *)
(* shifted out least significant bit first with polynomial 0xAD85DD.       *)
(***************************************************************************)
tbl_crc24 ==
  LET Shift(c, k) == IF c % 2 = 1 THEN (c \div 2) ^^ 11371997 ELSE c \div 2
  IN  [i \in 0..255 |-> FoldLeft(Shift, i, <<1, 2, 3, 4, 5, 6, 7, 8>>)]

INIT_CRC24 == 16777215

crc24_calc(fcs, octets) ==
  FoldLeft(LAMBDA f, o : (f \div 256) ^^ tbl_crc24[(f % 256) ^^ o], fcs, octets)

\* Inverted, least significant octet first.
f__LLC__compute__fcs(octets) ==
  LET fcs == INIT_CRC24 - crc24_calc(INIT_CRC24, octets)
  IN  <<fcs % 256, (fcs \div 256) % 256, fcs \div 65536>>
=============================================================================
