-------------------------------- MODULE IuUP --------------------------------
(***************************************************************************)
(* The checksums of IuUP PDUs (library/IuUP_EncDec.cc).  The fields of a   *)
(* PDU are coded by the generated codec, so a PDU is a sequence of octets  *)
(* whose two checksum octets are zero before f__enc__IuUP__PDU fills them. *)
(***************************************************************************)
EXTENDS Integers, Sequences, SequencesExt, Bitwise

\* A dynamic test case error: substr() behind the end of the PDU.
Error == <<-1>>

\* The first n bits of the octets, most significant first.
osmo_pbit2ubit(octets, n) ==
  [i \in 1..n |-> (octets[(i - 1) \div 8 + 1] \div 2^(7 - ((i - 1) % 8))) % 2]

\* A cyclic redundancy check of code.bits bits over a sequence of bits.
osmo_crcgen_compute_bits(code, bits) ==
  LET top == 2^(code.bits - 1)
      Step(crc, bit) ==
        LET c == crc ^^ (bit * top)
        IN  IF c >= top THEN ((2 * c) % (2 * top)) ^^ code.poly ELSE 2 * c
  IN  FoldLeft(Step, code.init, bits) ^^ code.remainder

iuup_hdr_crc_code  == [bits |-> 6,  poly |-> 47,  init |-> 0, remainder |-> 0]
iuup_data_crc_code == [bits |-> 10, poly |-> 563, init |-> 0, remainder |-> 0]

PduType(pdu) == pdu[1] \div 16

\* With the payload starting right behind the header checksum.
iuup_get_payload_offset_Mistake(pdu) == 3

iuup_get_payload_offset(pdu) ==
  CASE PduType(pdu) \in {0, 14} -> 4
    [] PduType(pdu) = 1 -> 3
    [] OTHER -> -1

osmo_iuup_compute_payload_crc(pdu) ==
  LET offset  == iuup_get_payload_offset(pdu)
      payload == SubSeq(pdu, offset + 1, Len(pdu))
  IN  IF Len(pdu) < 1 THEN -1
      ELSE IF PduType(pdu) = 1 THEN 0
      ELSE IF offset < 0 \/ Len(pdu) < offset THEN -1
      ELSE osmo_crcgen_compute_bits(iuup_data_crc_code,
                                    osmo_pbit2ubit(payload, 8 * Len(payload)))

osmo_iuup_compute_header_crc(pdu) ==
  IF Len(pdu) < 2 THEN -1
  ELSE osmo_crcgen_compute_bits(iuup_hdr_crc_code, osmo_pbit2ubit(pdu, 16))

\* Octets 2 and 3 become the checksums, whatever the type of the PDU.
f__enc__IuUP__PDU(pdu) ==
  LET hdr     == osmo_iuup_compute_header_crc(pdu) % 64
      payload == osmo_iuup_compute_payload_crc(pdu) % 1024
  IN  IF Len(pdu) < 4 THEN Error
      ELSE SubSeq(pdu, 1, 2) \o <<hdr * 4 + (payload \div 256), payload % 256>>
             \o SubSeq(pdu, 5, Len(pdu))

\* The checksums a PDU carries: the fields of the generated decoder.
HeaderCrc(pdu)  == pdu[3] \div 4
PayloadCrc(pdu) == (pdu[3] % 4) * 256 + pdu[4]
=============================================================================
