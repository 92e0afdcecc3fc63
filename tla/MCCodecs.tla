------------------------------ MODULE MCCodecs ------------------------------
(***************************************************************************)
(* Messages for the codecs: every coding scheme and header type, optional  *)
(* parts present and absent, lengths at and next to the limits.            *)
(***************************************************************************)
EXTENDS Codecs, TLC

Octs(n, seed) == [i \in 1..n |-> (seed + 37 * i) % 256]

\* Lists of blocks with length octets for the given payload lengths.
Blocks(lens) ==
  [i \in DOMAIN lens |-> [li |-> lens[i], more |-> IF i = Len(lens) THEN 0 ELSE 1,
                          e |-> IF i = Len(lens) THEN 1 ELSE 0,
                          payload |-> Octs(lens[i], 60 * i)]]
NoMore(b) == [i \in DOMAIN b |-> [b[i] EXCEPT !.more = 0]]
LensLists(room) ==
  UNION {[1..k -> {0, 1, 7}] : k \in 1..3} \cup {<<room - 1>>, <<room - 3, 1>>}
BlockLists(room, more) ==
  {IF more THEN Blocks(l) ELSE NoMore(Blocks(l)) : l \in LensLists(room)}
  \cup {<<[li |-> -1, more |-> 0, e |-> 0, payload |-> Octs(room, 99)]>>}

UlHeader == [pt |-> 0, w0 |-> 37, w1 |-> 22, bsn |-> 85, e |-> 0]
Tlli == <<166, 28, 171, 82>>

GprsUl ==
  {[codec |-> "rlcmac_ul",
    v |-> [kind |-> "data", cs |-> cs, hdr |-> UlHeader, tlli |-> t, pfi |-> p,
           bound |-> TRUE, blocks |-> b]] :
   cs \in {"CS_1", "CS_4"}, t \in {<<>>, Tlli}, p \in {<<>>, <<43>>},
   b \in BlockLists(20, TRUE) \cup BlockLists(16, TRUE) \cup BlockLists(15, TRUE)}
  \cup {[codec |-> "rlcmac_ul",
         v |-> [kind |-> "data", cs |-> "CS_2", hdr |-> UlHeader, tlli |-> t, pfi |-> <<>>,
                bound |-> FALSE, blocks |-> <<>>]] : t \in {<<>>, Tlli}}

EgprsHeader(type) ==
  [kind |-> "header", header_type |-> type, tfi |-> 21, countdown |-> 9, foi_si |-> <<1>>,
   r_ri |-> <<0>>, bsn1 |-> 1365, bsn2_offset |-> 0, cps |-> 11, pfi_ind |-> 0,
   rsb |-> <<1>>, spb |-> <<1, 1>>]
Room(mcs) == R!data_block_len[mcs]

EgprsUl ==
  UNION {{[codec |-> "rlcmac_ul",
           v |-> [kind |-> "data_egprs", mcs |-> mcs, hdr |-> EgprsHeader(R!HeaderType(mcs)),
                  tlli |-> t, pfi |-> p, bound |-> TRUE, blocks |-> b]] :
          t \in {<<>>, Tlli}, p \in {<<>>, <<43>>}, b \in BlockLists(Room(mcs), FALSE)} :
         mcs \in {"MCS_1", "MCS_4", "MCS_5", "MCS_9"}}

Ctrl == {[codec |-> c, v |-> [kind |-> "ctrl", data |-> [Octs(23, 5) EXCEPT ![1] = 64]]] :
         c \in {"rlcmac_ul", "rlcmac_dl"}}

GprsDl ==
  {[codec |-> "rlcmac_dl",
    v |-> [kind |-> "data", cs |-> "CS_3", hdr |-> UlHeader, bound |-> TRUE, blocks |-> b]] :
   b \in BlockLists(36, TRUE)}
EgprsDl ==
  {[codec |-> "rlcmac_dl",
    v |-> [kind |-> "data_egprs", mcs |-> "MCS_2", bound |-> TRUE, blocks |-> b]] :
   b \in {Blocks(<<5>>), Blocks(<<2, 3>>)}}

(***************************************************************************)
(* Blocks as the PCU sends them: the bits of header and data in a row, the *)
(* least significant first (TS 44.060, 10.3a).                             *)
(***************************************************************************)
DlField(name) ==
  CASE name = "usf" -> 5 [] name = "es_p" -> 2 [] name = "rrbp" -> 1 [] name = "tfi" -> 21
    [] name = "pr" -> 1 [] name = "bsn1" -> 1365 [] name = "bsn2" -> 345
    [] name = "cps" -> 5 [] name = "spb" -> 2
DlFields ==
  << << <<"usf", 3>>, <<"es_p", 2>>, <<"rrbp", 2>>, <<"tfi", 5>>, <<"pr", 2>>, <<"bsn1", 11>>,
        <<"bsn2", 10>>, <<"cps", 5>> >>,
     << <<"usf", 3>>, <<"es_p", 2>>, <<"rrbp", 2>>, <<"tfi", 5>>, <<"pr", 2>>, <<"bsn1", 11>>,
        <<"cps", 3>> >>,
     << <<"usf", 3>>, <<"es_p", 2>>, <<"rrbp", 2>>, <<"tfi", 5>>, <<"pr", 2>>, <<"bsn1", 11>>,
        <<"cps", 4>>, <<"spb", 2>> >> >>
RowOf(type) ==
  FlattenSeq([k \in DOMAIN DlFields[type] |->
               R!Bits(DlField(DlFields[type][k][1]), DlFields[type][k][2])])

DlMeaning(type) ==
  [header_type |-> type, tfi |-> 21, rrbp |-> 1, esp |-> <<0, 1>>, usf |-> 5, bsn1 |-> 1365,
   bsn2_offset |-> IF type = 1 THEN 345 ELSE 0, pr |-> 1, cps |-> 5,
   spb |-> IF type = 3 THEN <<2>> ELSE <<>>]

EgprsDlRx(mcs, b, fbi) ==
  LET data == FlattenSeq([i \in DOMAIN b |-> <<b[i].li * 2 + b[i].e>>])
              \o FlattenSeq([i \in DOMAIN b |-> b[i].payload])
      row  == RowOf(R!HeaderType(mcs)) \o <<0, fbi>>
              \o R!BitsOf(data \o Octs(Room(mcs) - Len(data), 3))
      all  == row \o [i \in 1..(8 * R!block_len[mcs] - Len(row)) |-> 0]
  IN  [codec |-> "rlcmac_dl_rx", v |-> R!Octets(all),
       meant |-> [kind |-> "data_egprs", mcs |-> mcs, hdr |-> DlMeaning(R!HeaderType(mcs)),
                  fbi |-> fbi, e |-> 0, bound |-> TRUE, blocks |-> b]]
GprsDlRx(lens, payloads) ==
  LET lis == [i \in DOMAIN lens |-> lens[i] * 4 + (IF i = Len(lens) THEN 1 ELSE 2)]
      data == lis \o FlattenSeq(payloads)
  IN  [codec |-> "rlcmac_dl_rx", v |-> <<7, 18, 34>> \o data \o [i \in 1..(20 - Len(data)) |-> 43],
       meant |-> [kind |-> "data", cs |-> "CS_1",
                  hdr |-> [pt |-> 0, w0 |-> 7, w1 |-> 18, bsn |-> 17, e |-> 0], bound |-> TRUE,
                  blocks |-> [i \in DOMAIN lens |->
                    [li |-> lens[i], more |-> IF i = Len(lens) THEN 0 ELSE 1,
                     e |-> IF i = Len(lens) THEN 1 ELSE 0, payload |-> payloads[i]]]]]
DlRx ==
  {EgprsDlRx(mcs, NoMore(Blocks(l)), fbi) :
     mcs \in R!EgprsSchemes, fbi \in {0, 1}, l \in {<<7>>, <<1, 7>>, <<0, 9>>}}
  \cup {GprsDlRx(<<0>>, <<Octs(19, 4)>>), GprsDlRx(<<4>>, <<Octs(4, 4)>>),
        GprsDlRx(<<4, 6>>, <<Octs(4, 4), Octs(6, 8)>>)}

(***************************************************************************)
(* Checked PDUs, TLV messages, MNCC messages.                              *)
(***************************************************************************)
Iuup == {[codec |-> "iuup", v |-> v] :
         v \in {<<type * 16 + 3, 200, 0, 0>> \o Octs(n, 11) : type \in {0, 14}, n \in {0, 2}}}
Llc  == {[codec |-> "llc", v |-> Octs(n, 1)] : n \in {1, 5}}

Tlv(l) == <<l[1], l[2] \div 256, l[2] % 256>> \o Octs(l[2], l[1])
TlvMessage(codec, type, ls) ==
  LET header == IF codec = "bssgp" /\ type <= 1 THEN 8 ELSE 1
  IN  [codec |-> codec, tlvs |-> Len(ls), header |-> header,
       v |-> <<type>> \o [i \in 1..(header - 1) |-> i]
             \o FlattenSeq([i \in DOMAIN ls |-> Tlv(ls[i])])]
TlvMessages ==
  {TlvMessage(c, type, ls) :
     c \in {"bssgp", "ns"}, type \in {1, 4},
     ls \in {<<>>, <<<<9, 0>>>>, <<<<9, 3>>>>, <<<<9, 127>>>>, <<<<9, 128>>>>,
             <<<<9, 2>>, <<13, 130>>, <<10, 0>>>>, <<<<9, 128>>, <<13, 1>>>>}}
  \cup {[codec |-> "ns", tlvs |-> 0, header |-> 1, v |-> <<0, 9, 0, 1, 7>>]}

Text(n) == [text |-> "text", len |-> n]
Number(n) == [desc |-> 3, number |-> Text(n)]
OptValues(f) ==
  CASE f \in M!Numbers -> {Number(n) : n \in {0, 32, 33, 34}}
    [] f = "bearer_cap" -> {[base |-> 1, speech_ver |-> <<2, 0, -1>>, data |-> <<>>],
                            [base |-> 1, speech_ver |-> <<1, 2, 3, 4, 5, 6, 7, 8>>, data |-> <<5>>]}
    [] f = "useruser"  -> {[proto |-> 1, info |-> Text(n)] : n \in {128, 129, 130}}
    [] f \in {"facility", "ssversion"} -> {Text(n) : n \in {127, 128, 129}}
    [] f = "sdp"   -> {Text(n) : n \in {0, 1023, 1024, 1025}}
    [] f = "cause" -> {[desc |-> 2, diag |-> Text(n)] : n \in {0, 32, 33}}
    [] f = "cccap" -> {[dtmf |-> d, pcp |-> 1] : d \in {0, 1}}
    [] OTHER -> {6}

Opts == {<<>>} \cup UNION {{f :> x : x \in OptValues(f)} : f \in M!Flags \cup {"sdp"}}
Signal(opt, sup, lchan_type, imsi) ==
  [kind |-> "signal", msg_type |-> "SETUP_REQ", callref |-> 7, opt |-> opt,
   clir_sup |-> sup, lchan_type |-> lchan_type, rest |-> 4, imsi |-> imsi]
MnccSignals ==
  {[codec |-> "mncc", version |-> ver, v |-> Signal(a @@ b, sup, type, Text(n))] :
     ver \in {7, 8, 9}, a \in {o \in Opts : DOMAIN o \subseteq {"called", "cccap", "keypad", "gcr", "sdp"}},
     b \in Opts, sup \in {0, 1}, type \in {0, 1}, n \in {15, 16, 17}}
\* Data of no, too many and as many octets as the header has, with all, some and no
\* bits of the message type.
FrameDatas == {<<>>, Octs(33, 1)} \cup {<<a, b>> \o Octs(6, 5) : a \in {0, 1, 255}, b \in {2, 255}}
MnccOthers ==
  {[codec |-> "mncc", version |-> 8, v |-> v] :
   v \in {[kind |-> "data", msg_type |-> type, callref |-> 7, data |-> data] :
             type \in DOMAIN M!FrameType, data \in FrameDatas} \cup
         {[kind |-> "rtp", msg_type |-> "RTP_CREATE", callref |-> 7, is_ipv6 |-> TRUE, ip |-> 16,
           port |-> 4000, payload |-> 3, sdp |-> <<>>],
          [kind |-> "rtp", msg_type |-> "RTP_CONNECT", callref |-> 7, is_ipv6 |-> FALSE, ip |-> 4,
           port |-> 4000, payload |-> 3, sdp |-> <<Text(9)>>],
          [kind |-> "rtp", msg_type |-> "RTP_CONNECT", callref |-> 7, is_ipv6 |-> FALSE, ip |-> 4,
           port |-> 4000, payload |-> 3, sdp |-> <<Text(1024)>>],
          [kind |-> "hello", msg_type |-> "SOCKET_HELLO", version |-> 8, sizes |-> 5]}}

(***************************************************************************)
(* The blocks that TC_selftest_rlcmac decodes and encodes again.           *)
(***************************************************************************)
Pad(n) == [i \in 1..n |-> 43]
c_dl_data ==
  <<15, 0, 0, 115, 65, 192, 1, 8, 18, 0, 16, 33, 152, 199, 36, 119, 234, 16, 72, 149,
    232, 185, 89, 172, 197, 139, 16, 129, 130, 244, 208, 69, 67, 0>>
c_dl_data2 ==
  <<7, 0, 2, 22, 93, 192, 1, 43, 43, 43, 67, 192, 1>> \o Pad(20) \o <<0>>
c_uld_tlli_noext ==
  <<8, 1, 1, 166, 28, 171, 82, 1, 192, 1, 8, 1, 3, 229, 224, 0, 49, 10, 0, 5, 244, 230,
    28, 171, 82, 50, 244, 64, 0, 200, 0, 29, 27, 0>>
c_uld_tlli_ext7pad ==
  <<0, 1, 4, 29, 166, 28, 171, 82, 0, 32, 23, 5, 169, 110, 16>> \o Pad(18) \o <<0>>
c_ul_dl_ack_nack ==
  <<64, 8, 0, 64, 0, 0, 0, 0, 0, 0, 0, 112, 16, 0, 237, 192, 0, 11>> \o Pad(5)
MCSelftest ==
  {[codec |-> "rlcmac_dl_rx", v |-> v] : v \in {c_dl_data, c_dl_data2}}
  \cup {[codec |-> "rlcmac_ul_rx", v |-> v] :
          v \in {c_uld_tlli_noext, c_uld_tlli_ext7pad, c_ul_dl_ack_nack}}

MCMessages == GprsUl \cup EgprsUl \cup Ctrl \cup GprsDl \cup EgprsDl \cup DlRx
              \cup Iuup \cup Llc \cup TlvMessages \cup MnccSignals \cup MnccOthers
MCJunk == {0, 255}
=============================================================================
