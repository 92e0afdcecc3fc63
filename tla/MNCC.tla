-------------------------------- MODULE MNCC --------------------------------
(***************************************************************************)
(* The MNCC codec (library/MNCC_EncDec.cc, mncc.h): TTCN-3 messages with   *)
(* optional fields against C structures with presence flags.  A text is    *)
(* the name of its contents and its length: what matters is whether it     *)
(* fits its array with the terminating NUL.  A structure is a function     *)
(* from its members to their values; a data frame is its octets.           *)
(***************************************************************************)
EXTENDS Integers, Sequences, Bitwise, TLC

\* A dynamic test case error.
Error == [kind |-> "error"]

\* set__MNCC__version(): version of the socket interface, 7 or 8.
set__MNCC__version(old, version) == IF version \in {7, 8} THEN version ELSE old

\* Optional fields with a presence flag; sdp is optional but has none.
Flags == {"bearer_cap", "called", "calling", "redirecting", "connected", "cause",
          "useruser", "progress", "emergency", "facility", "ssversion", "cccap",
          "keypad", "signal", "gcr"}
Numbers == {"called", "calling", "redirecting", "connected"}

\* Sizes of the character arrays.
Size == [number |-> 33, info |-> 129, facility |-> 128, ssversion |-> 128,
         imsi |-> 16, sdp |-> 1024, diag |-> 32]

\* strncpy() cuts a text that is too long, and stores no NUL when it fills the array.
\* Such an array is read on into what stands behind it, up to the first zero.
Empty   == [text |-> "", len |-> 0]
Overrun == [text |-> "overrun", len |-> -1]
strncpy(s, size) == [s EXCEPT !.len = IF @ < size THEN @ ELSE size]
charstring(s, size, behind) == IF s.len < size \/ behind = 0 THEN s ELSE Overrun

\* The result of reading behind the end of the buffer, whatever is there.
Overread == [kind |-> "overread"]

\* struct gsm_mncc after memset(): all zero.
Number0 == [desc |-> 0, number |-> Empty]
Zeroed ==
  [m \in Numbers |-> Number0] @@
  [bearer_cap |-> [base |-> 0, speech_ver |-> [i \in 1..8 |-> 0], data |-> 0],
   cause |-> [desc |-> 0, diag |-> Empty], useruser |-> [proto |-> 0, info |-> Empty],
   progress |-> 0, emergency |-> 0, facility |-> Empty, ssversion |-> Empty,
   cccap |-> [dtmf |-> 0, pcp |-> 0], keypad |-> 0, signal |-> 0, gcr |-> 0, sdp |-> Empty]

\* speech_ver keeps the zeros of memset() behind the versions; data is only
\* written when there is some.
enc_bcap(b) ==
  [base |-> b.base, data |-> IF b.data = <<>> THEN 0 ELSE b.data[1],
   speech_ver |-> [i \in 1..8 |-> IF i \in DOMAIN b.speech_ver THEN b.speech_ver[i] ELSE 0]]

\* The versions up to and with the first -1; the data is always present.
dec_bcap(b) ==
  [base |-> b.base, data |-> <<b.data>>,
   speech_ver |-> IF \E i \in 1..8 : b.speech_ver[i] = -1
                  THEN SubSeq(b.speech_ver, 1,
                              CHOOSE i \in 1..8 : /\ b.speech_ver[i] = -1
                                                  /\ \A k \in 1..(i-1) : b.speech_ver[k] # -1)
                  ELSE b.speech_ver]

enc_number(n) == [n EXCEPT !.number = strncpy(@, Size.number)]
\* The array of the structure is followed by padding, which memset() cleared.
dec_number(n) == [n EXCEPT !.number = charstring(@, Size.number, 0)]

\* With the array of facility in place of useruser's, which is one octet longer.
Stored_Mistake(m, x) ==
  CASE m = "bearer_cap" -> enc_bcap(x)
    [] m \in Numbers    -> enc_number(x)
    [] m = "useruser"   -> [x EXCEPT !.info = strncpy(@, Size.facility)]
    [] m \in {"facility", "ssversion", "sdp"} -> strncpy(x, Size[m])
    [] OTHER -> x

\* A member of the structure from the optional field of the same name.
Stored(m, x) ==
  CASE m = "bearer_cap" -> enc_bcap(x)
    [] m \in Numbers    -> enc_number(x)
    [] m = "useruser"   -> [x EXCEPT !.info = strncpy(@, Size.info)]
    [] m \in {"facility", "ssversion", "sdp"} -> strncpy(x, Size[m])
    [] OTHER -> x
Fetched(m, x, behind) ==
  CASE m = "bearer_cap" -> dec_bcap(x)
    [] m \in Numbers    -> dec_number(x)
    [] m = "useruser"   -> [x EXCEPT !.info = charstring(@, Size.info, 0)]
    [] m \in {"facility", "ssversion", "sdp"} -> charstring(x, Size[m], behind)
    [] OTHER -> x

\* What stands behind the array of a text: the next member, for useruser and the
\* numbers padding, for sdp the rest of the union.
Behind(w, m) == CASE m = "facility"  -> w.member["cccap"].dtmf
                  [] m = "ssversion" -> w.clir_sup
                  [] m = "imsi"      -> w.lchan_type
                  [] OTHER -> 0

\* The member an optional field is written to: keypad goes to signal, after it.
Written(opt) ==
  [m \in DOMAIN Zeroed |->
     CASE m = "signal" /\ "keypad" \in DOMAIN opt -> opt["keypad"]
       [] m = "keypad" -> 0
       [] m \in DOMAIN opt \ {"keypad"} -> Stored(m, opt[m])
       [] OTHER -> Zeroed[m]]

TooLong(opt) == "cause" \in DOMAIN opt /\ opt["cause"].diag.len > Size.diag

\* Version 8 has 16 octets for gcr before sdp.
SdpOffset(version) == IF version > 7 THEN 16 ELSE 0

EncodeSignal(v, version) ==
  IF TooLong(v.opt) \/ ("gcr" \in DOMAIN v.opt /\ version < 8) THEN Error
  ELSE [kind |-> "gsm_mncc", msg_type |-> v.msg_type, callref |-> v.callref,
        fields |-> DOMAIN v.opt \cap Flags, member |-> Written(v.opt),
        clir_sup |-> v.clir_sup, lchan_type |-> v.lchan_type, rest |-> v.rest,
        imsi |-> strncpy(v.imsi, Size.imsi), at |-> SdpOffset(version)]

\* The message types of data frames, and the header of one in the octets of a
\* little-endian host; the call reference stays zero.
FrameType == [TCHF_FRAME |-> 768, TCHF_FRAME_EFR |-> 769, TCHH_FRAME |-> 770,
              TCH_FRAME_AMR |-> 771, BAD_FRAME |-> 1023]
FrameHeader(type) == <<type % 256, type \div 256, 0, 0, 0, 0, 0, 0>>
Word(o, i) == o[i] + 2^8 * o[i + 1] + 2^16 * o[i + 2] + 2^24 * o[i + 3]

\* Operator & is the bitwise and of octet strings of the same length, an error for others.
And4b(a, b) == [i \in DOMAIN a |-> a[i] & b[i]]
EncodeData(v) ==
  LET header == FrameHeader(FrameType[v.msg_type])
  IN  IF Len(v.data) = Len(header)
      THEN [kind |-> "gsm_data_frame", octets |-> And4b(header, v.data)] ELSE Error

EncodeRtp(v) ==
  [kind |-> "gsm_mncc_rtp", msg_type |-> v.msg_type, callref |-> v.callref,
   family |-> IF v.is_ipv6 THEN "AF_INET6" ELSE "AF_INET", ip |-> v.ip, port |-> v.port,
   payload |-> v.payload,
   sdp |-> IF v.sdp = <<>> THEN Empty ELSE strncpy(v.sdp[1], Size.sdp)]

enc__MNCC__PDU(v, version) ==
  CASE v.kind = "signal" -> EncodeSignal(v, version)
    [] v.kind = "data"   -> EncodeData(v)
    [] v.kind = "rtp"    -> EncodeRtp(v)
    [] v.kind = "hello"  -> [v EXCEPT !.kind = "gsm_mncc_hello"]

\* sdp is always present; gcr counts from version 8 on.  Decoded at the offset
\* of another version than it was encoded at, sdp is some other text.
DecodeSignal(w, version) ==
  LET present == IF version > 7 THEN w.fields ELSE w.fields \ {"gcr"}
      sdp == IF w.at = SdpOffset(version) THEN w.member["sdp"] ELSE Overrun
  IN  [kind |-> "signal", msg_type |-> w.msg_type, callref |-> w.callref,
       opt |-> [m \in present |-> Fetched(m, w.member[m], Behind(w, m))]
               @@ ("sdp" :> Fetched("sdp", sdp, 0)),
       clir_sup |-> w.clir_sup, lchan_type |-> w.lchan_type, rest |-> w.rest,
       imsi |-> charstring(w.imsi, Size.imsi, Behind(w, "imsi"))]

\* The type decides how the octets are read: as a data frame, or as one of the
\* structures that are longer than the frame.
DecodeFrame(w) ==
  LET types == {t \in DOMAIN FrameType : FrameType[t] = Word(w.octets, 1)}
  IN  IF types = {} THEN Overread
      ELSE [kind |-> "data", msg_type |-> CHOOSE t \in types : TRUE,
            callref |-> Word(w.octets, 5), data |-> SubSeq(w.octets, 9, Len(w.octets))]

\* Behind the sdp of this structure the buffer ends.
DecodeRtp(w) ==
  [kind |-> "rtp", msg_type |-> w.msg_type, callref |-> w.callref,
   is_ipv6 |-> w.family = "AF_INET6", ip |-> w.ip, port |-> w.port, payload |-> w.payload,
   sdp |-> <<charstring(w.sdp, Size.sdp, 1)>>]

dec__MNCC__PDU(w, version) ==
  CASE w.kind = "gsm_mncc"       -> DecodeSignal(w, version)
    [] w.kind = "gsm_data_frame" -> DecodeFrame(w)
    [] w.kind = "gsm_mncc_rtp"   -> DecodeRtp(w)
    [] w.kind = "gsm_mncc_hello" -> [w EXCEPT !.kind = "hello"]
=============================================================================
