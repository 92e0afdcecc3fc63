------------------------------ MODULE Milenage ------------------------------
(***************************************************************************)
(* MILENAGE (library/milenage/milenage.c), symbolically.  A string of      *)
(* octets is the set of the atoms whose exclusive or it is: the bits of a  *)
(* known value, a random or an encrypted block, or a rotation or a part of *)
(* one.  Exclusive or then cancels what it cancels in the code, and two    *)
(* strings are equal when nothing but an accident could tell otherwise.    *)
(* Offsets, lengths and rotations are in octets, as in the code.           *)
(***************************************************************************)
EXTENDS Integers, FiniteSetsExt

Xor(x, y) == SymDiff(x, y)

\* A known value: the set of its bits, bit b with the weight 2^b.
Bit(b) == <<"bit", b>>
Powers == <<1, 2, 4, 8, 16, 32, 64, 128, 256, 512, 1024, 2048, 4096, 8192, 16384, 32768>>
Weight(b) == Powers[b + 1]
Number(n) == {Bit(b) : b \in {b \in 0..15 : (n \div Weight(b)) % 2 = 1}}
Value(x) == MapThenSumSet(LAMBDA a : Weight(a[2]), x)

\* A block nobody knows beforehand; the n-th random challenge.
Block(name) == {<<"block", name>>}
Random(n) == {<<"random", n>>}

\* AES-128 as an ideal cipher: what it makes of another block, or with another
\* key, is unrelated.
aes_128_encrypt_block(k, plain) == {<<"aes", k, plain>>}

\* memcpy(dst, x + first, length)
Part(x, first, length) == {<<"part", a, first, length>> : a \in x}
\* tmp[(i + r) % 16] = x[i]
Rotated(x, r) == IF r = 0 THEN x ELSE {<<"rot", a, r>> : a \in x}

Temp(opc, k, rand) == aes_128_encrypt_block(k, Xor(rand, opc))

\* IN1 = SQN || AMF || SQN || AMF; OUT1 holds MAC-A and MAC-S.
milenage_f1(opc, k, rand, sqn, amf) ==
  LET in1  == {<<"in1", sqn, amf>>}
      tmp  == Xor(Rotated(Xor(in1, opc), 8), Temp(opc, k, rand))
      out1 == Xor(aes_128_encrypt_block(k, tmp), opc)
  IN  [mac_a |-> Part(out1, 0, 8), mac_s |-> Part(out1, 8, 8)]

\* OUT2..OUT5, each with a rotation and a constant (in the last octet).
milenage_f2345(opc, k, rand) ==
  LET t == Xor(Temp(opc, k, rand), opc)
      Out(r, c) == Xor(aes_128_encrypt_block(k, Xor(Rotated(t, r), Number(c))), opc)
  IN  [res |-> Part(Out(0, 1), 8, 8), ak |-> Part(Out(0, 1), 0, 6),
       ck |-> Out(12, 2), ik |-> Out(8, 4), akstar |-> Part(Out(4, 8), 0, 6)]

\* AUTN = (SQN ^ AK) || AMF || MAC
milenage_generate(opc, amf, k, sqn, rand) ==
  LET f == milenage_f2345(opc, k, rand)
  IN  [autn |-> [sqn_ak |-> Xor(sqn, f.ak), amf |-> amf,
                 mac |-> milenage_f1(opc, k, rand, sqn, amf).mac_a],
       ik |-> f.ik, ck |-> f.ck, res |-> f.res]

\* The AMF of a resynchronisation (TS 33.102, 6.3.3).
ResyncAmf == {}

\* As if AUTS were protected with f5 and not f5*.
milenage_auts_Mistake(opc, k, rand, auts) ==
  LET sqn == Xor(auts.sqn_ak, milenage_f2345(opc, k, rand).ak)
  IN  [rc |-> IF milenage_f1(opc, k, rand, sqn, ResyncAmf).mac_s = auts.mac THEN 0 ELSE -1,
       sqn |-> sqn]

\* rc 0 and the sequence number, or -1 when MAC-S differs.
milenage_auts(opc, k, rand, auts) ==
  LET sqn == Xor(auts.sqn_ak, milenage_f2345(opc, k, rand).akstar)
  IN  [rc |-> IF milenage_f1(opc, k, rand, sqn, ResyncAmf).mac_s = auts.mac THEN 0 ELSE -1,
       sqn |-> sqn]

gsm_milenage(opc, k, rand) ==
  LET f == milenage_f2345(opc, k, rand)
      Folded(x, n) == Xor(Part(x, 0, n), Part(x, n, n))
  IN  [kc |-> Xor(Folded(f.ck, 8), Folded(f.ik, 8)), sres |-> Folded(f.res, 4)]

\* Only bits have an order that is known.
Known(x) == \A a \in x : a[1] = "bit"

\* As memcmp(x, y) < 0.
memcmp_le_Mistake(x, y) ==
  IF Known(x) /\ Known(y) THEN {Value(x) < Value(y)} ELSE BOOLEAN

\* Whether memcmp(x, y) <= 0.  The order of what nobody knows can be any.
memcmp_le(x, y) == IF Known(x) /\ Known(y) THEN {Value(x) <= Value(y)} ELSE BOOLEAN

\* The possible results.  RES, CK and IK are there whatever the outcome; AUTS is
\* written for rc -2 only; the sequence number is judged before the MAC.
milenage_check(opc, k, sqn, rand, autn) ==
  LET f      == milenage_f2345(opc, k, rand)
      rx_sqn == Xor(autn.sqn_ak, f.ak)
      mac_a  == milenage_f1(opc, k, rand, rx_sqn, autn.amf).mac_a
      auts   == [sqn_ak |-> Xor(sqn, f.akstar),
                 mac |-> milenage_f1(opc, k, rand, sqn, ResyncAmf).mac_s]
      Result(rc) == [rc |-> rc, ik |-> f.ik, ck |-> f.ck, res |-> f.res, auts |-> auts]
  IN  {Result(IF old THEN -2 ELSE IF mac_a # autn.mac THEN -1 ELSE 0) :
         old \in memcmp_le(rx_sqn, sqn)}

\* What TTCN-3 gets of it: AUTS holds nothing when it was not written.
f__milenage__check(opc, k, sqn, rand, autn) ==
  {[r EXCEPT !.auts = IF r.rc = -2 THEN @ ELSE [sqn_ak |-> Block("uninitialised"), mac |-> {}]] :
     r \in milenage_check(opc, k, sqn, rand, autn)}
=============================================================================
