------------------------------ MODULE AKAProofs -------------------------------
(***************************************************************************)
(* The authentication of the 5G UE, for any sequence numbers, challenges,  *)
(* altered bits and numbers of registrations: what milenage_check accepts  *)
(* (Genuine), and that both ends then hold the same keys.                  *)
(***************************************************************************)
EXTENDS AKA, SequenceTheorems, TLAPS

-----------------------------------------------------------------------------
(* What milenage_check makes of a challenge. *)

Ue(c) == milenage_f2345(usim_key, usim_opc, Random(c.rand))
RxSqn(kind, c) == Xor(Autn(kind, c).sqn_ak, Ue(c).ak)
MacA(k, c, sqn, amf) == milenage_f1(usim_key, k, Random(c.rand), sqn, amf).mac_a
MacS(k, c, sqn, amf) == milenage_f1(usim_key, k, Random(c.rand), sqn, amf).mac_s
Resync(c) ==
  [sqn_ak |-> Xor(my_sqn, Ue(c).akstar), mac |-> MacS(usim_opc, c, my_sqn, ResyncAmf)]

\* rc 0: the MAC is right, and the sequence number not old.
Genuine(kind, c) ==
  /\ MacA(usim_opc, c, RxSqn(kind, c), Autn(kind, c).amf) = Autn(kind, c).mac
  /\ FALSE \in memcmp_le(RxSqn(kind, c), my_sqn)

LEMMA LeqIsBoolean ==
  ASSUME NEW v, NEW w
  PROVE  (v <= w) \in BOOLEAN
  OBVIOUS

LEMMA MemcmpIsBoolean ==
  ASSUME NEW x, NEW y
  PROVE  memcmp_le(x, y) \subseteq BOOLEAN
  BY LeqIsBoolean DEF memcmp_le

LEMMA CheckedIs ==
  ASSUME NEW kind, NEW c, NEW r \in Checked(kind, c)
  PROVE  /\ r.ck = Ue(c).ck /\ r.ik = Ue(c).ik /\ r.res = Ue(c).res
         /\ r.rc = -2 => r.auts = Resync(c)
         /\ r.rc = 0 => Genuine(kind, c)
<1> DEFINE f == milenage_f2345(usim_key, usim_opc, Random(c.rand))
           rx == Xor(Autn(kind, c).sqn_ak, f.ak)
           mac == milenage_f1(usim_key, usim_opc, Random(c.rand), rx, Autn(kind, c).amf).mac_a
           a == Resync(c)
           Result(rc) == [rc |-> rc, ik |-> f.ik, ck |-> f.ck, res |-> f.res, auts |-> a]
           Rc(old) == IF old THEN -2 ELSE IF mac # Autn(kind, c).mac THEN -1 ELSE 0
<1>1. PICK q \in milenage_check(usim_key, usim_opc, my_sqn, Random(c.rand), Autn(kind, c)) :
        r = [q EXCEPT !.auts = IF q.rc = -2 THEN @ ELSE [sqn_ak |-> Block("uninitialised"), mac |-> {}]]
  BY DEF Checked, f__milenage__check
<1>2. PICK old \in memcmp_le(rx, my_sqn) : q = Result(Rc(old))
  BY DEF milenage_check, Resync, MacS, Ue
<1>3. /\ Ue(c) = f
      /\ (mac = Autn(kind, c).mac /\ FALSE \in memcmp_le(rx, my_sqn)) => Genuine(kind, c)
  BY DEF Ue, Genuine, RxSqn, MacA
<1>4. old \in BOOLEAN
  BY MemcmpIsBoolean
<1> HIDE DEF f, rx, mac, a
<1>5. /\ r.ck = f.ck /\ r.ik = f.ik /\ r.res = f.res /\ r.rc = Rc(old)
      /\ r.rc = -2 => r.auts = a
  BY <1>1, <1>2
<1>6. r.rc = 0 => mac = Autn(kind, c).mac /\ FALSE \in memcmp_le(rx, my_sqn)
  <2>1. CASE old = TRUE
    BY <1>5, <2>1
  <2>2. CASE old = FALSE
    <3>1. Rc(old) = IF mac # Autn(kind, c).mac THEN -1 ELSE 0
      BY <2>2
    <3>2. FALSE \in memcmp_le(rx, my_sqn)
      BY <1>2, <2>2
    <3>3. r.rc = Rc(old)
      BY <1>5
    <3> HIDE DEF Rc, Result
    <3>4. -1 # 0
      OBVIOUS
    <3> QED  BY <3>1, <3>2, <3>3, <3>4, Zenon
  <2> QED  BY <1>4, <2>1, <2>2
<1> QED  BY <1>3, <1>5, <1>6 DEF a

-----------------------------------------------------------------------------
(* What a genuine challenge is. *)

Aes(k, t) == <<"aes", k, t>>
Opc == <<"block", "usim_key">>

\* The halves of f1's output show key and input of the cipher.
LEMMA MacShows ==
  ASSUME NEW first, NEW k1, NEW t1, NEW k2, NEW t2,
         Part(Xor({Aes(k1, t1)}, {Opc}), first, 8) = Part(Xor({Aes(k2, t2)}, {Opc}), first, 8)
  PROVE  k1 = k2 /\ t1 = t2
<1>1. Aes(k1, t1) # Opc /\ Aes(k2, t2) # Opc
  BY DEF Aes, Opc
<1>2. Xor({Aes(k1, t1)}, {Opc}) = {Aes(k1, t1), Opc} /\ Xor({Aes(k2, t2)}, {Opc}) = {Aes(k2, t2), Opc}
  BY <1>1 DEF Xor, SymDiff
<1>3. \A x, y : <<"part", x, first, 8>> = <<"part", y, first, 8>> => x = y
  OBVIOUS
<1>4. \A x : Part({x, Opc}, first, 8) = {<<"part", x, first, 8>>, <<"part", Opc, first, 8>>}
  BY DEF Part
<1>5. <<"part", Aes(k1, t1), first, 8>> \in {<<"part", Aes(k2, t2), first, 8>>, <<"part", Opc, first, 8>>}
  <2>1. {<<"part", Aes(k1, t1), first, 8>>, <<"part", Opc, first, 8>>}
          = {<<"part", Aes(k2, t2), first, 8>>, <<"part", Opc, first, 8>>}
    BY <1>2, <1>4, Zenon
  <2> QED  BY <2>1, Zenon
<1>6. Aes(k1, t1) = Aes(k2, t2)
  BY <1>1, <1>3, <1>5
<1> QED  BY <1>6 DEF Aes

\* So does its input for what went into IN1.
In1(sqn, amf) == Rotated(Xor({<<"in1", sqn, amf>>}, {Opc}), 8)

LEMMA InputShows ==
  ASSUME NEW s1, NEW a1, NEW s2, NEW a2, NEW t, Xor(In1(s1, a1), t) = Xor(In1(s2, a2), t)
  PROVE  s1 = s2 /\ a1 = a2
<1>1. Rotated(Xor({<<"in1", s1, a1>>}, {Opc}), 8) = Rotated(Xor({<<"in1", s2, a2>>}, {Opc}), 8)
  <2>1. In1(s1, a1) = In1(s2, a2)
    BY DEF Xor, SymDiff
  <2> QED  BY <2>1 DEF In1
<1>2. <<"in1", s1, a1>> # Opc /\ <<"in1", s2, a2>> # Opc
  BY DEF Opc
<1>3. /\ Xor({<<"in1", s1, a1>>}, {Opc}) = {<<"in1", s1, a1>>, Opc}
      /\ Xor({<<"in1", s2, a2>>}, {Opc}) = {<<"in1", s2, a2>>, Opc}
  BY <1>2 DEF Xor, SymDiff
<1>4. \A x : Rotated({x, Opc}, 8) = {<<"rot", x, 8>>, <<"rot", Opc, 8>>}
  BY DEF Rotated
<1>5. \A x, y : <<"rot", x, 8>> = <<"rot", y, 8>> => x = y
  OBVIOUS
<1>6. <<"rot", <<"in1", s1, a1>>, 8>> \in {<<"rot", <<"in1", s2, a2>>, 8>>, <<"rot", Opc, 8>>}
  <2>1. {<<"rot", <<"in1", s1, a1>>, 8>>, <<"rot", Opc, 8>>}
          = {<<"rot", <<"in1", s2, a2>>, 8>>, <<"rot", Opc, 8>>}
    BY <1>1, <1>3, <1>4, Zenon
  <2> QED  BY <2>1, Zenon
<1>7. <<"in1", s1, a1>> = <<"in1", s2, a2>>
  BY <1>2, <1>5, <1>6
<1> QED  BY <1>7

\* Equal MACs come from the same key, sequence number and AMF.
LEMMA MacDetermines ==
  ASSUME NEW k1, NEW k2, NEW c, NEW s1, NEW s2, NEW a1, NEW a2,
         \/ MacA(k1, c, s1, a1) = MacA(k2, c, s2, a2)
         \/ MacS(k1, c, s1, a1) = MacS(k2, c, s2, a2)
  PROVE  k1 = k2 /\ s1 = s2 /\ a1 = a2
<1> DEFINE t(k) == Temp(usim_key, k, Random(c.rand))
           input(k, s, a) == Xor(In1(s, a), t(k))
<1>1. usim_key = {Opc}
  BY DEF usim_key, Block, Opc
<1>2. \A k, s, a : /\ MacA(k, c, s, a) = Part(Xor({Aes(k, input(k, s, a))}, {Opc}), 0, 8)
                  /\ MacS(k, c, s, a) = Part(Xor({Aes(k, input(k, s, a))}, {Opc}), 8, 8)
  BY <1>1 DEF MacA, MacS, milenage_f1, aes_128_encrypt_block, Aes, In1
<1> HIDE DEF t
<1>3. k1 = k2 /\ input(k1, s1, a1) = input(k2, s2, a2)
  <2>0. \A i, j : Part(Xor({Aes(k1, i)}, {Opc}), 0, 8) = Part(Xor({Aes(k2, j)}, {Opc}), 0, 8)
                     => k1 = k2 /\ i = j
    <3> TAKE i, j
    <3> QED  BY MacShows
  <2>1. \A i, j : Part(Xor({Aes(k1, i)}, {Opc}), 8, 8) = Part(Xor({Aes(k2, j)}, {Opc}), 8, 8)
                     => k1 = k2 /\ i = j
    <3> TAKE i, j
    <3> QED  BY MacShows
  <2>2. /\ MacA(k1, c, s1, a1) = Part(Xor({Aes(k1, input(k1, s1, a1))}, {Opc}), 0, 8)
        /\ MacA(k2, c, s2, a2) = Part(Xor({Aes(k2, input(k2, s2, a2))}, {Opc}), 0, 8)
        /\ MacS(k1, c, s1, a1) = Part(Xor({Aes(k1, input(k1, s1, a1))}, {Opc}), 8, 8)
        /\ MacS(k2, c, s2, a2) = Part(Xor({Aes(k2, input(k2, s2, a2))}, {Opc}), 8, 8)
    BY <1>2
  <2> HIDE DEF input
  <2>3. CASE MacA(k1, c, s1, a1) = MacA(k2, c, s2, a2)
    <3>1. Part(Xor({Aes(k1, input(k1, s1, a1))}, {Opc}), 0, 8)
            = Part(Xor({Aes(k2, input(k2, s2, a2))}, {Opc}), 0, 8)
      BY <2>2, <2>3, Zenon
    <3> QED  BY <2>0, <3>1, Zenon
  <2>4. CASE MacS(k1, c, s1, a1) = MacS(k2, c, s2, a2)
    <3>1. Part(Xor({Aes(k1, input(k1, s1, a1))}, {Opc}), 8, 8)
            = Part(Xor({Aes(k2, input(k2, s2, a2))}, {Opc}), 8, 8)
      BY <2>2, <2>4, Zenon
    <3> QED  BY <2>1, <3>1, Zenon
  <2> QED  BY <2>3, <2>4
<1>4. Xor(In1(s1, a1), t(k1)) = Xor(In1(s2, a2), t(k1))
  BY <1>3, Zenon
<1> QED  BY <1>3, <1>4, InputShows

\* Exclusive or twice is none, and once with something changes it.
LEMMA XorTwice ==
  ASSUME NEW x, NEW y
  PROVE  Xor(Xor(x, y), y) = x
  BY DEF Xor, SymDiff

LEMMA XorChanges ==
  ASSUME NEW x, NEW a
  PROVE  Xor(x, {a}) # x
  BY DEF Xor, SymDiff

\* A MAC holds no known bit.
LEMMA MacUnknown ==
  ASSUME NEW k, NEW c, NEW sqn, NEW amf, NEW b
  PROVE  Bit(b) \notin MacA(k, c, sqn, amf)
<1>1. \A x : Bit(b) \notin Part(x, 0, 8)
  BY DEF Part, Bit
<1> QED  BY <1>1 DEF MacA, milenage_f1

LEMMA NumberOfZero == Number(0) = {} /\ Value({}) = 0
<1>1. \A b \in 0..15 : Weight(b) \in Nat \ {0}
  BY DEF Weight, Powers
<1>2. \A m \in Nat \ {0} : (0 \div m) % 2 = 0
  OBVIOUS
<1>3. Number(0) = {}
  BY <1>1, <1>2 DEF Number
<1>4. Value({}) = 0
  BY DEF Value, MapThenSumSet, MapThenFoldSet
<1> QED  BY <1>3, <1>4

\* The UE accepts nothing but an unaltered challenge, of a network with its key,
\* with a sequence number above its own.
LEMMA GenuineMeans ==
  ASSUME NEW kind \in Kinds, NEW c \in Challenges, Genuine(kind, c)
  PROVE  kind = "usim" /\ c.flip = NoFlip /\ c.sqn # 0
<1> DEFINE autn == Vector(kind, c).autn
           sent == Autn(kind, c)
           mac == MacA(Ki(kind), c, Number(c.sqn), Amf)
           f == milenage_f2345(usim_key, Ki(kind), Random(c.rand))
<1>1. autn = [sqn_ak |-> Xor(Number(c.sqn), f.ak), amf |-> Amf, mac |-> mac]
  BY DEF Vector, milenage_generate, MacA
<1>2. c.flip = NoFlip \/ (c.flip[1] \in {"sqn_ak", "amf", "mac"} /\ c.flip # NoFlip)
  BY AKAAssumption DEF Challenges, NoFlip
<1>3. MacA(usim_opc, c, RxSqn(kind, c), sent.amf) = sent.mac
  BY DEF Genuine
<1>4. c.flip = NoFlip => sent = autn
  BY DEF Autn
<1>5. c.flip # NoFlip => sent = [autn EXCEPT ![c.flip[1]] = Xor(@, {Bit(c.flip[2])})]
  BY DEF Autn
<1>6. RxSqn(kind, c) = Xor(sent.sqn_ak, Ue(c).ak)
  BY DEF RxSqn
<1> HIDE DEF autn, sent, mac, f
<1>7. sent.mac = mac
  <2>1. CASE c.flip # NoFlip /\ c.flip[1] = "mac"
    <3>1. sent.mac = Xor(mac, {Bit(c.flip[2])})
      BY <1>1, <1>5, <2>1
    <3>2. Bit(c.flip[2]) \notin mac /\ Bit(c.flip[2]) \notin sent.mac
      BY <1>3, MacUnknown DEF mac
    <3> QED  BY <3>1, <3>2 DEF Xor, SymDiff
  <2>2. CASE c.flip = NoFlip \/ c.flip[1] # "mac"
    BY <1>1, <1>2, <1>4, <1>5, <2>2
  <2> QED  BY <2>1, <2>2
<1>8. usim_opc = Ki(kind) /\ RxSqn(kind, c) = Number(c.sqn) /\ sent.amf = Amf
  BY <1>3, <1>7, MacDetermines DEF mac
<1>9. kind = "usim"
  <2>1. {<<"block", "other_opc">>} # {<<"block", "usim_opc">>}
    <3>1. <<"block", "other_opc">> # <<"block", "usim_opc">>
      OBVIOUS
    <3>2. \A x, y : {x} = {y} => x = y
      BY Zenon
    <3> QED  BY <3>1, <3>2, Zenon
  <2>2. Block("other_opc") # usim_opc
    BY <2>1 DEF usim_opc, Block
  <2> QED  BY <1>8, <2>2 DEF Kinds, Ki
<1>10. f = Ue(c)
  BY <1>9 DEF f, Ue, Ki
<1>11. c.flip = NoFlip
  <2> SUFFICES ASSUME c.flip # NoFlip PROVE FALSE
    OBVIOUS
  <2>1. CASE c.flip[1] = "mac"
    <3>1. sent.mac = Xor(mac, {Bit(c.flip[2])})
      BY <1>1, <1>5, <2>1
    <3> QED  BY <3>1, <1>7, XorChanges
  <2>2. CASE c.flip[1] = "amf"
    <3>1. sent.amf = Xor(Amf, {Bit(c.flip[2])})
      BY <1>1, <1>5, <2>2
    <3> QED  BY <3>1, <1>8, XorChanges
  <2>3. CASE c.flip[1] = "sqn_ak"
    <3>1. sent.sqn_ak = Xor(Xor(Number(c.sqn), f.ak), {Bit(c.flip[2])})
      BY <1>1, <1>5, <2>3
    <3>2. Number(c.sqn) = Xor(sent.sqn_ak, f.ak)
      BY <1>6, <1>8, <1>10
    <3>3. sent.sqn_ak = Xor(Number(c.sqn), f.ak)
      BY <3>2 DEF Xor, SymDiff
    <3> QED  BY <3>1, <3>3, XorChanges
  <2> QED  BY <1>2, <2>1, <2>2, <2>3
<1>12. c.sqn # 0
  <2> SUFFICES ASSUME c.sqn = 0 PROVE FALSE
    OBVIOUS
  <2>1. RxSqn(kind, c) = {} /\ my_sqn = {}
    BY <1>8, NumberOfZero DEF my_sqn
  <2>2. memcmp_le({}, {}) = {TRUE}
    <3>1. Known({})
      BY DEF Known
    <3>2. memcmp_le({}, {}) = {0 <= 0}
      BY <3>1, NumberOfZero, Zenon DEF memcmp_le
    <3>3. (0 <= 0) = TRUE
      OBVIOUS
    <3> QED  BY <3>2, <3>3, Zenon
  <2>3. FALSE \in memcmp_le({}, {})
    BY <2>1 DEF Genuine
  <2> QED  BY <2>2, <2>3
<1> QED  BY <1>9, <1>11, <1>12

\* The network finds the UE's sequence number, 0, in its AUTS, and nothing when it
\* holds another key.
LEMMA ResyncMeans ==
  ASSUME NEW kind \in Kinds, NEW c, NEW n, n = Random(c.rand),
         milenage_auts(usim_key, Ki(kind), n, Resync(c)).rc = 0
  PROVE  Value(milenage_auts(usim_key, Ki(kind), n, Resync(c)).sqn) = 0
<1> DEFINE f == milenage_f2345(usim_key, Ki(kind), n)
           sqn == Xor(Resync(c).sqn_ak, f.akstar)
           a == milenage_auts(usim_key, Ki(kind), n, Resync(c))
<1>1. /\ a.rc = IF MacS(Ki(kind), c, sqn, ResyncAmf) = Resync(c).mac THEN 0 ELSE -1
      /\ a.sqn = sqn
  BY DEF milenage_auts, MacS
<1>2. MacS(Ki(kind), c, sqn, ResyncAmf) = MacS(usim_opc, c, my_sqn, ResyncAmf)
  <2>1. Resync(c).mac = MacS(usim_opc, c, my_sqn, ResyncAmf)
    BY DEF Resync
  <2>2. a.rc = 0 /\ 0 # -1
    OBVIOUS
  <2> HIDE DEF a, sqn
  <2> QED  BY <1>1, <2>1, <2>2
<1>3. sqn = my_sqn
  <2> HIDE DEF sqn
  <2> QED  BY <1>2, MacDetermines
<1> QED  BY <1>1, <1>3, NumberOfZero DEF my_sqn

-----------------------------------------------------------------------------
(* What each side makes of a challenge. *)

UeMakes(kind, c) == g_keys(Ue(c).ck, Ue(c).ik, Ue(c).res, Random(c.rand), Autn(kind, c))

Answered(kind, c) == \E r \in Handled : r.kind = kind /\ r.of = c /\ r.rc = 0
Stale(kind, c) == \E r \in Handled : r.kind = kind /\ r.of = c /\ r.rc = -2

LEMMA HandledIs ==
  ASSUME NEW r \in Handled
  PROVE  /\ r.kind \in Kinds /\ r.of \in Challenges
         /\ r.keys = UeMakes(r.kind, r.of)
         /\ r.rc = -2 => r.auts = Resync(r.of)
         /\ r.rc = 0 => Genuine(r.kind, r.of)
<1>1. PICK kind \in Kinds, c \in Challenges :
        r \in {[kind |-> kind, of |-> c, rc |-> q.rc, auts |-> q.auts,
               keys |-> g_keys(q.ck, q.ik, q.res, Random(c.rand), Autn(kind, c))] :
                q \in Checked(kind, c)}
  BY DEF Handled
<1>2. PICK q \in Checked(kind, c) :
        r = [kind |-> kind, of |-> c, rc |-> q.rc, auts |-> q.auts,
             keys |-> g_keys(q.ck, q.ik, q.res, Random(c.rand), Autn(kind, c))]
  BY <1>1
<1>3. /\ r.kind = kind /\ r.of = c /\ r.rc = q.rc /\ r.auts = q.auts
      /\ r.keys = g_keys(q.ck, q.ik, q.res, Random(c.rand), Autn(kind, c))
  BY <1>2
<1>4. /\ q.ck = Ue(c).ck /\ q.ik = Ue(c).ik /\ q.res = Ue(c).res
      /\ q.rc = -2 => q.auts = Resync(c)
      /\ q.rc = 0 => Genuine(kind, c)
  BY CheckedIs
<1>5. r.keys = UeMakes(kind, c)
  BY <1>3, <1>4 DEF UeMakes
<1> QED  BY <1>3, <1>4, <1>5

\* The AUTS of a message is the one milenage_check wrote.
LEMMA AutsIs ==
  ASSUME NEW kind, NEW c, Stale(kind, c)
  PROVE  UeAuts(kind, c) = Resync(c)
<1> DEFINE r == CHOOSE r \in Handled : r.kind = kind /\ r.of = c /\ r.rc = -2
<1>1. r \in Handled /\ r.kind = kind /\ r.of = c /\ r.rc = -2
  BY DEF Stale
<1>2. UeAuts(kind, c) = r.auts
  BY DEF UeAuts
<1> HIDE DEF r
<1> QED  BY <1>1, <1>2, HandledIs

\* What the network derives from its own vector.
LEMMA NetworkKeysAre ==
  ASSUME NEW kind \in Kinds, NEW c \in Challenges
  PROVE  NetworkKeys(kind, c) =
           LET v == Vector(kind, c) IN g_keys(v.ck, v.ik, v.res, Random(c.rand), v.autn)
<1> DEFINE e == CHOOSE e \in Expected : e.kind = kind /\ e.of = c
           Ours(k, d) == [kind |-> k, of |-> d,
                          keys |-> LET v == Vector(k, d)
                                   IN  g_keys(v.ck, v.ik, v.res, Random(d.rand), v.autn)]
<1>1. Expected = {Ours(k, d) : k \in Kinds, d \in Challenges}
  BY DEF Expected
<1>2. NetworkKeys(kind, c) = e.keys
  BY DEF NetworkKeys
<1>3. \A k, d : Ours(k, d).kind = k /\ Ours(k, d).of = d
  OBVIOUS
<1>4. Ours(kind, c).keys = LET v == Vector(kind, c) IN g_keys(v.ck, v.ik, v.res, Random(c.rand), v.autn)
  OBVIOUS
<1> HIDE DEF Ours
<1>5. e \in Expected /\ e.kind = kind /\ e.of = c
  <2>1. Ours(kind, c) \in Expected
    BY <1>1
  <2> QED  BY <1>3, <2>1
<1> HIDE DEF e
<1>6. PICK k \in Kinds, d \in Challenges : e = Ours(k, d)
  BY <1>1, <1>5
<1>7. e = Ours(kind, c)
  BY <1>3, <1>5, <1>6
<1> QED  BY <1>2, <1>4, <1>7

\* Both sides make the same of a challenge the UE answers.
LEMMA AnsweredMeans ==
  ASSUME NEW kind, NEW c, Answered(kind, c)
  PROVE  /\ kind = "usim" /\ c \in Challenges /\ c.flip = NoFlip /\ c.sqn # 0
         /\ UeKeys(kind, c) = NetworkKeys(kind, c)
<1>1. PICK a \in Handled : a.kind = kind /\ a.of = c /\ a.rc = 0
  BY DEF Answered
<1>2. kind \in Kinds /\ c \in Challenges /\ Genuine(kind, c)
  BY <1>1, HandledIs
<1>3. kind = "usim" /\ c.flip = NoFlip /\ c.sqn # 0
  BY <1>2, GenuineMeans
<1>4. UeKeys(kind, c) = UeMakes(kind, c)
  <2> DEFINE r == CHOOSE r \in Handled : r.kind = kind /\ r.of = c
  <2>1. r \in Handled /\ r.kind = kind /\ r.of = c
    BY <1>1
  <2>2. UeKeys(kind, c) = r.keys
    BY DEF UeKeys
  <2> HIDE DEF r
  <2> QED  BY <2>1, <2>2, HandledIs
<1>5. NetworkKeys(kind, c) =
        LET v == Vector(kind, c) IN g_keys(v.ck, v.ik, v.res, Random(c.rand), v.autn)
  BY <1>2, NetworkKeysAre
<1>6. /\ Vector(kind, c).ck = Ue(c).ck /\ Vector(kind, c).ik = Ue(c).ik
      /\ Vector(kind, c).res = Ue(c).res
  BY <1>3 DEF Vector, milenage_generate, Ue, Ki
<1>7. Vector(kind, c).autn = Autn(kind, c)
  BY <1>3 DEF Autn
<1>8. UeMakes(kind, c) = NetworkKeys(kind, c)
  BY <1>5, <1>6, <1>7 DEF UeMakes
<1> QED  BY <1>2, <1>3, <1>4, <1>8

-----------------------------------------------------------------------------
(* The keys derived from one challenge. *)

\* The first word of an atom says how it was made.
Made(x, how) == x # {} /\ \A a \in x : a[1] = how

LEMMA MadeOnce ==
  ASSUME NEW x, NEW h1, NEW h2, Made(x, h1), Made(x, h2)
  PROVE  h1 = h2
  BY DEF Made

\* A key of a derivation function: its function code and first parameter.
Input(fc, p, s) == s[1] = fc /\ s[2] = p
Derived(x, fc, p) == \E k, s : x = {<<"hmac", k, s>>} /\ Input(fc, p, s)
UpperHalf(x, fc, p) == \E h : x = {<<"upper", h>>} /\ Derived({h}, fc, p)

LEMMA DerivedOnce ==
  ASSUME NEW x, NEW f1, NEW p1, NEW f2, NEW p2,
         \/ Derived(x, f1, p1) /\ Derived(x, f2, p2)
         \/ UpperHalf(x, f1, p1) /\ UpperHalf(x, f2, p2)
  PROVE  f1 = f2 /\ p1 = p2
<1>1. \A k1, s1, k2, s2 : {<<"hmac", k1, s1>>} = {<<"hmac", k2, s2>>} => s1 = s2
  <2> TAKE k1, s1, k2, s2
  <2> HAVE {<<"hmac", k1, s1>>} = {<<"hmac", k2, s2>>}
  <2>1. <<"hmac", k1, s1>> = <<"hmac", k2, s2>>
    BY Zenon
  <2> QED  BY <2>1
<1>2. \A y, g1, q1, g2, q2 : Derived(y, g1, q1) /\ Derived(y, g2, q2) => g1 = g2 /\ q1 = q2
  <2>1. \A s, g1, q1, g2, q2 : Input(g1, q1, s) /\ Input(g2, q2, s) => g1 = g2 /\ q1 = q2
    BY DEF Input
  <2> TAKE y, g1, q1, g2, q2
  <2> HAVE Derived(y, g1, q1) /\ Derived(y, g2, q2)
  <2>2. PICK k1, s1 : y = {<<"hmac", k1, s1>>} /\ Input(g1, q1, s1)
    BY DEF Derived
  <2>3. PICK k2, s2 : y = {<<"hmac", k2, s2>>} /\ Input(g2, q2, s2)
    BY DEF Derived
  <2>4. s1 = s2
    BY <1>1, <2>2, <2>3, Zenon
  <2> QED  BY <2>1, <2>2, <2>3, <2>4, Zenon
<1>3. \A h1, h2 : {<<"upper", h1>>} = {<<"upper", h2>>} => h1 = h2
  <2> TAKE h1, h2
  <2> HAVE {<<"upper", h1>>} = {<<"upper", h2>>}
  <2>1. <<"upper", h1>> = <<"upper", h2>>
    BY Zenon
  <2> QED  BY <2>1
<1>4. CASE UpperHalf(x, f1, p1) /\ UpperHalf(x, f2, p2)
  BY <1>2, <1>3, <1>4, Zenon DEF UpperHalf
<1> QED  BY <1>2, <1>4

LEMMA DerivedMade ==
  ASSUME NEW x, NEW fc, NEW p
  PROVE  /\ Derived(x, fc, p) => Made(x, "hmac")
         /\ UpperHalf(x, fc, p) => Made(x, "upper")
<1>1. \A k, s : Made({<<"hmac", k, s>>}, "hmac")
  BY DEF Made
<1>2. \A a : Made({<<"upper", a>>}, "upper")
  BY DEF Made
<1> QED  BY <1>1, <1>2, Zenon DEF Derived, UpperHalf

\* What is hashed begins with the function code and the first parameter.
LEMMA InputIs ==
  ASSUME NEW fc, NEW p, NEW l
  PROVE  Input(fc, p, <<fc>> \o Param(p, l))
  BY DEF Input, Param

LEMMA InputGoesOn ==
  ASSUME NEW fc, NEW p, NEW l, NEW p2, NEW l2
  PROVE  LET s == <<fc>> \o Param(p, l) \o Param(p2, l2)
         IN  s \in Seq({fc, p, l, p2, l2}) /\ Len(s) = 5 /\ Input(fc, p, s)
<1> DEFINE S == {fc, p, l, p2, l2}
           a == <<fc>> \o Param(p, l)
           b == Param(p2, l2)
<1>1. a \in Seq(S) /\ Len(a) = 3 /\ Input(fc, p, a)
  BY DEF Input, Param
<1>2. b \in Seq(S) /\ Len(b) = 2
  BY DEF Param
<1> HIDE DEF S, a, b
<1>3. a \o b \in Seq(S) /\ Len(a \o b) = 5 /\ Input(fc, p, a \o b)
  <2>1. /\ a \o b \in Seq(S) /\ Len(a \o b) = Len(a) + Len(b)
        /\ \A i \in 1..Len(a) + Len(b) :
             (a \o b)[i] = IF i <= Len(a) THEN a[i] ELSE b[i - Len(a)]
    BY <1>1, <1>2, ConcatProperties
  <2>2. (a \o b)[1] = a[1] /\ (a \o b)[2] = a[2]
    BY <1>1, <1>2, <2>1
  <2> QED  BY <1>1, <1>2, <2>1, <2>2 DEF Input
<1> QED  BY <1>3 DEF S, a, b

LEMMA InputGoesFurther ==
  ASSUME NEW fc, NEW p, NEW l, NEW p2, NEW l2, NEW p3, NEW l3
  PROVE  Input(fc, p, <<fc>> \o Param(p, l) \o Param(p2, l2) \o Param(p3, l3))
<1> DEFINE S == {fc, p, l, p2, l2, p3, l3}
           a == <<fc>> \o Param(p, l) \o Param(p2, l2)
           b == Param(p3, l3)
<1>1. a \in Seq(S) /\ Len(a) = 5 /\ Input(fc, p, a)
  <2>1. a \in Seq({fc, p, l, p2, l2}) /\ Len(a) = 5 /\ Input(fc, p, a)
    BY InputGoesOn
  <2> HIDE DEF a
  <2>2. {fc, p, l, p2, l2} \subseteq S
    OBVIOUS
  <2> HIDE DEF S
  <2> QED  BY <2>1, <2>2
<1>2. b \in Seq(S) /\ Len(b) = 2
  BY DEF Param
<1> HIDE DEF S, a, b
<1>3. Input(fc, p, a \o b)
  <2>1. /\ a \o b \in Seq(S) /\ Len(a \o b) = Len(a) + Len(b)
        /\ \A i \in 1..Len(a) + Len(b) :
             (a \o b)[i] = IF i <= Len(a) THEN a[i] ELSE b[i - Len(a)]
    BY <1>1, <1>2, ConcatProperties
  <2>2. (a \o b)[1] = a[1] /\ (a \o b)[2] = a[2]
    BY <1>1, <1>2, <2>1
  <2> QED  BY <1>1, <1>2, <2>1, <2>2 DEF Input
<1> QED  BY <1>3 DEF a, b

\* The outputs of f2 to f5: a block of the cipher each, on an input of its own.
OutInput(k, c, r, n) ==
  Xor(Rotated(Xor(Temp(usim_key, k, Random(c.rand)), usim_key), r), Number(n))
Out(k, c, r, n) == {Aes(k, OutInput(k, c, r, n)), Opc}

LEMMA OutputsAre ==
  ASSUME NEW k, NEW c
  PROVE  LET f == milenage_f2345(usim_key, k, Random(c.rand))
         IN  /\ f.res = Part(Out(k, c, 0, 1), 8, 8)
             /\ f.ak = Part(Out(k, c, 0, 1), 0, 6)
             /\ f.ck = Out(k, c, 12, 2)
             /\ f.ik = Out(k, c, 8, 4)
             /\ f.akstar = Part(Out(k, c, 4, 8), 0, 6)
<1>1. \A i : Xor({Aes(k, i)}, {Opc}) = {Aes(k, i), Opc}
  <2> TAKE i
  <2>1. Aes(k, i) # Opc
    BY DEF Aes, Opc
  <2> QED  BY <2>1 DEF Xor, SymDiff
<1>2. usim_key = {Opc}
  BY DEF usim_key, Block, Opc
<1>3. \A r, n : Xor(aes_128_encrypt_block(k, OutInput(k, c, r, n)), usim_key) = Out(k, c, r, n)
  BY <1>1, <1>2 DEF aes_128_encrypt_block, Out, Aes
<1> QED  BY <1>3 DEF milenage_f2345, OutInput

LEMMA NumberBits ==
  /\ Bit(0) \in Number(1) /\ Bit(0) \notin Number(8)
  /\ Bit(1) \in Number(2) /\ Bit(1) \notin Number(4)
<1>1. Weight(0) = 1 /\ Weight(1) = 2
  BY DEF Weight, Powers
<1>2. \A a, b : Bit(a) = Bit(b) => a = b
  BY DEF Bit
<1>3. \A n, b : Bit(b) \in Number(n) <=> b \in 0..15 /\ (n \div Weight(b)) % 2 = 1
  BY <1>2 DEF Number
<1>4. (1 \div 1) % 2 = 1 /\ (8 \div 1) % 2 = 0 /\ (2 \div 2) % 2 = 1 /\ (4 \div 2) % 2 = 0
  OBVIOUS
<1> QED  BY <1>1, <1>3, <1>4

LEMMA InputsDiffer ==
  ASSUME NEW k, NEW c
  PROVE  /\ OutInput(k, c, 12, 2) # OutInput(k, c, 8, 4)
         /\ OutInput(k, c, 0, 1) # OutInput(k, c, 4, 8)
<1> DEFINE t == Xor(Temp(usim_key, k, Random(c.rand)), usim_key)
<1>1. \A b : Bit(b) \notin t
  BY DEF Temp, aes_128_encrypt_block, usim_key, Block, Bit, Xor, SymDiff
<1>2. /\ \A b : Bit(b) \notin Rotated(t, 12) /\ Bit(b) \notin Rotated(t, 8)
                /\ Bit(b) \notin Rotated(t, 4)
      /\ Rotated(t, 0) = t
  BY DEF Rotated, Bit
<1> HIDE DEF t
<1>3. /\ Bit(1) \in Xor(Rotated(t, 12), Number(2)) /\ Bit(1) \notin Xor(Rotated(t, 8), Number(4))
      /\ Bit(0) \in Xor(Rotated(t, 0), Number(1)) /\ Bit(0) \notin Xor(Rotated(t, 4), Number(8))
  BY <1>1, <1>2, NumberBits DEF Xor, SymDiff
<1> QED  BY <1>3 DEF OutInput, t

LEMMA OutsDiffer ==
  ASSUME NEW k, NEW i1, NEW i2, i1 # i2
  PROVE  Aes(k, i1) # Aes(k, i2) /\ Aes(k, i1) # Opc
  BY DEF Aes, Opc
\* Parts of a block, by offset and length.
AllParts(x, first, length) == \A a \in x : a[3] = first /\ a[4] = length

LEMMA PartIs ==
  ASSUME NEW x, x # {}, NEW first, NEW length
  PROVE  /\ Made(Part(x, first, length), "part")
         /\ AllParts(Part(x, first, length), first, length)
         /\ \A a : <<"part", a, first, length>> \in Part(x, first, length) <=> a \in x
<1>1. \A a : <<"part", a, first, length>> \in Part(x, first, length) <=> a \in x
  <2>1. \A a, b : <<"part", a, first, length>> = <<"part", b, first, length>> => a = b
    OBVIOUS
  <2> QED  BY <2>1 DEF Part
<1>2. \A a \in Part(x, first, length) : a[1] = "part" /\ a[3] = first /\ a[4] = length
  BY DEF Part
<1>3. Part(x, first, length) # {}
  BY <1>1
<1> QED  BY <1>1, <1>2, <1>3 DEF Made, AllParts

\* SRES: quarters of a block.  Kc: what the halves of CK and IK do not share.
Quarters(x) == Made(x, "part") /\ \A a \in x : a[4] = 4
Halves(x) == Made(x, "part") /\ \E a \in x : a[3] = 0 /\ a[4] = 8

LEMMA XorOfParts ==
  ASSUME NEW x, NEW y, \A a \in x \cup y : a[1] = "part"
  PROVE  \A a \in Xor(x, y) : a[1] = "part"
  BY DEF Xor, SymDiff

LEMMA GsmIs ==
  ASSUME NEW k, NEW c
  PROVE  LET g == gsm_milenage(usim_key, k, Random(c.rand))
         IN  Quarters(g.sres) /\ Halves(g.kc)
<1> DEFINE f == milenage_f2345(usim_key, k, Random(c.rand))
           g == gsm_milenage(usim_key, k, Random(c.rand))
           Folded(x, n) == Xor(Part(x, 0, n), Part(x, n, n))
<1>1. g.kc = Xor(Folded(f.ck, 8), Folded(f.ik, 8)) /\ g.sres = Folded(f.res, 4)
  BY DEF gsm_milenage
<1>2. /\ f.res = Part(Out(k, c, 0, 1), 8, 8)
      /\ f.ck = Out(k, c, 12, 2) /\ f.ik = Out(k, c, 8, 4)
  BY OutputsAre
<1> HIDE DEF f, g
<1>3. f.res # {} /\ f.ck # {} /\ f.ik # {}
  BY <1>2, PartIs DEF Out, Made
<1>4. \A x, n : \A a \in Folded(x, n) : a[1] = "part"
  BY DEF Part, Xor, SymDiff
<1>5. Quarters(g.sres)
  <2>1. PICK b : b \in f.res
    BY <1>3
  <2>2. <<"part", b, 0, 4>> \in Part(f.res, 0, 4)
    BY <2>1, <1>3, PartIs
  <2>3. <<"part", b, 0, 4>> \notin Part(f.res, 4, 4)
    <3>1. \A a \in Part(f.res, 4, 4) : a[3] = 4
      BY DEF Part
    <3> QED  BY <3>1
  <2>4. Folded(f.res, 4) # {}
    BY <2>2, <2>3 DEF Xor, SymDiff
  <2>5. \A a \in Folded(f.res, 4) : a[4] = 4
    BY DEF Part, Xor, SymDiff
  <2> QED  BY <1>1, <1>4, <2>4, <2>5 DEF Quarters, Made
<1>6. Halves(g.kc)
  <2> DEFINE b == Aes(k, OutInput(k, c, 12, 2))
             p == <<"part", b, 0, 8>>
  <2>1. b \in f.ck /\ b \notin f.ik
    BY <1>2, InputsDiffer, OutsDiffer DEF Out
  <2> HIDE DEF b
  <2>2. p \in Part(f.ck, 0, 8) /\ p \notin Part(f.ik, 0, 8)
    BY <2>1, <1>3, PartIs
  <2>3. p \notin Part(f.ck, 8, 8) /\ p \notin Part(f.ik, 8, 8)
    <3>1. \A x : \A a \in Part(x, 8, 8) : a[3] = 8
      BY DEF Part
    <3> QED  BY <3>1
  <2> HIDE DEF p
  <2>4. p \in Xor(Folded(f.ck, 8), Folded(f.ik, 8))
    BY <2>2, <2>3 DEF Xor, SymDiff
  <2>5. p[3] = 0 /\ p[4] = 8
    BY DEF p
  <2>6. \A a \in Xor(Folded(f.ck, 8), Folded(f.ik, 8)) : a[1] = "part"
    <3> HIDE DEF Folded
    <3> QED  BY <1>4, XorOfParts
  <2> QED  BY <1>1, <2>4, <2>5, <2>6 DEF Halves, Made
<1> QED  BY <1>5, <1>6 DEF g
LEMMA DerivedAre ==
  ASSUME NEW kind \in Kinds, NEW c \in Challenges, NEW kasme
  PROVE  LET k == NetworkKeys(kind, c)
         IN  /\ Derived(k.kausf, 106, ssn.name)
             /\ Derived(k.kseaf, 108, ssn.name)
             /\ Derived(k.kamf, 109, imsi.name)
             /\ Derived(k.k_nas_int, 105, 2)
             /\ Derived(k.k_nas_enc, 105, 1)
             /\ UpperHalf(k.res_star, 107, ssn.name)
             /\ UpperHalf(f__kdf__nas__int(1, kasme), 21, 2)
             /\ UpperHalf(f__kdf__nas__enc(1, kasme), 21, 1)
             /\ \A n : Derived(mme_kdf_enb(kasme, n), 17, n)
             /\ \A n : Derived(mme_kdf_nh(kasme, n), 18, n)
             /\ \A n : Derived(mme_kdf_nas_token(kasme, n), 23, n)
             /\ \A ck, ik, sqn, ak : Derived(hss_auc_kasme(ck, ik, "plmn", sqn, ak), 16, "plmn")
<1> DEFINE k == NetworkKeys(kind, c)
           v == Vector(kind, c)
<1>a. \A key, fc, p, l : Derived(gnutls_hmac_fast(key, <<fc>> \o Param(p, l)), fc, p)
  BY InputIs DEF Derived, gnutls_hmac_fast
<1>b. \A key, fc, p, l, p2, l2 :
        Derived(gnutls_hmac_fast(key, <<fc>> \o Param(p, l) \o Param(p2, l2)), fc, p)
  BY InputGoesOn DEF Derived, gnutls_hmac_fast
<1>c. \A h : Upper({h}) = {<<"upper", h>>}
  BY DEF Upper
<1>d. \A key, s, fc, p : Input(fc, p, s) => UpperHalf(Upper(gnutls_hmac_fast(key, s)), fc, p)
  <2>1. \A h : Upper({h}) = {<<"upper", h>>}
    BY DEF Upper
  <2> QED  BY <2>1, Zenon DEF UpperHalf, Derived, gnutls_hmac_fast
<1>1. k = g_keys(v.ck, v.ik, v.res, Random(c.rand), v.autn)
  BY NetworkKeysAre
<1> HIDE DEF k, v
<1>2. /\ k.kausf = kdf_kausf(v.ck, v.ik, ssn, v.autn)
      /\ k.kseaf = kdf_kseaf(k.kausf, ssn)
      /\ k.kamf = kdf_kamf(k.kseaf, imsi, abba)
      /\ k.k_nas_int = kdf_ng_nas_algo(k.kamf, NasInt, 1)
      /\ k.k_nas_enc = kdf_ng_nas_algo(k.kamf, NasEnc, 0)
      /\ k.res_star = kdf_xres_star(ssn, v.ck, v.ik, Random(c.rand), v.res)
  BY <1>1 DEF g_keys
<1>3. Derived(k.kausf, 106, ssn.name)
  BY <1>2, <1>b DEF kdf_kausf
<1>4. Derived(k.kseaf, 108, ssn.name)
  BY <1>2, <1>a DEF kdf_kseaf
<1>5. Derived(k.kamf, 109, imsi.name)
  BY <1>2, <1>b DEF kdf_kamf
<1>6. Derived(k.k_nas_int, 105, 2) /\ Derived(k.k_nas_enc, 105, 1)
  BY <1>2, <1>b DEF kdf_ng_nas_algo, NasInt, NasEnc
<1>7. UpperHalf(k.res_star, 107, ssn.name)
  BY <1>2, <1>d, InputGoesFurther DEF kdf_xres_star
<1>8. UpperHalf(f__kdf__nas__int(1, kasme), 21, 2) /\ UpperHalf(f__kdf__nas__enc(1, kasme), 21, 1)
  BY <1>d, InputGoesOn DEF f__kdf__nas__int, f__kdf__nas__enc, mme_kdf_nas, NasInt, NasEnc
<1>9. /\ \A n : Derived(mme_kdf_enb(kasme, n), 17, n)
      /\ \A n : Derived(mme_kdf_nh(kasme, n), 18, n)
      /\ \A n : Derived(mme_kdf_nas_token(kasme, n), 23, n)
  BY <1>a DEF mme_kdf_enb, mme_kdf_nh, mme_kdf_nas_token
<1>10. \A ck, ik, sqn, ak : Derived(hss_auc_kasme(ck, ik, "plmn", sqn, ak), 16, "plmn")
  BY <1>b DEF hss_auc_kasme
<1> QED  BY <1>3, <1>4, <1>5, <1>6, <1>7, <1>8, <1>9, <1>10 DEF k

LEMMA AllKeysDiffer ==
  ASSUME NEW kind \in Kinds, NEW c \in Challenges
  PROVE  IsInjective(AllKeys(kind, c))
<1> DEFINE T == AllKeys(kind, c)
           f == milenage_f2345(usim_key, Ki(kind), Random(c.rand))
           g == gsm_milenage(usim_key, Ki(kind), Random(c.rand))
           a == hss_auc_kasme(f.ck, f.ik, "plmn", Number(c.sqn), f.ak)
           k == NetworkKeys(kind, c)
           BlockOf(x) == \E b \in x : b[1] = "aes"
<1>1. /\ DOMAIN T = 1..21
      /\ T[1] = f.ck /\ T[2] = f.ik /\ T[3] = f.res /\ T[4] = f.ak /\ T[5] = f.akstar
      /\ T[6] = g.kc /\ T[7] = g.sres /\ T[8] = k.kausf /\ T[9] = k.kseaf /\ T[10] = k.kamf
      /\ T[11] = k.k_nas_int /\ T[12] = k.k_nas_enc /\ T[13] = k.res_star /\ T[14] = a
      /\ T[15] = f__kdf__nas__int(1, a) /\ T[16] = f__kdf__nas__enc(1, a)
      /\ T[17] = mme_kdf_enb(a, 0) /\ T[18] = mme_kdf_enb(a, 1)
      /\ T[19] = mme_kdf_nh(a, mme_kdf_enb(a, 0))
      /\ T[20] = mme_kdf_nas_token(a, 0) /\ T[21] = mme_kdf_nas_token(a, 1)
  <2> HIDE DEF f, g, a, k
  <2>1. T = <<f.ck, f.ik, f.res, f.ak, f.akstar, g.kc, g.sres, k.kausf, k.kseaf, k.kamf,
              k.k_nas_int, k.k_nas_enc, k.res_star, a, f__kdf__nas__int(1, a),
              f__kdf__nas__enc(1, a), mme_kdf_enb(a, 0), mme_kdf_enb(a, 1),
              mme_kdf_nh(a, mme_kdf_enb(a, 0)),
              mme_kdf_nas_token(a, 0), mme_kdf_nas_token(a, 1)>>
    BY DEF AllKeys, f, g, a, k
  <2> HIDE DEF T
  <2> QED  BY <2>1
<1>2. /\ Derived(T[8], 106, ssn.name) /\ Derived(T[9], 108, ssn.name)
      /\ Derived(T[10], 109, imsi.name) /\ Derived(T[11], 105, 2) /\ Derived(T[12], 105, 1)
      /\ Derived(T[17], 17, 0) /\ Derived(T[18], 17, 1)
      /\ Derived(T[19], 18, mme_kdf_enb(a, 0))
      /\ Derived(T[20], 23, 0) /\ Derived(T[21], 23, 1)
      /\ UpperHalf(T[13], 107, ssn.name) /\ UpperHalf(T[15], 21, 2) /\ UpperHalf(T[16], 21, 1)
  <2> HIDE DEF T, f, g, a
  <2> QED  BY <1>1, DerivedAre
<1>3. Derived(T[14], 16, "plmn")
  <2> HIDE DEF T, f, g
  <2> QED  BY <1>1, DerivedAre DEF a
<1> DEFINE o(r, n) == Out(Ki(kind), c, r, n)
<1>4. /\ T[1] = o(12, 2) /\ T[2] = o(8, 4) /\ T[3] = Part(o(0, 1), 8, 8)
      /\ T[4] = Part(o(0, 1), 0, 6) /\ T[5] = Part(o(4, 8), 0, 6)
  <2>1. /\ f.res = Part(o(0, 1), 8, 8) /\ f.ak = Part(o(0, 1), 0, 6) /\ f.ck = o(12, 2)
        /\ f.ik = o(8, 4) /\ f.akstar = Part(o(4, 8), 0, 6)
    BY OutputsAre
  <2> HIDE DEF T, f, g, a, k, o
  <2> QED  BY <1>1, <2>1, Zenon
<1>5. Halves(T[6]) /\ Quarters(T[7])
  <2>1. Halves(g.kc) /\ Quarters(g.sres)
    BY GsmIs
  <2> HIDE DEF T, f, g, a, k, o
  <2> QED  BY <1>1, <2>1, Zenon
<1> HIDE DEF T, f, g, a, k
\* The outputs of the cipher.
<1>6. \A r, n : Aes(Ki(kind), OutInput(Ki(kind), c, r, n)) \in o(r, n) /\ o(r, n) # {}
  BY DEF Out
<1>7. BlockOf(T[1]) /\ BlockOf(T[2]) /\ T[1] # T[2]
  <2>1. BlockOf(T[1]) /\ BlockOf(T[2])
    <3>1. \A q, i : Aes(q, i)[1] = "aes"
      BY DEF Aes
    <3> HIDE DEF o
    <3>2. /\ Aes(Ki(kind), OutInput(Ki(kind), c, 12, 2)) \in T[1]
          /\ Aes(Ki(kind), OutInput(Ki(kind), c, 8, 4)) \in T[2]
      BY <1>4, <1>6, Zenon
    <3> QED  BY <3>1, <3>2, Zenon
  <2>2. Aes(Ki(kind), OutInput(Ki(kind), c, 12, 2)) \notin o(8, 4)
    BY InputsDiffer, OutsDiffer DEF Out
  <2> QED  BY <1>4, <1>6, <2>1, <2>2
\* Their parts.
<1>8. \A i \in 3..7 : Made(T[i], "part")
  <2> HIDE DEF o
  <2>1. Made(T[3], "part") /\ Made(T[4], "part") /\ Made(T[5], "part")
    <3>1. \A x, n, l : x # {} => Made(Part(x, n, l), "part")
      BY PartIs
    <3> QED  BY <1>4, <1>6, <3>1, Zenon
  <2>2. Made(T[6], "part") /\ Made(T[7], "part")
    BY <1>5 DEF Halves, Quarters
  <2> QED  BY <2>1, <2>2
<1>9. \A i, j \in 3..7 : T[i] = T[j] => i = j
  <2> HIDE DEF o
  <2>1. AllParts(T[3], 8, 8) /\ AllParts(T[4], 0, 6) /\ AllParts(T[5], 0, 6)
    <3>1. \A x, n, l : x # {} => AllParts(Part(x, n, l), n, l)
      BY PartIs
    <3> QED  BY <1>4, <1>6, <3>1, Zenon
  <2>2. T[4] # T[5]
    <3> DEFINE b == Aes(Ki(kind), OutInput(Ki(kind), c, 0, 1))
    <3>1. b \in o(0, 1) /\ b \notin o(4, 8)
      BY InputsDiffer, OutsDiffer DEF Out, o
    <3> HIDE DEF b
    <3>2. <<"part", b, 0, 6>> \in T[4] /\ <<"part", b, 0, 6>> \notin T[5]
      BY <1>4, <1>6, <3>1, PartIs
    <3> QED  BY <3>2
  <2>3. \A i \in 3..7 : \E b : b \in T[i]
    BY <1>8 DEF Made
  <2>4. T[3] # T[4] /\ T[3] # T[5]
    BY <2>1, <2>3 DEF AllParts
  <2>5. T[6] # T[3] /\ T[6] # T[4] /\ T[6] # T[5] /\ T[6] # T[7]
    BY <2>1, <1>5 DEF AllParts, Halves, Quarters
  <2>6. T[7] # T[3] /\ T[7] # T[4] /\ T[7] # T[5]
    BY <2>1, <2>3, <1>5 DEF AllParts, Quarters
  <2> QED  BY <2>2, <2>4, <2>5, <2>6
\* The derived keys.
<1> DEFINE D == {8, 9, 10, 11, 12, 14, 17, 18, 19, 20, 21}
           U == {13, 15, 16}
<1>10. (\A i \in D : Made(T[i], "hmac")) /\ (\A i \in U : Made(T[i], "upper"))
  BY <1>2, <1>3, DerivedMade
<1>11. \A i, j \in D : T[i] = T[j] => i = j
  BY <1>2, <1>3, DerivedOnce
<1>12. \A i, j \in U : T[i] = T[j] => i = j
  <2>1. \A x, f1, p1, f2, p2 : UpperHalf(x, f1, p1) /\ UpperHalf(x, f2, p2) => f1 = f2 /\ p1 = p2
    BY DerivedOnce
  <2>2. UpperHalf(T[13], 107, ssn.name) /\ UpperHalf(T[15], 21, 2) /\ UpperHalf(T[16], 21, 1)
    BY <1>2
  <2>3. T[13] # T[15] /\ T[13] # T[16] /\ T[15] # T[16]
    BY <2>1, <2>2
  <2> QED  BY <2>3
<1>13. \A i, j \in 1..21 : T[i] = T[j] => i = j
  <2> TAKE i, j \in 1..21
  <2> HAVE T[i] = T[j]
  <2>1. \A n \in 1..21 : n \in {1, 2} \/ n \in 3..7 \/ n \in D \/ n \in U
    OBVIOUS
  <2>2. \A x, h : Made(x, h) /\ h # "aes" => ~BlockOf(x)
    BY DEF Made
  <2> HIDE DEF D, U, BlockOf
  <2>3. CASE i \in {1, 2}
    BY <1>7, <1>8, <1>10, <2>1, <2>2, <2>3
  <2>4. CASE i \in 3..7
    BY <1>7, <1>8, <1>9, <1>10, <2>1, <2>2, <2>4, MadeOnce
  <2>5. CASE i \in D
    BY <1>7, <1>8, <1>10, <1>11, <2>1, <2>2, <2>5, MadeOnce
  <2>6. CASE i \in U
    BY <1>7, <1>8, <1>10, <1>12, <2>1, <2>2, <2>6, MadeOnce
  <2> QED  BY <2>1, <2>3, <2>4, <2>5, <2>6
<1> QED  BY <1>1, <1>13 DEF IsInjective, T

-----------------------------------------------------------------------------
(* The exchange of messages. *)

\* The network's challenge, and what the UE was sent, which may be altered.
Sent(c) ==
  /\ net.of \in Challenges /\ net.of.flip = NoFlip
  /\ c \in Challenges /\ c.rand = net.of.rand /\ c.sqn = net.of.sqn

Quiet == dl = Nothing /\ ul = Nothing
Registering == dl = Nothing /\ ul = Message("registration request", NoChallenge)
Challenged ==
  /\ ul = Nothing /\ dl = Message("authentication request", dl.of)
  /\ Sent(dl.of) /\ net.at = "challenged"
Resynchronising ==
  /\ dl = Nothing /\ ul = Message("authentication failure", ul.of)
  /\ Sent(ul.of) /\ Stale(ke, ul.of)
Responding ==
  /\ dl = Nothing /\ ul = Message("authentication response", ue.of)
  /\ net.at = "challenged"
Securing ==
  /\ ul = Nothing /\ dl = Message("security mode command", NoChallenge)
  /\ net.at = "accepted"

AkaInv ==
  /\ TypeOK
  /\ ue.at \in {"idle", "failed"} => Quiet
  /\ ue.at = "auth" => Quiet \/ Registering \/ Challenged \/ Resynchronising
  /\ ue.at = "secmode" => Responding \/ Securing
  /\ ue.at = "registered" => Quiet /\ net.at = "accepted"
  /\ ue.at \in {"secmode", "registered"} => Answered(ke, ue.of) /\ ue.of = net.of

LEMMA Bounds == MaxSqn \in Nat /\ MaxRands \in Nat /\ MaxRegs \in Nat
  BY AKAAssumption

LEMMA MessageFields ==
  /\ \A t, c : Message(t, c).type = t /\ Message(t, c).of = c
  /\ Nothing.type = "none"
  BY DEF Message, Nothing

LEMMA PhaseTypes ==
  /\ Quiet => dl.type = "none" /\ ul.type = "none"
  /\ Registering => dl.type = "none" /\ ul.type = "registration request"
  /\ Challenged => dl.type = "authentication request" /\ ul.type = "none"
  /\ Resynchronising => dl.type = "none" /\ ul.type = "authentication failure"
  /\ Responding => /\ dl.type = "none" /\ ul.type = "authentication response"
                   /\ ul.of = ue.of
  /\ Securing => dl.type = "security mode command" /\ ul.type = "none"
<1>1. \A t, c : Message(t, c).type = t /\ Message(t, c).of = c
  BY MessageFields
<1>2. Quiet => dl.type = "none" /\ ul.type = "none"
  BY MessageFields DEF Quiet
<1>3. Registering => dl.type = "none" /\ ul.type = "registration request"
  BY <1>1, MessageFields DEF Registering
<1>4. Challenged => dl.type = "authentication request" /\ ul.type = "none"
  <2>1. Message("authentication request", dl.of).type = "authentication request"
    BY MessageFields
  <2> QED  BY <2>1, MessageFields DEF Challenged
<1>5. Resynchronising => dl.type = "none" /\ ul.type = "authentication failure"
  <2>1. Message("authentication failure", ul.of).type = "authentication failure"
    BY MessageFields
  <2> QED  BY <2>1, MessageFields DEF Resynchronising
<1>6. Responding => /\ dl.type = "none" /\ ul.type = "authentication response"
                    /\ ul.of = ue.of
  <2>1. /\ Message("authentication response", ue.of).type = "authentication response"
        /\ Message("authentication response", ue.of).of = ue.of
    BY MessageFields
  <2> QED  BY <2>1, MessageFields DEF Responding
<1>7. Securing => dl.type = "security mode command" /\ ul.type = "none"
  BY <1>1, MessageFields DEF Securing
<1> QED  BY <1>2, <1>3, <1>4, <1>5, <1>6, <1>7, Zenon

LEMMA InitAka == Init => AkaInv
<1> SUFFICES ASSUME Init PROVE AkaInv
  OBVIOUS
<1>1. /\ ue.at = "idle" /\ ue.allow_resync = TRUE /\ ue.of = NoChallenge
      /\ ue = [at |-> ue.at, allow_resync |-> ue.allow_resync, of |-> ue.of]
  BY DEF Init
<1>2. net \in [at : {"idle"}, sqn : 0..MaxSqn, of : {NoChallenge}, rands : {0}]
  BY AKAAssumption DEF Init
<1>3. TypeOK
  <2>1. ue \in [at : {"idle", "auth", "secmode", "registered", "failed"},
               allow_resync : BOOLEAN, of : Challenges \cup {NoChallenge}]
    BY <1>1
  <2>2. net \in [at : {"idle", "challenged", "accepted", "rejected"}, sqn : 0..MaxSqn,
                of : Challenges \cup {NoChallenge}, rands : 0..MaxRands]
    BY <1>2, AKAAssumption
  <2>3. regs = 0 /\ altered = FALSE /\ ke \in Kinds
    BY DEF Init
  <2>4. regs \in 0..MaxRegs
    BY <2>3, Bounds
  <2>5. altered \in BOOLEAN
    BY <2>3
  <2> QED  BY <2>1, <2>2, <2>3, <2>4, <2>5 DEF TypeOK
<1> QED  BY <1>1, <1>3 DEF Init, AkaInv, Quiet

\* A challenge with any sequence number but a negative one.
LEMMA ChallengeAka ==
  ASSUME AkaInv, NEW sqn \in Nat, Challenge(sqn), ul' = Nothing, UNCHANGED <<ue, regs, ke>>,
         ue.at = "auth"
  PROVE  AkaInv'
<1> DEFINE c == [rand |-> net.rands + 1, sqn |-> sqn, flip |-> NoFlip]
<1>1. c \in Challenges /\ c.flip = NoFlip
  <2>1. net.rands \in 0..MaxRands
    BY DEF AkaInv, TypeOK
  <2>2. net.rands < MaxRands /\ sqn < MaxSqn
    BY DEF Challenge
  <2> QED  BY <2>1, <2>2, Bounds DEF Challenges
<1>2. \A f \in Flips : [c EXCEPT !.flip = f] \in Challenges
  BY <1>1 DEF Challenges
<1>3. net' = [at |-> "challenged", sqn |-> sqn + 1, of |-> c, rands |-> c.rand]
  BY DEF Challenge
<1>4. PICK d \in Challenges : /\ dl' = Message("authentication request", d)
                             /\ d.rand = c.rand /\ d.sqn = c.sqn
  BY <1>1, <1>2 DEF Challenge
<1>5. TypeOK'
  <2>1. sqn + 1 \in 0..MaxSqn /\ c.rand \in 0..MaxRands
    <3>1. c.rand \in 1..MaxRands
      BY <1>1 DEF Challenges
    <3>2. sqn < MaxSqn
      BY DEF Challenge
    <3> HIDE DEF c
    <3> QED  BY <3>1, <3>2, Bounds
  <2>2. altered' \in BOOLEAN
    BY DEF Challenge, AkaInv, TypeOK
  <2> HIDE DEF c
  <2> QED  BY <1>1, <1>3, <2>1, <2>2 DEF AkaInv, TypeOK
<1> HIDE DEF c
<1>6. Challenged'
  <2>1. net'.of = c /\ net'.at = "challenged" /\ dl'.of = d
    BY <1>3, <1>4, MessageFields
  <2>2. Sent(dl.of)'
    BY <1>1, <1>4, <2>1 DEF Sent
  <2> QED  BY <1>4, <2>1, <2>2 DEF Challenged
<1> QED  BY <1>5, <1>6 DEF AkaInv

LEMMA NextAka == AkaInv /\ [Next]_vars => AkaInv'
<1> SUFFICES ASSUME AkaInv, [Next]_vars PROVE AkaInv'
  OBVIOUS
<1>a. /\ TypeOK
      /\ ue.at \in {"idle", "failed"} => Quiet
      /\ ue.at = "auth" => Quiet \/ Registering \/ Challenged \/ Resynchronising
      /\ ue.at = "secmode" => Responding \/ Securing
      /\ ue.at = "registered" => Quiet /\ net.at = "accepted"
      /\ ue.at \in {"secmode", "registered"} => Answered(ke, ue.of) /\ ue.of = net.of
  BY DEF AkaInv
<1>b. /\ ue.at \in {"idle", "auth", "secmode", "registered", "failed"}
      /\ net.sqn \in Nat /\ regs \in 0..MaxRegs /\ ke \in Kinds
  BY Bounds DEF AkaInv, TypeOK
<1>1. CASE f_register
  <2>1. TypeOK'
    <3>1. regs < MaxRegs /\ regs' = regs + 1
      BY <1>1 DEF f_register
    <3>2. regs' \in 0..MaxRegs
      BY <1>b, <3>1, Bounds
    <3>3. ue' = [ue EXCEPT !.at = "auth", !.allow_resync = TRUE] /\ UNCHANGED <<net, altered, ke>>
      BY <1>1 DEF f_register
    <3> QED  BY <1>a, <3>2, <3>3 DEF TypeOK
  <2>2. Registering' /\ ue'.at = "auth"
    BY <1>1, <1>b DEF f_register, Registering, TypeOK, AkaInv
  <2> QED  BY <2>1, <2>2 DEF AkaInv
<1>2. CASE as_ngap_handle_auth
  <2>1. ue.at = "auth" /\ Challenged
    BY <1>2, <1>a, PhaseTypes DEF as_ngap_handle_auth
  <2>2. PICK r \in Handled :
          /\ r.kind = ke /\ r.of = dl.of
          /\ \/ /\ r.rc = -2 /\ ue.allow_resync
                /\ ul' = Message("authentication failure", dl.of)
                /\ ue' = [ue EXCEPT !.allow_resync = FALSE]
             \/ /\ r.rc = -1 \/ (r.rc = -2 /\ ~ue.allow_resync)
                /\ ue' = [ue EXCEPT !.at = "failed"]
                /\ UNCHANGED ul
             \/ /\ r.rc = 0
                /\ ue' = [ue EXCEPT !.at = "secmode", !.of = dl.of]
                /\ ul' = Message("authentication response", dl.of)
    BY <1>2 DEF as_ngap_handle_auth
  <2>3. dl' = Nothing /\ UNCHANGED <<net, regs, altered, ke>>
    BY <1>2 DEF as_ngap_handle_auth
  <2>4. CASE /\ r.rc = -2 /\ ue.allow_resync
             /\ ul' = Message("authentication failure", dl.of)
             /\ ue' = [ue EXCEPT !.allow_resync = FALSE]
    <3>1. Stale(ke, dl.of)
      BY <2>2, <2>4 DEF Stale
    <3>2. ul'.of = dl.of /\ Sent(dl.of)
      <4>1. ul' = Message("authentication failure", dl.of)
        BY <2>4
      <4>2. Message("authentication failure", dl.of).of = dl.of
        BY MessageFields, Zenon
      <4> QED  BY <2>1, <4>1, <4>2 DEF Challenged
    <3>3. Resynchronising'
      BY <2>3, <2>4, <3>1, <3>2 DEF Resynchronising, Sent, Stale
    <3>4. TypeOK' /\ ue'.at = "auth"
      BY <1>a, <2>1, <2>3, <2>4 DEF TypeOK
    <3> QED  BY <3>3, <3>4 DEF AkaInv
  <2>5. CASE /\ r.rc = -1 \/ (r.rc = -2 /\ ~ue.allow_resync)
             /\ ue' = [ue EXCEPT !.at = "failed"]
             /\ UNCHANGED ul
    <3>1. TypeOK' /\ ue'.at = "failed"
      BY <1>a, <2>3, <2>5 DEF TypeOK
    <3>2. Quiet'
      BY <2>1, <2>3, <2>5 DEF Quiet, Challenged
    <3> QED  BY <3>1, <3>2 DEF AkaInv
  <2>6. CASE /\ r.rc = 0
             /\ ue' = [ue EXCEPT !.at = "secmode", !.of = dl.of]
             /\ ul' = Message("authentication response", dl.of)
    <3>1. Answered(ke, dl.of)
      BY <2>2, <2>6 DEF Answered
    <3>2. dl.of.flip = NoFlip /\ dl.of \in Challenges
      BY <3>1, AnsweredMeans
    <3>3. dl.of = net.of
      <4>1. Sent(dl.of)
        BY <2>1 DEF Challenged
      <4>2. dl.of.rand = net.of.rand /\ dl.of.sqn = net.of.sqn /\ dl.of.flip = net.of.flip
        BY <3>2, <4>1 DEF Sent
      <4>3. dl.of \in Challenges /\ net.of \in Challenges
        BY <4>1 DEF Sent
      <4> QED  BY <4>2, <4>3 DEF Challenges
    <3>4. ue'.at = "secmode" /\ ue'.of = dl.of
      BY <1>a, <2>6 DEF TypeOK
    <3>5. Responding'
      BY <2>1, <2>3, <2>6, <3>4 DEF Responding, Challenged
    <3>6. Answered(ke, ue.of)'
      BY <2>3, <3>1, <3>4 DEF Answered
    <3>7. TypeOK'
      BY <1>a, <2>3, <2>6, <3>2 DEF TypeOK
    <3> QED  BY <2>3, <3>3, <3>4, <3>5, <3>6, <3>7 DEF AkaInv
  <2> QED  BY <2>2, <2>4, <2>5, <2>6
<1>3. CASE as_ngap_handle_sec_mode
  <2>1. Securing /\ ue.at = "secmode"
    BY <1>3, <1>a, PhaseTypes DEF as_ngap_handle_sec_mode
  <2>2. /\ ue' = [ue EXCEPT !.at = "registered"]
        /\ dl' = Nothing /\ UNCHANGED <<net, ul, regs, altered, ke>>
    BY <1>3 DEF as_ngap_handle_sec_mode
  <2>3. TypeOK' /\ ue'.at = "registered" /\ ue'.of = ue.of
    BY <1>a, <2>2 DEF TypeOK
  <2>4. Answered(ke, ue.of)' /\ ue'.of = net'.of
    BY <1>a, <2>1, <2>2, <2>3 DEF Answered
  <2> QED  BY <2>1, <2>2, <2>3, <2>4 DEF AkaInv, Securing, Quiet
<1>4. CASE NetRegistration
  <2>1. ue.at = "auth"
    BY <1>4, <1>a, <1>b, PhaseTypes DEF NetRegistration
  <2>2. Challenge(net.sqn) /\ ul' = Nothing /\ UNCHANGED <<ue, regs, ke>>
    BY <1>4 DEF NetRegistration
  <2> QED  BY <1>b, <2>1, <2>2, ChallengeAka
<1>5. CASE NetResync
  <2>1. ue.at = "auth" /\ Resynchronising
    BY <1>5, <1>a, <1>b, PhaseTypes DEF NetResync
  <2> DEFINE a == milenage_auts(usim_key, Ki(ke), Random(net.of.rand), UeAuts(ke, ul.of))
  <2>2. a.rc = 0 => Value(a.sqn) = 0
    <3>1. UeAuts(ke, ul.of) = Resync(ul.of)
      BY <2>1, AutsIs DEF Resynchronising
    <3>2. Random(net.of.rand) = Random(ul.of.rand) /\ ke \in Kinds
      BY <1>b, <2>1 DEF Resynchronising, Sent
    <3> QED  BY <3>1, <3>2, ResyncMeans
  <2>3. /\ (a.rc = 0 /\ Challenge(Value(a.sqn) + 1))
           \/ (net' = [net EXCEPT !.at = "rejected"] /\ UNCHANGED <<dl, altered>>)
        /\ ul' = Nothing /\ UNCHANGED <<ue, regs, ke>>
    BY <1>5 DEF NetResync
  <2> HIDE DEF a
  <2>4. CASE a.rc = 0 /\ Challenge(Value(a.sqn) + 1)
    <3>1. Value(a.sqn) + 1 \in Nat
      BY <2>2, <2>4
    <3> QED  BY <2>1, <2>3, <2>4, <3>1, ChallengeAka
  <2>5. CASE net' = [net EXCEPT !.at = "rejected"] /\ UNCHANGED <<dl, altered>>
    <3>1. TypeOK' /\ ue'.at = "auth"
      BY <1>a, <2>1, <2>3, <2>5 DEF TypeOK
    <3>2. Quiet'
      BY <2>1, <2>3, <2>5 DEF Resynchronising, Quiet
    <3> QED  BY <3>1, <3>2 DEF AkaInv
  <2> QED  BY <2>3, <2>4, <2>5
<1>6. CASE NetResponse
  <2>1. ue.at = "secmode" /\ Responding
    BY <1>6, <1>a, <1>b, PhaseTypes DEF NetResponse
  <2>2. UeKeys(ke, ul.of) = NetworkKeys(ke, net.of)
    <3>1. ul.of = net.of /\ Answered(ke, net.of)
      BY <1>a, <2>1, PhaseTypes
    <3> QED  BY <3>1, AnsweredMeans
  <2>3. /\ net' = [net EXCEPT !.at = "accepted"]
        /\ dl' = Message("security mode command", NoChallenge)
        /\ ul' = Nothing /\ UNCHANGED <<ue, regs, altered, ke>>
    BY <1>6, <2>2 DEF NetResponse
  <2>4. TypeOK' /\ ue'.at = "secmode" /\ net'.of = net.of
    BY <1>a, <2>1, <2>3 DEF TypeOK
  <2>5. Securing'
    BY <1>a, <2>3 DEF Securing, TypeOK
  <2>6. Answered(ke, ue.of)' /\ ue'.of = net'.of
    BY <1>a, <2>1, <2>3, <2>4 DEF Answered
  <2> QED  BY <2>4, <2>5, <2>6 DEF AkaInv
<1>7. CASE UNCHANGED vars
  BY <1>7 DEF AkaInv, TypeOK, vars, Quiet, Registering, Challenged, Resynchronising, Responding, Securing, Sent, Stale, Answered
<1> QED
  BY <1>1, <1>2, <1>3, <1>4, <1>5, <1>6, <1>7 DEF Next, UE, Network

-----------------------------------------------------------------------------
LEMMA AkaHolds == Spec => []AkaInv
  BY InitAka, NextAka, PTL DEF Spec

LEMMA AkaAgrees == AkaInv => KeysAgree
<1> SUFFICES ASSUME AkaInv, ue.at \in {"secmode", "registered"}
             PROVE  /\ ke = "usim" /\ ue.of = net.of /\ ue.of.sqn > 0
                    /\ net.at # "rejected" /\ UeKeys(ke, ue.of) = NetworkKeys(ke, net.of)
  BY DEF KeysAgree
<1>1. Answered(ke, ue.of) /\ ue.of = net.of /\ net.at # "rejected"
  BY DEF AkaInv, Responding, Securing
<1>2. ue.of.sqn \in 0..MaxSqn
  BY <1>1, AnsweredMeans DEF Challenges
<1> QED  BY <1>1, <1>2, AnsweredMeans, Bounds

LEMMA AkaSeparates == AkaInv => KeysSeparated
<1> SUFFICES ASSUME AkaInv, ue.at = "secmode" PROVE IsInjective(AllKeys(ke, net.of))
  BY DEF KeysSeparated
<1>1. Answered(ke, ue.of) /\ ue.of = net.of /\ ke \in Kinds
  BY DEF AkaInv, TypeOK
<1>2. net.of \in Challenges
  BY <1>1, AnsweredMeans
<1> QED  BY <1>1, <1>2, AllKeysDiffer

\* The variables keep their types: the network's sequence number stays in its range
\* because the one it takes from an AUTS is the UE's (milenage_auts), and every
\* challenge is one.  (f_register .. NetResponse.)
THEOREM AKATypes == Spec => []TypeOK
  BY AkaHolds, PTL DEF AkaInv

\* For any numbers of challenges and registrations, any sequence numbers and altered
\* bits: the UE answers only an unaltered, fresh challenge of a network with its key,
\* which accepts the answer, and both then hold the same keys.  (milenage_check,
\* as_ngap_handle_auth, kdf_kausf..kdf_ng_nas_algo.)
THEOREM AKAKeysAgree == Spec => []KeysAgree
  BY AkaHolds, AkaAgrees, PTL

\* For any challenge the UE answers: the 21 keys and results derived from it, of 2G,
\* 4G and 5G, are 21 different ones.  (milenage_f2345, gsm_milenage,
\* kdf_kausf..kdf_ng_nas_algo, mme_kdf_nas..mme_kdf_nas_token, hss_auc_kasme.)
THEOREM AKAKeysSeparated == Spec => []KeysSeparated
  BY AkaHolds, AkaSeparates, PTL
=============================================================================
