----------------------------- MODULE SMDPPProofs ----------------------------
(***************************************************************************)
(* Three parts.  First the chained MAC of smdpp/bsp_crypto.cc for any keys,  *)
(* plaintexts, sizes and number of disturbances: the receiver's instances  *)
(* only ever verify what the sender's have protected, in its order, and    *)
(* all of it when nothing was disturbed.                                   *)
(* Then a profile download that passes, for any servers, certificate files *)
(* of the layout of smdpp/sgp26, packages and disturbances: the checks of  *)
(* f_TC_rsp_complete_flow leave only the server the CI vouches for.        *)
(* Last the converse: an honest server, whose certificates are the CI's    *)
(* and whose package nothing disturbed, is accepted by every test.         *)
(***************************************************************************)
EXTENDS SMDPP, TLAPS

-----------------------------------------------------------------------------
(* The chained MAC: theorems about BSP.                                    *)

AllData  == Datas \cup {PPK, Garbage}
Payloads == [encrypted : BOOLEAN, key : Keys \cup {PPK}, block : Nat, data : AllData]
Entries  == [tag : Nat, payload : Payloads]
Macs     == [key : Keys \cup {PPK}, log : Seq(Entries)]
Segments == [tag : Nat, payload : Payloads, mac : Macs]
Instances(keys) == [key : keys, mac_chain : Seq(Entries), block_number : Nat]
Sides == [session : Instances(Keys), ppk : Instances({PPK}), replaced : BOOLEAN]

\* What a package is made of.
Packages == [configureIsdp : Seq(Segments), storeMetadata : Seq(Segments),
             replaceSessionKeys : Seq(Segments), hasReplaceSessionKeys : BOOLEAN,
             profileData : Seq(Segments), der : BOOLEAN]

\* What the variables of the chains hold.
BspTypes ==
  /\ tx \in Sides /\ rx \in Sides
  /\ bpp \in Packages
  /\ next \in Nat \ {0}

\* A MAC the sender t has made, and a list of segments with such MACs.
Made(mac, t) ==
  \/ mac.key = t.session.key /\ IsPrefixOf(mac.log, t.session.mac_chain)
  \/ mac.key = PPK /\ IsPrefixOf(mac.log, t.ppk.mac_chain)
AllMade(list, t) == \A i \in 1..Len(list) : Made(list[i].mac, t)

MacsMade ==
  /\ AllMade(bpp.configureIsdp, tx) /\ AllMade(bpp.storeMetadata, tx)
  /\ AllMade(bpp.replaceSessionKeys, tx) /\ AllMade(bpp.profileData, tx)

Follows(r, t) == r.mac_chain # <<>> => r.key = t.key /\ IsPrefixOf(r.mac_chain, t.mac_chain)

\* The inductive invariant: disturbances make no MACs.
BspInv == /\ BspTypes /\ MacsMade
          /\ Follows(rx.session, tx.session) /\ Follows(rx.ppk, tx.ppk)

-----------------------------------------------------------------------------
\* A prefix stays one when the longer sequence grows, and grows to one with it.
LEMMA PrefixGrows ==
  ASSUME NEW S, NEW s \in Seq(S), NEW t \in Seq(S), NEW e \in S
  PROVE  /\ IsPrefixOf(s, t) => IsPrefixOf(s, Append(t, e))
         /\ IsPrefixOf(s, s)
         /\ IsPrefixOf(<<>>, s)
  BY DEF IsPrefixOf

\* A new instance.
LEMMA NewInstance ==
  ASSUME NEW keys, NEW k \in keys
  PROVE  BspCrypto(k) \in Instances(keys) /\ BspCrypto(k).mac_chain = <<>>
  BY DEF BspCrypto, Instances

\* compute_mac() appends one entry to the chain; it is the next chaining value.
LEMMA MacTypes ==
  ASSUME NEW keys \in SUBSET (Keys \cup {PPK}), NEW b \in Instances(keys), NEW tag \in Nat,
         NEW payload \in Payloads
  PROVE  /\ compute_mac(b, tag, payload) \in Macs
         /\ compute_mac(b, tag, payload).key = b.key
         /\ compute_mac(b, tag, payload).log
              = Append(b.mac_chain, [tag |-> tag, payload |-> payload])
         /\ [tag |-> tag, payload |-> payload] \in Entries
         /\ Advanced(b, compute_mac(b, tag, payload)) \in Instances(keys)
         /\ Advanced(b, compute_mac(b, tag, payload)).key = b.key
         /\ Advanced(b, compute_mac(b, tag, payload)).mac_chain
              = compute_mac(b, tag, payload).log
<1>1. [tag |-> tag, payload |-> payload] \in Entries
  BY DEF Entries
<1>2. Append(b.mac_chain, [tag |-> tag, payload |-> payload]) \in Seq(Entries)
  BY <1>1 DEF Instances
<1> QED  BY <1>1, <1>2 DEF compute_mac, Advanced, Instances, Macs

\* What encrypt_and_mac_one() and mac_only_one() return.
LEMMA Protected ==
  ASSUME NEW keys \in SUBSET (Keys \cup {PPK}), NEW b \in Instances(keys), NEW tag \in Nat,
         NEW d \in AllData, NEW e,
         e = encrypt_and_mac_one(b, tag, d) \/ e = mac_only_one(b, tag, d)
  PROVE  /\ e.bsp \in Instances(keys) /\ e.bsp.key = b.key
         /\ e.segment \in Segments
         /\ e.segment.mac.key = b.key /\ e.segment.mac.log = e.bsp.mac_chain
         /\ \E entry \in Entries : e.bsp.mac_chain = Append(b.mac_chain, entry)
<1> DEFINE mac(p) == compute_mac(b, tag, p)
<1>1. aes_encrypt(b, d) \in Payloads /\ Plain(b, d) \in Payloads
  BY DEF aes_encrypt, Plain, Payloads, Instances
<1>2. PICK p \in Payloads : e = [bsp |-> Advanced(b, mac(p)),
                                segment |-> Segment(tag, p, mac(p))]
  BY <1>1 DEF encrypt_and_mac_one, mac_only_one
<1>3. /\ mac(p) \in Macs /\ mac(p).key = b.key
      /\ mac(p).log = Append(b.mac_chain, [tag |-> tag, payload |-> p])
      /\ [tag |-> tag, payload |-> p] \in Entries
      /\ Advanced(b, mac(p)) \in Instances(keys) /\ Advanced(b, mac(p)).key = b.key
      /\ Advanced(b, mac(p)).mac_chain = mac(p).log
  BY MacTypes, ZenonT(60)
<1> HIDE DEF mac
<1>4. e.bsp = Advanced(b, mac(p)) /\ e.segment = Segment(tag, p, mac(p))
  BY <1>2
<1>5. Segment(tag, p, mac(p)) \in Segments /\ Segment(tag, p, mac(p)).mac = mac(p)
  BY <1>3 DEF Segment, Segments
<1> QED  BY <1>3, <1>4, <1>5, Zenon

\* A segment that decrypt_and_verify() accepts lets the receiver's instance follow
\* the sender's, if its MAC is one the sender has made.
LEMMA Verified ==
  ASSUME NEW t \in Sides, NEW list \in Seq(Segments), AllMade(list, t),
         NEW keys \in SUBSET (Keys \cup {PPK}), NEW b \in Instances(keys), NEW i \in Nat \ {0},
         NEW decrypt, NEW v, v = decrypt_and_verify(b, list, i, decrypt), v.ok
  PROVE  /\ v.bsp \in Instances(keys) /\ v.bsp.key = b.key
         /\ b.key \in Keys => Follows(v.bsp, t.session)
         /\ b.key = PPK => Follows(v.bsp, t.ppk)
<1>1. i \in 1..Len(list) /\ list[i] \in Segments
  BY DEF decrypt_and_verify
<1> DEFINE mac == compute_mac(b, list[i].tag, list[i].payload)
<1>2. /\ list[i].mac = mac
      /\ v.bsp = Advanced(b, mac)
  BY <1>1 DEF decrypt_and_verify, verify_and_decrypt_helper
<1>3. list[i].tag \in Nat /\ list[i].payload \in Payloads
  BY <1>1 DEF Segments
<1>4. /\ v.bsp \in Instances(keys) /\ v.bsp.key = b.key
      /\ v.bsp.mac_chain = mac.log /\ mac.key = b.key
  <2>1. PICK tag \in Nat, p \in Payloads : tag = list[i].tag /\ p = list[i].payload
    BY <1>3
  <2>2. /\ compute_mac(b, tag, p).key = b.key
        /\ Advanced(b, compute_mac(b, tag, p)) \in Instances(keys)
        /\ Advanced(b, compute_mac(b, tag, p)).key = b.key
        /\ Advanced(b, compute_mac(b, tag, p)).mac_chain = compute_mac(b, tag, p).log
    BY MacTypes, ZenonT(60)
  <2> QED  BY <2>1, <2>2, <1>2
<1>5. Made(mac, t)
  BY <1>1, <1>2 DEF AllMade
<1>6. t.session.key # PPK /\ t.ppk.key = PPK /\ t.session.key \in Keys
  BY KeysAssumption DEF Sides, Instances
<1> HIDE DEF mac
<1>7. ASSUME b.key \in Keys PROVE Follows(v.bsp, t.session)
  <2>1. mac.key # PPK
    BY <1>4, <1>7, KeysAssumption
  <2>2. mac.key = t.session.key /\ IsPrefixOf(mac.log, t.session.mac_chain)
    BY <1>5, <2>1 DEF Made
  <2> QED  BY <1>4, <2>2 DEF Follows
<1>8. ASSUME b.key = PPK PROVE Follows(v.bsp, t.ppk)
  <2>1. mac.key # t.session.key
    BY <1>4, <1>6, <1>8
  <2>2. IsPrefixOf(mac.log, t.ppk.mac_chain)
    BY <1>5, <2>1 DEF Made
  <2> QED  BY <1>4, <1>6, <1>8, <2>2 DEF Follows
<1> QED  BY <1>4, <1>7, <1>8

\* What was made stays made when an instance of the sender goes on.
LEMMA StillMade ==
  ASSUME NEW t \in Sides, NEW u \in Sides, NEW list \in Seq(Segments), AllMade(list, t),
         u.session.key = t.session.key,
         NEW entry \in Entries,
         \/ u.session.mac_chain = t.session.mac_chain
         \/ u.session.mac_chain = Append(t.session.mac_chain, entry),
         \/ u.ppk.mac_chain = t.ppk.mac_chain
         \/ u.ppk.mac_chain = Append(t.ppk.mac_chain, entry)
  PROVE  AllMade(list, u)
<1> SUFFICES ASSUME NEW i \in 1..Len(list) PROVE Made(list[i].mac, u)
  BY DEF AllMade
<1>1. list[i].mac.log \in Seq(Entries) /\ Made(list[i].mac, t)
  <2>1. list[i] \in Segments
    OBVIOUS
  <2> QED  BY <2>1 DEF AllMade, Segments, Macs
<1>2. t.session.mac_chain \in Seq(Entries) /\ t.ppk.mac_chain \in Seq(Entries)
  BY DEF Sides, Instances
<1> QED  BY <1>1, <1>2, PrefixGrows DEF Made

\* The receiver still follows, too.
LEMMA StillFollows ==
  ASSUME NEW keys, NEW r \in Instances(keys), NEW t \in Instances(keys), NEW u, NEW entry \in Entries,
         u.key = t.key, Follows(r, t),
         u.mac_chain = t.mac_chain \/ u.mac_chain = Append(t.mac_chain, entry)
  PROVE  Follows(r, u)
<1>1. r.mac_chain \in Seq(Entries) /\ t.mac_chain \in Seq(Entries)
  BY DEF Instances
<1> QED  BY <1>1, PrefixGrows DEF Follows

\* A list with one more segment of the sender.
LEMMA OneMore ==
  ASSUME NEW list \in Seq(Segments), NEW u, AllMade(list, u), NEW seg \in Segments,
         Made(seg.mac, u)
  PROVE  /\ Append(list, seg) \in Seq(Segments) /\ AllMade(Append(list, seg), u)
         /\ <<seg>> \in Seq(Segments) /\ AllMade(<<seg>>, u)
<1>1. Append(list, seg) \in Seq(Segments) /\ Len(Append(list, seg)) = Len(list) + 1
  OBVIOUS
<1>2. \A i \in 1..Len(Append(list, seg)) :
        \/ Append(list, seg)[i] = seg
        \/ i \in 1..Len(list) /\ Append(list, seg)[i] = list[i]
  OBVIOUS
<1>3. <<seg>> \in Seq(Segments) /\ Len(<<seg>>) = 1 /\ <<seg>>[1] = seg
  OBVIOUS
<1> QED  BY <1>1, <1>2, <1>3 DEF AllMade

\* A segment protected by one of the sender's instances: what was made before is
\* still made, so is the new MAC, and the receiver still follows.
LEMMA SenderStep ==
  ASSUME BspInv, NEW u \in Sides, NEW tag \in Nat, NEW d \in AllData, NEW b, NEW e,
         e = encrypt_and_mac_one(b, tag, d) \/ e = mac_only_one(b, tag, d),
         \/ b = tx.session /\ u.session = e.bsp /\ u.ppk = tx.ppk
         \/ b = tx.ppk /\ u.ppk = e.bsp /\ u.session = tx.session
  PROVE  /\ e.segment \in Segments /\ Made(e.segment.mac, u)
         /\ \A list \in Seq(Segments) : AllMade(list, tx) => AllMade(list, u)
         /\ Follows(rx.session, u.session) /\ Follows(rx.ppk, u.ppk)
<1>1. /\ tx \in Sides /\ rx \in Sides
      /\ tx.session \in Instances(Keys) /\ rx.session \in Instances(Keys)
      /\ tx.ppk \in Instances({PPK}) /\ rx.ppk \in Instances({PPK})
      /\ u.session \in Instances(Keys) /\ u.ppk \in Instances({PPK})
  BY DEF BspInv, BspTypes, Sides
<1>2. Follows(rx.session, tx.session) /\ Follows(rx.ppk, tx.ppk)
  BY DEF BspInv
<1>3. PICK keys \in SUBSET (Keys \cup {PPK}) : b \in Instances(keys)
  <2>1. b \in Instances(Keys) \/ b \in Instances({PPK})
    BY <1>1
  <2>2. Keys \in SUBSET (Keys \cup {PPK}) /\ {PPK} \in SUBSET (Keys \cup {PPK})
    OBVIOUS
  <2> QED  BY <2>1, <2>2
<1>4. /\ e.bsp.key = b.key /\ e.segment \in Segments
      /\ e.segment.mac.key = b.key /\ e.segment.mac.log = e.bsp.mac_chain
      /\ e.bsp \in Instances(keys)
      /\ \E entry \in Entries : e.bsp.mac_chain = Append(b.mac_chain, entry)
  BY <1>3, Protected
<1>5. PICK entry \in Entries : e.bsp.mac_chain = Append(b.mac_chain, entry)
  BY <1>4
<1>6. IsPrefixOf(e.bsp.mac_chain, e.bsp.mac_chain)
  BY <1>4, <1>5, PrefixGrows DEF Instances
<1>7. tx.ppk.key = PPK
  BY <1>1 DEF Instances
<1>8. Made(e.segment.mac, u)
  BY <1>4, <1>6, <1>7 DEF Made
<1>9. /\ u.session.key = tx.session.key /\ u.ppk.key = tx.ppk.key
      /\ \/ u.session.mac_chain = tx.session.mac_chain
         \/ u.session.mac_chain = Append(tx.session.mac_chain, entry)
      /\ \/ u.ppk.mac_chain = tx.ppk.mac_chain
         \/ u.ppk.mac_chain = Append(tx.ppk.mac_chain, entry)
  BY <1>4, <1>5
<1>10. \A list \in Seq(Segments) : AllMade(list, tx) => AllMade(list, u)
  BY <1>1, <1>9, StillMade
<1>11. Follows(rx.session, u.session)
  BY <1>1, <1>2, <1>9, StillFollows
<1>12. Follows(rx.ppk, u.ppk)
  BY <1>1, <1>2, <1>9, StillFollows
<1> QED  BY <1>4, <1>8, <1>10, <1>11, <1>12

\* Any selection of the segments under way.
LEMMA Pooled ==
  ASSUME BspInv, NEW part \in Parts, NEW n \in Nat, NEW list \in UpTo(PoolOf(part), n)
  PROVE  list \in Seq(Segments) /\ AllMade(list, tx)
<1>1. PICK m \in 0..n : list \in [1..m -> PoolOf(part)]
  BY DEF UpTo
<1>2. ASSUME NEW x \in PoolOf(part) PROVE x \in Segments /\ Made(x.mac, tx)
  <2> DEFINE Good(l) == l \in Seq(Segments) /\ AllMade(l, tx)
  <2>1. ASSUME NEW l, Good(l), x \in Elements(l) PROVE x \in Segments /\ Made(x.mac, tx)
    BY <2>1 DEF Elements, AllMade
  <2>2. /\ Good(bpp.configureIsdp) /\ Good(bpp.storeMetadata)
        /\ Good(bpp.replaceSessionKeys) /\ Good(bpp.profileData)
    BY DEF BspInv, BspTypes, MacsMade, Packages
  <2> HIDE DEF Good
  <2>3. \/ x \in Elements(bpp.configureIsdp) \/ x \in Elements(bpp.storeMetadata)
        \/ x \in Elements(bpp.replaceSessionKeys) \/ x \in Elements(bpp.profileData)
    BY <1>2 DEF PoolOf, Parts
  <2> QED  BY <2>1, <2>2, <2>3
<1>3. \A i \in 1..m : list[i] \in Segments /\ Made(list[i].mac, tx)
  BY <1>1, <1>2
<1>4. list \in Seq(Segments) /\ Len(list) = m
  BY <1>1, <1>3
<1> QED  BY <1>3, <1>4 DEF AllMade

\* A segment with other contents keeps its MAC.
LEMMA AlteredMade ==
  ASSUME NEW list \in Seq(Segments), AllMade(list, tx), NEW i \in 1..Len(list), NEW d \in AllData
  PROVE  /\ [list EXCEPT ![i].payload.data = d] \in Seq(Segments)
         /\ AllMade([list EXCEPT ![i].payload.data = d], tx)
<1> DEFINE new == [list EXCEPT ![i].payload.data = d]
<1>1. list[i] \in Segments
  OBVIOUS
<1>2. [list[i] EXCEPT !.payload.data = d] \in Segments
  BY <1>1 DEF Segments, Payloads
<1>3. [list[i] EXCEPT !.payload.data = d].mac = list[i].mac
  BY <1>1 DEF Segments
<1>4. new \in Seq(Segments) /\ Len(new) = Len(list)
  BY <1>2
<1>5. \A j \in 1..Len(list) : new[j].mac = list[j].mac
  BY <1>3
<1> QED  BY <1>4, <1>5 DEF AllMade

-----------------------------------------------------------------------------
\* The invariant when only the package changes.
LEMMA PackageStep ==
  ASSUME BspInv, UNCHANGED <<tx, rx, next>>,
         bpp' \in Packages,
         /\ AllMade(bpp'.configureIsdp, tx) /\ AllMade(bpp'.storeMetadata, tx)
         /\ AllMade(bpp'.replaceSessionKeys, tx) /\ AllMade(bpp'.profileData, tx)
  PROVE  BspInv'
  BY DEF BspInv, BspTypes, MacsMade, AllMade, Made, Follows, IsPrefixOf

\* The invariant when the sender adds a segment to the package.
LEMMA AddStep ==
  ASSUME BspInv, UNCHANGED <<rx, next>>, NEW u \in Sides, tx' = u,
         \A list \in Seq(Segments) : AllMade(list, tx) => AllMade(list, u),
         Follows(rx.session, u.session), Follows(rx.ppk, u.ppk),
         bpp' \in Packages,
         /\ AllMade(bpp'.configureIsdp, u) /\ AllMade(bpp'.storeMetadata, u)
         /\ AllMade(bpp'.replaceSessionKeys, u) /\ AllMade(bpp'.profileData, u)
  PROVE  BspInv'
  BY DEF BspInv, BspTypes, MacsMade, AllMade, Made, Follows, IsPrefixOf

\* The invariant when the receiver's instances change.
LEMMA ReceiveStep ==
  ASSUME BspInv, UNCHANGED <<tx, bpp>>, rx' \in Sides, next' \in Nat \ {0},
         Follows(rx'.session, tx.session), Follows(rx'.ppk, tx.ppk)
  PROVE  BspInv'
<1>1. BspTypes'
  BY DEF BspInv, BspTypes
<1>2. MacsMade'
  BY DEF BspInv, MacsMade, AllMade, Made, IsPrefixOf
<1>3. Follows(rx.session, tx.session)' /\ Follows(rx.ppk, tx.ppk)'
  BY DEF Follows, IsPrefixOf
<1> QED  BY <1>1, <1>2, <1>3 DEF BspInv

\* An empty list holds no segment.
LEMMA EmptyList == \A t : <<>> \in Seq(Segments) /\ AllMade(<<>>, t)
  BY DEF AllMade

\* A package that has not been built holds no MAC.
LEMMA NoPackageMade ==
  ASSUME NEW t
  PROVE  /\ NoPackage \in Packages
         /\ AllMade(NoPackage.configureIsdp, t) /\ AllMade(NoPackage.storeMetadata, t)
         /\ AllMade(NoPackage.replaceSessionKeys, t) /\ AllMade(NoPackage.profileData, t)
  BY EmptyList DEF NoPackage, Packages

\* Two new sides follow each other.
LEMMA NewSide ==
  ASSUME NEW k \in Keys
  PROVE  /\ Side(k) \in Sides
         /\ Side(k).session.mac_chain = <<>> /\ Side(k).ppk.mac_chain = <<>>
<1>1. /\ BspCrypto(k) \in Instances(Keys) /\ BspCrypto(k).mac_chain = <<>>
      /\ BspCrypto(PPK) \in Instances({PPK}) /\ BspCrypto(PPK).mac_chain = <<>>
  BY NewInstance
<1> QED  BY <1>1 DEF Side, Sides

\* The invariant before the first package.
LEMMA IdleInv == Idle => BspInv
<1> SUFFICES ASSUME Idle PROVE BspInv
  OBVIOUS
<1>1. PICK k \in Keys, l \in Keys : tx = Side(k) /\ rx = Side(l)
  BY DEF Idle
<1>2. BspTypes
  BY <1>1, NewSide, NoPackageMade DEF Idle, BspTypes, Packages
<1>3. MacsMade
  BY NoPackageMade DEF Idle, MacsMade
<1>4. Follows(rx.session, tx.session) /\ Follows(rx.ppk, tx.ppk)
  BY <1>1, NewSide DEF Follows
<1> QED  BY <1>2, <1>3, <1>4 DEF BspInv

\* The invariant with a new package: both sides are new instances (BspCrypto::from_kdf()).
LEMMA StartStep ==
  ASSUME NEW s \in Keys, NEW r \in Keys, Start(s, r)
  PROVE  BspInv'
<1>1. tx' = Side(s) /\ rx' = Side(r) /\ bpp' = NoPackage /\ next' = 1
  BY DEF Start, Side, from_kdf
<1>2. BspTypes'
  BY <1>1, NewSide, NoPackageMade DEF BspTypes, Packages
<1>3. MacsMade'
  <2>1. /\ AllMade(NoPackage.configureIsdp, tx') /\ AllMade(NoPackage.storeMetadata, tx')
        /\ AllMade(NoPackage.replaceSessionKeys, tx') /\ AllMade(NoPackage.profileData, tx')
    BY NoPackageMade
  <2> QED  BY <1>1, <2>1 DEF MacsMade, AllMade, Made, IsPrefixOf
<1>4. Follows(rx.session, tx.session)' /\ Follows(rx.ppk, tx.ppk)'
  BY <1>1, NewSide DEF Follows
<1> QED  BY <1>2, <1>3, <1>4 DEF BspInv

\* What the invariant says of the state a step starts from.
LEMMA InvFacts ==
  ASSUME BspInv
  PROVE  /\ tx \in Sides /\ rx \in Sides /\ bpp \in Packages /\ next \in Nat \ {0}
         /\ tx.session \in Instances(Keys) /\ tx.ppk \in Instances({PPK})
         /\ rx.session \in Instances(Keys) /\ rx.ppk \in Instances({PPK})
         /\ rx.session.key \in Keys /\ rx.ppk.key = PPK
         /\ AllMade(bpp.configureIsdp, tx) /\ AllMade(bpp.storeMetadata, tx)
         /\ AllMade(bpp.replaceSessionKeys, tx) /\ AllMade(bpp.profileData, tx)
         /\ bpp.configureIsdp \in Seq(Segments) /\ bpp.storeMetadata \in Seq(Segments)
         /\ bpp.replaceSessionKeys \in Seq(Segments) /\ bpp.profileData \in Seq(Segments)
         /\ Follows(rx.session, tx.session) /\ Follows(rx.ppk, tx.ppk)
  BY DEF BspInv, BspTypes, MacsMade, Packages, Sides, Instances

\* What an action of the sender does to the chains.
SenderDoes(d, tag, b, e) ==
  /\ e = encrypt_and_mac_one(b, tag, d) \/ e = mac_only_one(b, tag, d)
  /\ \/ b = tx.session /\ tx' \in {[tx EXCEPT !.session = e.bsp],
                                   [tx EXCEPT !.session = e.bsp, !.replaced = TRUE]}
     \/ b = tx.ppk /\ tx' = [tx EXCEPT !.ppk = e.bsp]
  /\ \/ bpp' = [bpp EXCEPT !.configureIsdp = <<e.segment>>]
     \/ bpp' = [bpp EXCEPT !.storeMetadata = Append(@, e.segment)]
     \/ bpp' = [bpp EXCEPT !.replaceSessionKeys = <<e.segment>>,
                           !.hasReplaceSessionKeys = TRUE]
     \/ bpp' = [bpp EXCEPT !.profileData = Append(@, e.segment)]
  /\ UNCHANGED <<rx, next>>

\* The invariant when the sender protects a segment (encrypt_and_mac_seg(), mac_only_seg()).
LEMMA SenderInv ==
  ASSUME BspInv, ProtectConfigureIsdp \/ ProtectMetadata \/ ProtectReplaceSessionKeys
                 \/ ProtectProfile
  PROVE  BspInv'
<1>0. \E d \in AllData, tag \in Nat : \E b, e : SenderDoes(d, tag, b, e)
  <2> Datas \subseteq AllData /\ PPK \in AllData /\ Garbage \in AllData
      /\ 86 \in Nat /\ 87 \in Nat /\ 88 \in Nat /\ "configureIsdp" \in Parts
    BY DEF AllData, Parts
  <2>1. CASE ProtectConfigureIsdp
    <3>1. PICK d \in Datas :
            SenderDoes(d, 87, tx.session, encrypt_and_mac_one(tx.session, 87, d))
      BY <2>1 DEF ProtectConfigureIsdp, SenderDoes
    <3> QED  BY <3>1
  <2>2. CASE ProtectMetadata
    <3>1. PICK d \in Datas :
            SenderDoes(d, 88, tx.session, mac_only_one(tx.session, 88, d))
      BY <2>2 DEF ProtectMetadata, SenderDoes
    <3> QED  BY <3>1
  <2>3. CASE ProtectReplaceSessionKeys
    <3>1. PICK d \in {PPK, Garbage} :
            SenderDoes(d, 87, tx.session, encrypt_and_mac_one(tx.session, 87, d))
      BY <2>3 DEF ProtectReplaceSessionKeys, SenderDoes, generate_replace_session_keys_data
    <3> QED  BY <3>1
  <2>4. CASE ProtectProfile
    <3>1. CASE tx.replaced
      <4>1. PICK d \in Datas :
              SenderDoes(d, 86, tx.ppk, encrypt_and_mac_one(tx.ppk, 86, d))
        BY <2>4, <3>1 DEF ProtectProfile, SenderDoes
      <4> QED  BY <4>1
    <3>2. CASE ~tx.replaced
      <4>1. PICK d \in Datas :
              SenderDoes(d, 86, tx.session, encrypt_and_mac_one(tx.session, 86, d))
        BY <2>4, <3>2 DEF ProtectProfile, SenderDoes
      <4> QED  BY <4>1
    <3> QED  BY <3>1, <3>2
  <2> QED  BY <2>1, <2>2, <2>3, <2>4
<1>1. PICK d \in AllData, tag \in Nat : \E b, e : SenderDoes(d, tag, b, e)
  BY <1>0
<1>1a. PICK b, e : SenderDoes(d, tag, b, e)
  BY <1>1
<1>2. b \in Instances(Keys) \/ b \in Instances({PPK})
  BY <1>1a, InvFacts DEF SenderDoes
<1>3. /\ b = tx.session => e.bsp \in Instances(Keys)
      /\ b = tx.ppk => e.bsp \in Instances({PPK})
  <2>1. Keys \in SUBSET (Keys \cup {PPK}) /\ {PPK} \in SUBSET (Keys \cup {PPK})
    OBVIOUS
  <2>2. e = encrypt_and_mac_one(b, tag, d) \/ e = mac_only_one(b, tag, d)
    BY <1>1a DEF SenderDoes
  <2>3. ASSUME b \in Instances(Keys) PROVE e.bsp \in Instances(Keys)
    BY <2>1, <2>2, <2>3, Protected, ZenonT(60)
  <2>4. ASSUME b \in Instances({PPK}) PROVE e.bsp \in Instances({PPK})
    BY <2>1, <2>2, <2>4, Protected, ZenonT(60)
  <2> QED  BY <2>3, <2>4, InvFacts
<1>4. /\ tx' \in Sides
      /\ \/ b = tx.session /\ tx'.session = e.bsp /\ tx'.ppk = tx.ppk
         \/ b = tx.ppk /\ tx'.ppk = e.bsp /\ tx'.session = tx.session
  BY <1>1a, <1>3, InvFacts DEF Sides, SenderDoes
<1>5. /\ e.segment \in Segments /\ Made(e.segment.mac, tx')
      /\ \A list \in Seq(Segments) : AllMade(list, tx) => AllMade(list, tx')
      /\ Follows(rx.session, tx'.session) /\ Follows(rx.ppk, tx'.ppk)
  <2>1. e = encrypt_and_mac_one(b, tag, d) \/ e = mac_only_one(b, tag, d)
    BY <1>1a DEF SenderDoes
  <2> DEFINE u == tx'
  <2>2. /\ u \in Sides
        /\ \/ b = tx.session /\ u.session = e.bsp /\ u.ppk = tx.ppk
           \/ b = tx.ppk /\ u.ppk = e.bsp /\ u.session = tx.session
    BY <1>4
  <2> HIDE DEF u
  <2>3. /\ e.segment \in Segments /\ Made(e.segment.mac, u)
        /\ \A list \in Seq(Segments) : AllMade(list, tx) => AllMade(list, u)
        /\ Follows(rx.session, u.session) /\ Follows(rx.ppk, u.ppk)
    BY <2>1, <2>2, SenderStep, ZenonT(60)
  <2> QED  BY <2>3 DEF u
<1>6. /\ AllMade(bpp.configureIsdp, tx') /\ AllMade(bpp.storeMetadata, tx')
      /\ AllMade(bpp.replaceSessionKeys, tx') /\ AllMade(bpp.profileData, tx')
  BY <1>5, InvFacts
<1>7. \A list \in {bpp.configureIsdp, bpp.storeMetadata, bpp.replaceSessionKeys,
                   bpp.profileData} :
        /\ Append(list, e.segment) \in Seq(Segments) /\ AllMade(Append(list, e.segment), tx')
        /\ <<e.segment>> \in Seq(Segments) /\ AllMade(<<e.segment>>, tx')
  BY <1>5, <1>6, InvFacts, OneMore
<1>8. bpp' \in Packages
  BY <1>1a, <1>7, InvFacts DEF Packages, SenderDoes
<1>9. /\ AllMade(bpp'.configureIsdp, tx') /\ AllMade(bpp'.storeMetadata, tx')
      /\ AllMade(bpp'.replaceSessionKeys, tx') /\ AllMade(bpp'.profileData, tx')
  BY <1>1a, <1>6, <1>7, InvFacts DEF Packages, SenderDoes
<1> QED  BY <1>1a, <1>4, <1>5, <1>8, <1>9, AddStep DEF SenderDoes

\* The invariant when the package is disturbed on its way.
LEMMA ChannelInv ==
  ASSUME BspInv, Channel
  PROVE  BspInv'
<1>1. bpp' \in Packages /\ UNCHANGED <<tx, rx, next>>
      /\ AllMade(bpp'.configureIsdp, tx) /\ AllMade(bpp'.storeMetadata, tx)
      /\ AllMade(bpp'.replaceSessionKeys, tx) /\ AllMade(bpp'.profileData, tx)
  <2>1. CASE Misdeliver
    <3>0. PICK part \in Parts : \E list \in UpTo(PoolOf(part), Len(bpp[part]) + 1) :
            Disturbed([bpp EXCEPT ![part] = list])
      BY <2>1 DEF Misdeliver
    <3>1. PICK list \in UpTo(PoolOf(part), Len(bpp[part]) + 1) :
            Disturbed([bpp EXCEPT ![part] = list])
      BY <3>0
    <3>2. Len(bpp[part]) + 1 \in Nat
      BY InvFacts DEF Parts, Packages
    <3>3. list \in Seq(Segments) /\ AllMade(list, tx)
      BY <3>1, <3>2, Pooled
    <3> QED  BY <3>1, <3>3, InvFacts DEF Disturbed, Parts, Packages
  <2>2. CASE Alter
    <3>0. PICK part \in Parts : \E i \in 1..Len(bpp[part]), d \in Datas \cup {PPK} :
            Disturbed([bpp EXCEPT ![part][i].payload.data = d])
      BY <2>2 DEF Alter
    <3>1. PICK i \in 1..Len(bpp[part]), d \in Datas \cup {PPK} :
            Disturbed([bpp EXCEPT ![part][i].payload.data = d])
      BY <3>0
    <3>2. bpp[part] \in Seq(Segments) /\ AllMade(bpp[part], tx)
      BY InvFacts DEF Parts
    <3>3. d \in AllData
      BY DEF AllData
    <3> DEFINE new == [bpp[part] EXCEPT ![i].payload.data = d]
    <3>4. new \in Seq(Segments) /\ AllMade(new, tx)
      BY <3>2, <3>3, AlteredMade
    <3>5. bpp' = [bpp EXCEPT ![part] = new] /\ UNCHANGED <<tx, rx, next>>
      BY <3>1, InvFacts DEF Disturbed, Parts, Packages
    <3> HIDE DEF new
    <3> QED  BY <3>4, <3>5, InvFacts DEF Parts, Packages
  <2>3. CASE LoseReplaceSessionKeys
    BY <2>3, InvFacts DEF LoseReplaceSessionKeys, Disturbed, Packages
  <2>4. CASE Damage
    BY <2>4, InvFacts DEF Damage, Disturbed, Packages
  <2> QED  BY <2>1, <2>2, <2>3, <2>4 DEF Channel
<1> QED  BY <1>1, PackageStep

\* Steps that touch none of the chains.
LEMMA QuietInv ==
  ASSUME BspInv, UNCHANGED <<tx, rx, bpp>>, next' \in Nat \ {0}
  PROVE  BspInv'
<1>1. BspTypes'
  BY DEF BspInv, BspTypes
<1>2. MacsMade'
  BY DEF BspInv, MacsMade, AllMade, Made, IsPrefixOf
<1>3. Follows(rx.session, tx.session)' /\ Follows(rx.ppk, tx.ppk)'
  BY DEF BspInv, Follows, IsPrefixOf
<1> QED  BY <1>1, <1>2, <1>3 DEF BspInv

\* The invariant in every step of process_bound_profile_package().
LEMMA ReceiverInv ==
  ASSUME BspInv, process_bound_profile_package
  PROVE  BspInv'
<1> USE InvFacts
<1>0. Keys \in SUBSET (Keys \cup {PPK}) /\ {PPK} \in SUBSET (Keys \cup {PPK})
  OBVIOUS
<1>1. CASE Decode
  BY <1>1, QuietInv DEF Decode
<1>2. CASE MetadataDone
  BY <1>2, QuietInv DEF MetadataDone
<1>3. CASE ProfileDone
  BY <1>3, QuietInv DEF ProfileDone
<1>4. CASE Throw
  BY <1>4, QuietInv DEF Throw
<1>5. ASSUME NEW list \in Seq(Segments), AllMade(list, tx), NEW i \in Nat \ {0},
             NEW decrypt, NEW v, v = decrypt_and_verify(rx.session, list, i, decrypt), v.ok
      PROVE  v.bsp \in Instances(Keys) /\ Follows(v.bsp, tx.session)
  BY <1>0, <1>5, Verified
<1>6. ASSUME NEW list \in Seq(Segments), AllMade(list, tx), NEW i \in Nat \ {0},
             NEW decrypt, NEW v, v = decrypt_and_verify(rx.ppk, list, i, decrypt), v.ok
      PROVE  v.bsp \in Instances({PPK}) /\ Follows(v.bsp, tx.ppk)
  BY <1>0, <1>6, Verified
<1>a. 1 \in Nat \ {0}
  OBVIOUS
<1>b. /\ bpp.configureIsdp \in Seq(Segments) /\ AllMade(bpp.configureIsdp, tx)
      /\ bpp.storeMetadata \in Seq(Segments) /\ AllMade(bpp.storeMetadata, tx)
      /\ bpp.replaceSessionKeys \in Seq(Segments) /\ AllMade(bpp.replaceSessionKeys, tx)
      /\ bpp.profileData \in Seq(Segments) /\ AllMade(bpp.profileData, tx)
      /\ next \in Nat \ {0}
  OBVIOUS
<1>7. CASE ConfigureIsdp /\ ~Throw
  <2> DEFINE v == decrypt_and_verify(rx.session, bpp.configureIsdp, 1, TRUE)
  <2>1. v.ok /\ rx' = [rx EXCEPT !.session = v.bsp] /\ next' = 1 /\ UNCHANGED <<tx, bpp>>
    BY <1>7 DEF ConfigureIsdp
  <2>2. v.bsp \in Instances(Keys) /\ Follows(v.bsp, tx.session)
    BY <2>1, <1>a, <1>b, <1>5, Zenon
  <2> HIDE DEF v
  <2>3. rx' \in Sides /\ rx'.session = v.bsp /\ rx'.ppk = rx.ppk
    BY <2>1, <2>2 DEF Sides
  <2> QED  BY <2>1, <2>2, <2>3, ReceiveStep
<1>8. CASE StoreMetadata /\ ~Throw
  <2> DEFINE v == decrypt_and_verify(rx.session, bpp.storeMetadata, next, FALSE)
  <2>1. v.ok /\ rx' = [rx EXCEPT !.session = v.bsp] /\ next' = next + 1
        /\ UNCHANGED <<tx, bpp>>
    BY <1>8 DEF StoreMetadata
  <2>2. v.bsp \in Instances(Keys) /\ Follows(v.bsp, tx.session)
    BY <2>1, <1>a, <1>b, <1>5, Zenon
  <2> HIDE DEF v
  <2>3. rx' \in Sides /\ rx'.session = v.bsp /\ rx'.ppk = rx.ppk
    BY <2>1, <2>2 DEF Sides
  <2> QED  BY <2>1, <2>2, <2>3, ReceiveStep
<1>9. CASE ReplaceSessionKeys /\ ~Throw
  <2> DEFINE v == decrypt_and_verify(rx.session, bpp.replaceSessionKeys, 1, TRUE)
  <2>1. v.ok /\ rx' = [session |-> v.bsp, replaced |-> TRUE, ppk |-> BspCrypto(PPK)]
        /\ next' = 1 /\ UNCHANGED <<tx, bpp>>
    BY <1>9 DEF ReplaceSessionKeys, parse_replace_session_keys, from_replace_session_keys
  <2>2. v.bsp \in Instances(Keys) /\ Follows(v.bsp, tx.session)
    BY <2>1, <1>a, <1>b, <1>5, Zenon
  <2> HIDE DEF v
  <2>3. BspCrypto(PPK) \in Instances({PPK}) /\ BspCrypto(PPK).mac_chain = <<>>
    BY NewInstance
  <2>4. rx' \in Sides /\ rx'.session = v.bsp /\ rx'.ppk.mac_chain = <<>>
    BY <2>1, <2>2, <2>3 DEF Sides
  <2>5. Follows(rx'.ppk, tx.ppk)
    BY <2>4 DEF Follows
  <2> QED  BY <2>1, <2>2, <2>4, <2>5, ReceiveStep
<1>10. CASE ProfileData /\ ~Throw
  <2>1. CASE rx.replaced
    <3> DEFINE v == decrypt_and_verify(rx.ppk, bpp.profileData, next, TRUE)
    <3>1. v.ok /\ rx' = [rx EXCEPT !.ppk = v.bsp] /\ next' = next + 1
          /\ UNCHANGED <<tx, bpp>>
      BY <1>10, <2>1 DEF ProfileData
    <3>2. v.bsp \in Instances({PPK}) /\ Follows(v.bsp, tx.ppk)
      BY <3>1, <1>a, <1>b, <1>6, Zenon
    <3> HIDE DEF v
    <3>3. rx' \in Sides /\ rx'.ppk = v.bsp /\ rx'.session = rx.session
      BY <3>1, <3>2 DEF Sides
    <3> QED  BY <3>1, <3>2, <3>3, ReceiveStep
  <2>2. CASE ~rx.replaced
    <3> DEFINE v == decrypt_and_verify(rx.session, bpp.profileData, next, TRUE)
    <3>1. v.ok /\ rx' = [rx EXCEPT !.session = v.bsp] /\ next' = next + 1
          /\ UNCHANGED <<tx, bpp>>
      BY <1>10, <2>2 DEF ProfileData
    <3>2. v.bsp \in Instances(Keys) /\ Follows(v.bsp, tx.session)
      BY <3>1, <1>a, <1>b, <1>5, Zenon
    <3> HIDE DEF v
    <3>3. rx' \in Sides /\ rx'.session = v.bsp /\ rx'.ppk = rx.ppk
      BY <3>1, <3>2 DEF Sides
    <3> QED  BY <3>1, <3>2, <3>3, ReceiveStep
  <2> QED  BY <2>1, <2>2
<1> QED  BY <1>1, <1>2, <1>3, <1>4, <1>7, <1>8, <1>9, <1>10
         DEF process_bound_profile_package

\* The invariant is inductive.
LEMMA StepInv == BspInv /\ [(\E s, r \in Keys : Start(s, r)) \/ BspStep]_bspVars => BspInv'
<1> SUFFICES ASSUME BspInv, [(\E s, r \in Keys : Start(s, r)) \/ BspStep]_bspVars
             PROVE  BspInv'
  OBVIOUS
<1>1. CASE \E s, r \in Keys : Start(s, r)
  BY <1>1, StartStep
<1>2. CASE Sender
  <2>1. CASE Send
    BY <2>1, QuietInv, InvFacts DEF Send
  <2> QED  BY <1>2, <2>1, SenderInv DEF Sender
<1>3. CASE Channel
  BY <1>3, ChannelInv
<1>4. CASE process_bound_profile_package
  BY <1>4, ReceiverInv
<1>5. CASE UNCHANGED bspVars
  BY <1>5, QuietInv, InvFacts DEF bspVars
<1> QED  BY <1>1, <1>2, <1>3, <1>4, <1>5 DEF BspStep

\* The invariant implies the property.
LEMMA InvImplies == BspInv => VerifiedInOrder
<1> SUFFICES ASSUME BspInv, NEW instance \in {"session", "ppk"}
             PROVE  rx[instance].mac_chain # <<>> =>
                      /\ rx[instance].key = tx[instance].key
                      /\ IsPrefixOf(rx[instance].mac_chain, tx[instance].mac_chain)
  BY DEF VerifiedInOrder
<1> QED  BY DEF BspInv, Follows

\* Whatever happens to the packages under way, what the receiver's instances have
\* verified is what the sender's have protected first, in its order, under the same
\* key (smdpp/bsp_crypto.cc, verify_and_decrypt_helper() and generate_icv()).
THEOREM VerifiedInOrderThm == BspSpec => []VerifiedInOrder
<1>1. Idle => BspInv
  BY IdleInv
<1>2. BspInv /\ [(\E s, r \in Keys : Start(s, r)) \/ BspStep]_bspVars => BspInv'
  BY StepInv
<1>3. BspInv => VerifiedInOrder
  BY InvImplies
<1> QED  BY <1>1, <1>2, <1>3, PTL DEF BspSpec
-----------------------------------------------------------------------------
(* What is accepted: the blocks, tags and results that go with the chains. *)

\* The block of an instance counts the entries of its chain.
Counted(b) == b.block_number = Len(b.mac_chain) + 1

\* An entry of an encrypted segment was encrypted under the key of the chain and
\* the block of its place.
Sealed(b) ==
  \A i \in 1..Len(b.mac_chain) : b.mac_chain[i].tag # 88 =>
    /\ b.mac_chain[i].payload.encrypted
    /\ b.mac_chain[i].payload.key = b.key
    /\ b.mac_chain[i].payload.block = i

\* The order of the sender's chains: ConfigureISDP, all metadata, then either the
\* profile or the new keys.
SessionOrder ==
  LET S == tx.session.mac_chain IN
  /\ \A i \in 1..Len(S) :
       /\ S[i].tag \in {86, 87, 88}
       /\ i = 1 => S[i].tag = 87
       /\ i > 1 /\ S[i].tag = 87 => tx.replaced
       /\ S[i].tag = 86 => ~tx.replaced
  /\ \A i, j \in 1..Len(S) : i < j /\ S[j].tag = 88 => i = 1 \/ S[i].tag = 88
PpkOrder == \A i \in 1..Len(tx.ppk.mac_chain) : tx.ppk.mac_chain[i].tag = 86

\* While the package is built its lists tell how far the chains are.
Building ==
  LET S == tx.session.mac_chain IN
  at = "build" =>
    /\ tx.replaced = bpp.hasReplaceSessionKeys
    /\ bpp.configureIsdp = <<>> <=> S = <<>>
    /\ bpp.storeMetadata # <<>> => S # <<>>
    /\ ~tx.replaced /\ bpp.profileData = <<>> => \A i \in 1..Len(S) : i > 1 => S[i].tag = 88

\* Each list holds segments of its tags, wherever disturbances take them from.
HasTag(list, tag) == \A i \in 1..Len(list) : list[i].tag = tag
PackageTags ==
  /\ HasTag(bpp.configureIsdp, 87) /\ HasTag(bpp.replaceSessionKeys, 87)
  /\ HasTag(bpp.storeMetadata, 88) /\ HasTag(bpp.profileData, 86)

SenderInOrder ==
  /\ Counted(tx.session) /\ Counted(tx.ppk) /\ Sealed(tx.session) /\ Sealed(tx.ppk)
  /\ SessionOrder /\ PpkOrder /\ Building /\ PackageTags

Results == [configureIsdp : Seq(AllData), storeMetadata : Seq(AllData),
            hasReplaceSessionKeys : BOOLEAN, profileData : Seq(AllData)]

\* The receiver has read the first segment and the metadata handed out.
MetadataRead ==
  LET R == rx.session.mac_chain
      m == Len(res.storeMetadata)
  IN  /\ Len(R) > m
      /\ res.configureIsdp = <<R[1].payload.data>>
      /\ \A i \in 1..m : R[1 + i].tag = 88 /\ res.storeMetadata[i] = R[1 + i].payload.data

\* And the profile handed out: after the keys of the package, under these; or after
\* the metadata.
ProfileRead ==
  LET R == rx.session.mac_chain
      P == rx.ppk.mac_chain
      m == Len(res.storeMetadata)
      k == Len(res.profileData)
  IN  /\ MetadataRead
      /\ rx.replaced = res.hasReplaceSessionKeys
      /\ rx.replaced =>
           /\ Len(R) = m + 2 /\ R[m + 2].tag = 87 /\ Len(P) = k
           /\ \A i \in 1..k : res.profileData[i] = P[i].payload.data
      /\ ~rx.replaced =>
           /\ Len(R) = m + 1 + k
           /\ \A i \in 1..k : /\ R[m + 1 + i].tag = 86
                              /\ res.profileData[i] = R[m + 1 + i].payload.data

NothingRead ==
  /\ rx.session.mac_chain = <<>> /\ rx.replaced = FALSE
  /\ res.configureIsdp = <<>> /\ res.storeMetadata = <<>> /\ res.profileData = <<>>

OnlyMetadataRead ==
  /\ MetadataRead
  /\ rx.replaced = FALSE /\ res.profileData = <<>>
  /\ Len(rx.session.mac_chain) = Len(res.storeMetadata) + 1

\* How far the receiver is.
Reading ==
  /\ at \in {"idle", "build", "transit", "isdp"} => NothingRead
  /\ at \in {"metadata", "replace"} => OnlyMetadataRead
  /\ at = "replace" => res.hasReplaceSessionKeys
  /\ at = "profile" \/ (at = "done" /\ res.configureIsdp # <<>>) => ProfileRead

ReceiverInOrder ==
  /\ Counted(rx.session) /\ Counted(rx.ppk)
  /\ res \in Results
  /\ Reading

\* The inductive invariant behind AcceptedAsSent.
AcceptInv == BspInv /\ SenderInOrder /\ ReceiverInOrder

\* What a MAC does to the chain it is made over.
LEMMA Grown ==
  ASSUME NEW keys \in SUBSET (Keys \cup {PPK}), NEW b \in Instances(keys), NEW tag \in Nat,
         NEW payload \in Payloads
  PROVE  LET c == Advanced(b, compute_mac(b, tag, payload)) IN
         /\ c.key = b.key /\ c.block_number = b.block_number + 1
         /\ Len(b.mac_chain) \in Nat /\ Len(c.mac_chain) = Len(b.mac_chain) + 1
         /\ \A i \in 1..Len(b.mac_chain) : c.mac_chain[i] = b.mac_chain[i]
         /\ c.mac_chain[Len(b.mac_chain) + 1] = [tag |-> tag, payload |-> payload]
<1> DEFINE c == Advanced(b, compute_mac(b, tag, payload))
<1>1. b.mac_chain \in Seq(Entries) /\ [tag |-> tag, payload |-> payload] \in Entries
  BY DEF Instances, Entries
<1>2. /\ c.key = b.key /\ c.block_number = b.block_number + 1
      /\ c.mac_chain = Append(b.mac_chain, [tag |-> tag, payload |-> payload])
  BY DEF Advanced, compute_mac
<1> QED  BY <1>1, <1>2

\* A segment of the sender: the instance counts on and its chain stays sealed.
LEMMA AfterSegment ==
  ASSUME NEW keys \in SUBSET (Keys \cup {PPK}), NEW b \in Instances(keys), NEW tag \in Nat,
         NEW d \in AllData, NEW e, Counted(b), Sealed(b),
         \/ e = encrypt_and_mac_one(b, tag, d)
         \/ tag = 88 /\ e = mac_only_one(b, tag, d)
  PROVE  /\ Counted(e.bsp) /\ Sealed(e.bsp) /\ e.segment.tag = tag
         /\ Len(b.mac_chain) \in Nat /\ Len(e.bsp.mac_chain) = Len(b.mac_chain) + 1
         /\ \A i \in 1..Len(b.mac_chain) : e.bsp.mac_chain[i] = b.mac_chain[i]
         /\ e.bsp.mac_chain[Len(b.mac_chain) + 1].tag = tag
<1>1. aes_encrypt(b, d) \in Payloads /\ Plain(b, d) \in Payloads
  BY DEF aes_encrypt, Plain, Payloads, Instances
<1>2. PICK p \in Payloads :
        /\ e.bsp = Advanced(b, compute_mac(b, tag, p)) /\ e.segment.tag = tag
        /\ tag # 88 => p.encrypted /\ p.key = b.key /\ p.block = b.block_number
  BY <1>1 DEF encrypt_and_mac_one, mac_only_one, Segment, aes_encrypt
<1> DEFINE c == e.bsp
<1> HIDE DEF c
<1>3. /\ c.key = b.key /\ c.block_number = b.block_number + 1
      /\ Len(b.mac_chain) \in Nat /\ Len(c.mac_chain) = Len(b.mac_chain) + 1
      /\ \A i \in 1..Len(b.mac_chain) : c.mac_chain[i] = b.mac_chain[i]
      /\ c.mac_chain[Len(b.mac_chain) + 1] = [tag |-> tag, payload |-> p]
  <2>1. c = Advanced(b, compute_mac(b, tag, p))
    BY <1>2 DEF c
  <2> QED  BY <2>1, Grown
<1>4. Counted(c)
  BY <1>3 DEF Counted, Instances
<1>5. Sealed(c)
  <2> SUFFICES ASSUME NEW i \in 1..Len(c.mac_chain), c.mac_chain[i].tag # 88
               PROVE  /\ c.mac_chain[i].payload.encrypted
                      /\ c.mac_chain[i].payload.key = c.key
                      /\ c.mac_chain[i].payload.block = i
    BY DEF Sealed
  <2>1. CASE i \in 1..Len(b.mac_chain)
    BY <2>1, <1>3 DEF Sealed
  <2>2. CASE i = Len(b.mac_chain) + 1
    BY <2>2, <1>2, <1>3 DEF Counted
  <2> QED  BY <1>3, <2>1, <2>2
<1> QED  BY <1>2, <1>3, <1>4, <1>5 DEF c

\* A segment the receiver accepts: what decrypt_and_verify() hands out is what the
\* sender put into the entry of that place.
LEMMA ReadSegment ==
  ASSUME NEW keys \in SUBSET (Keys \cup {PPK}), NEW b \in Instances(keys),
         NEW list \in Seq(Segments), NEW i \in Nat \ {0}, NEW decrypt \in BOOLEAN, NEW v,
         v = decrypt_and_verify(b, list, i, decrypt), v.ok,
         NEW t \in Instances(keys), Follows(v.bsp, t), Sealed(t), Counted(b),
         NEW tag \in Nat, HasTag(list, tag), decrypt => tag # 88
  PROVE  /\ Counted(v.bsp) /\ v.data \in AllData
         /\ Len(b.mac_chain) \in Nat /\ Len(v.bsp.mac_chain) = Len(b.mac_chain) + 1
         /\ \A j \in 1..Len(b.mac_chain) : v.bsp.mac_chain[j] = b.mac_chain[j]
         /\ v.bsp.mac_chain[Len(b.mac_chain) + 1].tag = tag
         /\ v.data = v.bsp.mac_chain[Len(b.mac_chain) + 1].payload.data
<1>1. i \in 1..Len(list) /\ list[i] \in Segments
  BY DEF decrypt_and_verify
<1>2. PICK p \in Payloads : p = list[i].payload
  BY <1>1 DEF Segments
<1> DEFINE c == v.bsp
           n == Len(b.mac_chain) + 1
<1>3. /\ c = Advanced(b, compute_mac(b, tag, p))
      /\ v.data = IF decrypt THEN aes_decrypt_with_icv(b, p) ELSE p.data
  BY <1>1, <1>2 DEF decrypt_and_verify, verify_and_decrypt_helper, HasTag
<1> HIDE DEF c
<1>4. /\ c.key = b.key /\ c.block_number = b.block_number + 1
      /\ Len(b.mac_chain) \in Nat /\ Len(c.mac_chain) = n
      /\ \A j \in 1..Len(b.mac_chain) : c.mac_chain[j] = b.mac_chain[j]
      /\ c.mac_chain[n] = [tag |-> tag, payload |-> p]
  BY <1>3, Grown
<1>5. b.key = t.key /\ IsPrefixOf(c.mac_chain, t.mac_chain)
  <2>1. c.mac_chain # <<>>
    BY <1>4
  <2> QED  BY <1>4, <2>1 DEF Follows, c
<1>6. n \in 1..Len(t.mac_chain) /\ t.mac_chain[n] = [tag |-> tag, payload |-> p]
  <2>1. Len(t.mac_chain) \in Nat
    BY DEF Instances
  <2> QED  BY <1>4, <1>5, <2>1 DEF IsPrefixOf
<1>7. Counted(c)
  BY <1>4 DEF Counted, Instances
<1>8. v.data = p.data
  <2>1. CASE ~decrypt
    BY <2>1, <1>3
  <2>2. CASE decrypt
    <3>1. p.encrypted /\ p.key = b.key /\ p.block = b.block_number
      BY <2>2, <1>5, <1>6 DEF Sealed, Counted
    <3> QED  BY <3>1, <2>2, <1>3 DEF aes_decrypt_with_icv
  <2> QED  BY <2>1, <2>2
<1>9. p.data \in AllData
  BY DEF Payloads
<1> QED  BY <1>4, <1>7, <1>8, <1>9 DEF c

\* The last segment of a list that was lengthened, or of a new one, has the tag, too.
LEMMA TagsKept ==
  ASSUME NEW list \in Seq(Segments), NEW tag, HasTag(list, tag), NEW seg \in Segments,
         seg.tag = tag
  PROVE  /\ HasTag(Append(list, seg), tag) /\ HasTag(<<seg>>, tag)
         /\ Append(list, seg) # <<>>
<1>1. Len(Append(list, seg)) = Len(list) + 1 /\ Len(list) \in Nat
  OBVIOUS
<1>2. \A i \in 1..Len(Append(list, seg)) :
        \/ Append(list, seg)[i] = seg
        \/ i \in 1..Len(list) /\ Append(list, seg)[i] = list[i]
  OBVIOUS
<1>3. Append(list, seg) # <<>>
  BY <1>1
<1> QED  BY <1>2, <1>3 DEF HasTag

\* Instance c is instance b after one more segment with that tag.
OneSegmentOn(c, b, tag) ==
  /\ Counted(c)
  /\ Len(b.mac_chain) \in Nat /\ Len(c.mac_chain) = Len(b.mac_chain) + 1
  /\ \A i \in 1..Len(b.mac_chain) : c.mac_chain[i] = b.mac_chain[i]
  /\ c.mac_chain[Len(b.mac_chain) + 1].tag = tag

\* The segment of an action and the instances after it.
LEMMA Segmented ==
  ASSUME NEW tag \in Nat, NEW d \in AllData, NEW b, NEW e, Counted(b), Sealed(b),
         b \in Instances(Keys) \/ b \in Instances({PPK}),
         \/ e = encrypt_and_mac_one(b, tag, d)
         \/ tag = 88 /\ e = mac_only_one(b, tag, d)
  PROVE  /\ OneSegmentOn(e.bsp, b, tag) /\ Sealed(e.bsp)
         /\ e.segment \in Segments /\ e.segment.tag = tag
<1>1. Keys \in SUBSET (Keys \cup {PPK}) /\ {PPK} \in SUBSET (Keys \cup {PPK})
  OBVIOUS
<1>2. PICK keys \in SUBSET (Keys \cup {PPK}) : b \in Instances(keys)
  BY <1>1
<1>3. e.segment \in Segments
  <2>1. e = encrypt_and_mac_one(b, tag, d) \/ e = mac_only_one(b, tag, d)
    OBVIOUS
  <2> QED  BY <1>2, <2>1, Protected
<1>4. /\ Counted(e.bsp) /\ Sealed(e.bsp) /\ e.segment.tag = tag
      /\ Len(b.mac_chain) \in Nat /\ Len(e.bsp.mac_chain) = Len(b.mac_chain) + 1
      /\ \A i \in 1..Len(b.mac_chain) : e.bsp.mac_chain[i] = b.mac_chain[i]
      /\ e.bsp.mac_chain[Len(b.mac_chain) + 1].tag = tag
  BY <1>2, AfterSegment, SMTT(60)
<1> QED  BY <1>3, <1>4, Zenon DEF OneSegmentOn

\* The order of the sender's chains when a segment is protected under the session
\* keys: the first is ConfigureISDP, metadata comes before everything else.
LEMMA SessionSegment ==
  ASSUME BspInv, SenderInOrder, at = "build", at' = at, NEW tag \in {86, 87, 88}, NEW d \in AllData,
         NEW e,
         \/ e = encrypt_and_mac_one(tx.session, tag, d)
         \/ tag = 88 /\ e = mac_only_one(tx.session, tag, d),
         tx'.session = e.bsp, tx'.ppk = tx.ppk, tx.replaced => tx'.replaced,
         LET first == tx.session.mac_chain = <<>> IN
         /\ first => tag = 87
         /\ tag = 88 => bpp.profileData = <<>> /\ ~tx.replaced
         /\ tag = 86 => ~tx'.replaced
         /\ ~first /\ tag = 87 => tx'.replaced
         /\ tx'.replaced /\ ~tx.replaced => bpp.profileData = <<>>
  PROVE  /\ Counted(tx.session)' /\ Counted(tx.ppk)' /\ Sealed(tx.session)' /\ Sealed(tx.ppk)'
         /\ SessionOrder' /\ PpkOrder'
         /\ e.segment \in Segments /\ e.segment.tag = tag
         /\ tx'.session.mac_chain # <<>>
         /\ Len(tx'.session.mac_chain) = Len(tx.session.mac_chain) + 1
         /\ \A i \in 1..Len(tx'.session.mac_chain) :
              i > 1 => \/ i \in 1..Len(tx.session.mac_chain)
                            /\ tx'.session.mac_chain[i] = tx.session.mac_chain[i]
                       \/ tx'.session.mac_chain[i].tag = tag
<1> DEFINE S == tx.session.mac_chain
           T == e.bsp.mac_chain
           n == Len(S) + 1
<1>1. tx.session \in Instances(Keys) /\ tag \in Nat /\ S \in Seq(Entries)
  BY InvFacts DEF Instances
<1>2. Counted(tx.session) /\ Sealed(tx.session) /\ Counted(tx.ppk) /\ Sealed(tx.ppk)
  BY DEF SenderInOrder
<1>3. /\ Counted(e.bsp) /\ Sealed(e.bsp)
      /\ e.segment \in Segments /\ e.segment.tag = tag
      /\ Len(S) \in Nat /\ Len(T) = n
      /\ \A i \in 1..Len(S) : T[i] = S[i]
      /\ T[n].tag = tag
  <2>0. PICK b : b = tx.session
    OBVIOUS
  <2>1. /\ Counted(b) /\ Sealed(b) /\ b \in Instances(Keys) /\ tag \in Nat
        /\ \/ e = encrypt_and_mac_one(b, tag, d)
           \/ tag = 88 /\ e = mac_only_one(b, tag, d)
    BY <1>1, <1>2, <2>0
  <2>2. /\ OneSegmentOn(e.bsp, b, tag) /\ Sealed(e.bsp)
        /\ e.segment \in Segments /\ e.segment.tag = tag
    BY <2>1, Segmented, ZenonT(60)
  <2> QED  BY <2>0, <2>2 DEF OneSegmentOn
<1>4. Counted(tx.session)' /\ Counted(tx.ppk)' /\ Sealed(tx.session)' /\ Sealed(tx.ppk)'
  <2>1. Counted(tx'.session) /\ Counted(tx'.ppk) /\ Sealed(tx'.session) /\ Sealed(tx'.ppk)
    BY <1>2, <1>3
  <2> QED  BY <2>1 DEF Counted, Sealed
<1>5. PpkOrder'
  BY DEF PpkOrder, SenderInOrder
<1>6. S = <<>> <=> n = 1
  BY <1>1
<1>7. \A i \in 1..Len(T) : i \in 1..Len(S) \/ i = n
  BY <1>3
<1> HIDE DEF T
<1>8. SessionOrder'
  <2>1. /\ \A i \in 1..Len(S) :
             /\ S[i].tag \in {86, 87, 88}
             /\ i = 1 => S[i].tag = 87
             /\ i > 1 /\ S[i].tag = 87 => tx.replaced
             /\ S[i].tag = 86 => ~tx.replaced
        /\ \A i, j \in 1..Len(S) : i < j /\ S[j].tag = 88 => i = 1 \/ S[i].tag = 88
    BY DEF SenderInOrder, SessionOrder
  <2>2. ~tx.replaced /\ bpp.profileData = <<>> => \A i \in 1..Len(S) : i > 1 => S[i].tag = 88
    BY DEF SenderInOrder, Building
  <2>3. ASSUME NEW i \in 1..Len(T)
        PROVE  /\ T[i].tag \in {86, 87, 88}
               /\ i = 1 => T[i].tag = 87
               /\ i > 1 /\ T[i].tag = 87 => tx'.replaced
               /\ T[i].tag = 86 => ~tx'.replaced
    <3>1. CASE i \in 1..Len(S)
      <4>1. T[i] = S[i]
        BY <3>1, <1>3
      <4>2. CASE S[i].tag = 86
        <5>1. i # 1 /\ i > 1
          BY <4>2, <3>1, <2>1
        <5>2. ~tx.replaced
          BY <4>2, <3>1, <2>1
        <5>3. bpp.profileData # <<>>
          BY <5>1, <5>2, <4>2, <3>1, <2>2
        <5> QED  BY <4>1, <4>2, <5>1, <5>2, <5>3
      <4> QED  BY <4>1, <4>2, <3>1, <2>1
    <3>2. CASE i = n
      BY <3>2, <1>3, <1>6
    <3> QED  BY <1>7, <3>1, <3>2
  <2>4. ASSUME NEW i \in 1..Len(T), NEW j \in 1..Len(T), i < j, T[j].tag = 88
        PROVE  i = 1 \/ T[i].tag = 88
    <3>1. i \in 1..Len(S) /\ T[i] = S[i]
      BY <2>4, <1>3
    <3>2. CASE j \in 1..Len(S)
      BY <3>1, <3>2, <2>1, <2>4, <1>3
    <3>3. CASE j = n
      <4>1. tag = 88
        BY <3>3, <2>4, <1>3
      <4> QED  BY <3>1, <4>1, <2>2
    <3> QED  BY <1>7, <3>2, <3>3
  <2> QED  BY <2>3, <2>4 DEF SessionOrder, T
<1>9. tx'.session.mac_chain # <<>>
  BY <1>3 DEF T
<1>10. \A i \in 1..Len(T) : i > 1 =>
          (i \in 1..Len(S) /\ T[i] = S[i]) \/ T[i].tag = tag
  BY <1>3, <1>7
<1> QED  BY <1>3, <1>4, <1>5, <1>8, <1>9, <1>10 DEF T

\* The sender's four actions keep its order.
LEMMA SenderOrderStep ==
  ASSUME BspInv, SenderInOrder,
         ProtectConfigureIsdp \/ ProtectMetadata \/ ProtectReplaceSessionKeys \/ ProtectProfile
  PROVE  SenderInOrder'
<1>0. /\ tx \in Sides /\ bpp \in Packages /\ at = "build" /\ at' = at
      /\ Building /\ PackageTags
      /\ Datas \subseteq AllData /\ PPK \in AllData /\ Garbage \in AllData
  BY InvFacts
  DEF SenderInOrder, ProtectConfigureIsdp, ProtectMetadata, ProtectReplaceSessionKeys,
      ProtectProfile, AllData
<1>f. /\ bpp.configureIsdp \in Seq(Segments) /\ bpp.storeMetadata \in Seq(Segments)
      /\ bpp.replaceSessionKeys \in Seq(Segments) /\ bpp.profileData \in Seq(Segments)
      /\ tx.session.mac_chain \in Seq(Entries) /\ Len(tx.session.mac_chain) \in Nat
  BY InvFacts DEF Instances
<1> DEFINE S == tx.session.mac_chain
           T == tx'.session.mac_chain
           Added(tag) ==
             /\ Counted(tx.session)' /\ Counted(tx.ppk)'
             /\ Sealed(tx.session)' /\ Sealed(tx.ppk)' /\ SessionOrder' /\ PpkOrder'
             /\ T # <<>> /\ Len(T) = Len(S) + 1
             /\ \A i \in 1..Len(T) : i > 1 => \/ i \in 1..Len(S) /\ T[i] = S[i]
                                              \/ T[i].tag = tag
<1>1. CASE ProtectConfigureIsdp
  <2>0. bpp.configureIsdp = <<>> /\ S = <<>>
    BY <1>0, <1>1 DEF ProtectConfigureIsdp, Building
  <2>d. PICK d \in Datas : \E e :
          /\ e = encrypt_and_mac_one(tx.session, 87, d)
          /\ tx' = [tx EXCEPT !.session = e.bsp]
          /\ bpp' = [bpp EXCEPT !.configureIsdp = <<e.segment>>]
    BY <1>1 DEF ProtectConfigureIsdp
  <2>1. PICK e :
          /\ e = encrypt_and_mac_one(tx.session, 87, d)
          /\ tx' = [tx EXCEPT !.session = e.bsp]
          /\ bpp' = [bpp EXCEPT !.configureIsdp = <<e.segment>>]
    BY <2>d
  <2>2. /\ tx'.session = e.bsp /\ tx'.ppk = tx.ppk /\ tx'.replaced = tx.replaced
        /\ bpp'.configureIsdp = <<e.segment>> /\ bpp'.storeMetadata = bpp.storeMetadata
        /\ bpp'.replaceSessionKeys = bpp.replaceSessionKeys
        /\ bpp'.profileData = bpp.profileData
        /\ bpp'.hasReplaceSessionKeys = bpp.hasReplaceSessionKeys
    BY <1>0, <2>1 DEF Sides, Packages
  <2>3. Added(87) /\ e.segment \in Segments /\ e.segment.tag = 87
    BY <1>0, <2>0, <2>1, <2>2, SessionSegment
  <2>4. Building'
    BY <1>0, <1>f, <2>0, <2>2, <2>3 DEF Building
  <2>5. PackageTags'
    BY <1>0, <1>f, <2>2, <2>3, TagsKept DEF PackageTags
  <2> QED  BY <2>3, <2>4, <2>5 DEF SenderInOrder
<1>2. CASE ProtectMetadata
  <2>0. S # <<>> /\ ~tx.replaced /\ bpp.profileData = <<>> /\ bpp.configureIsdp # <<>>
    BY <1>0, <1>2 DEF ProtectMetadata, Building
  <2>d. PICK d \in Datas : \E e :
          /\ e = mac_only_one(tx.session, 88, d)
          /\ tx' = [tx EXCEPT !.session = e.bsp]
          /\ bpp' = [bpp EXCEPT !.storeMetadata = Append(@, e.segment)]
    BY <1>2 DEF ProtectMetadata
  <2>1. PICK e :
          /\ e = mac_only_one(tx.session, 88, d)
          /\ tx' = [tx EXCEPT !.session = e.bsp]
          /\ bpp' = [bpp EXCEPT !.storeMetadata = Append(@, e.segment)]
    BY <2>d
  <2>2. /\ tx'.session = e.bsp /\ tx'.ppk = tx.ppk /\ tx'.replaced = tx.replaced
        /\ bpp'.configureIsdp = bpp.configureIsdp
        /\ bpp'.storeMetadata = Append(bpp.storeMetadata, e.segment)
        /\ bpp'.replaceSessionKeys = bpp.replaceSessionKeys
        /\ bpp'.profileData = bpp.profileData
        /\ bpp'.hasReplaceSessionKeys = bpp.hasReplaceSessionKeys
    BY <1>0, <2>1 DEF Sides, Packages
  <2>3. Added(88) /\ e.segment \in Segments /\ e.segment.tag = 88
    BY <1>0, <2>0, <2>1, <2>2, SessionSegment
  <2>4. Building'
    BY <1>0, <1>f, <2>0, <2>2, <2>3 DEF Building
  <2>5. PackageTags'
    <3>1. HasTag(Append(bpp.storeMetadata, e.segment), 88)
      BY <1>0, <1>f, <2>3, TagsKept DEF PackageTags
    <3> QED  BY <1>0, <2>2, <3>1 DEF PackageTags
  <2> QED  BY <2>3, <2>4, <2>5 DEF SenderInOrder
<1>3. CASE ProtectReplaceSessionKeys
  <2>0. S # <<>> /\ ~tx.replaced /\ bpp.profileData = <<>> /\ bpp.configureIsdp # <<>>
    BY <1>0, <1>3 DEF ProtectReplaceSessionKeys, Building
  <2>d. PICK d \in {PPK, Garbage} : \E e :
          /\ e = encrypt_and_mac_one(tx.session, 87, d)
          /\ tx' = [tx EXCEPT !.session = e.bsp, !.replaced = TRUE]
          /\ bpp' = [bpp EXCEPT !.replaceSessionKeys = <<e.segment>>,
                                !.hasReplaceSessionKeys = TRUE]
    BY <1>3 DEF ProtectReplaceSessionKeys, generate_replace_session_keys_data
  <2>1. PICK e :
          /\ e = encrypt_and_mac_one(tx.session, 87, d)
          /\ tx' = [tx EXCEPT !.session = e.bsp, !.replaced = TRUE]
          /\ bpp' = [bpp EXCEPT !.replaceSessionKeys = <<e.segment>>,
                                !.hasReplaceSessionKeys = TRUE]
    BY <2>d
  <2>2. /\ tx'.session = e.bsp /\ tx'.ppk = tx.ppk /\ tx'.replaced = TRUE
        /\ bpp'.configureIsdp = bpp.configureIsdp /\ bpp'.storeMetadata = bpp.storeMetadata
        /\ bpp'.replaceSessionKeys = <<e.segment>>
        /\ bpp'.profileData = bpp.profileData
        /\ bpp'.hasReplaceSessionKeys = TRUE
    BY <1>0, <2>1 DEF Sides, Packages
  <2>3. Added(87) /\ e.segment \in Segments /\ e.segment.tag = 87
    <3>1. d \in AllData
      BY <1>0
    <3> QED  BY <3>1, <1>0, <2>0, <2>1, <2>2, SessionSegment
  <2>4. Building'
    BY <1>0, <1>f, <2>0, <2>2, <2>3 DEF Building
  <2>5. PackageTags'
    BY <1>0, <1>f, <2>2, <2>3, TagsKept DEF PackageTags
  <2> QED  BY <2>3, <2>4, <2>5 DEF SenderInOrder
<1>4. CASE ProtectProfile /\ ~tx.replaced
  <2>0. S # <<>>
    BY <1>0, <1>4 DEF ProtectProfile, Building
  <2>d. PICK d \in Datas : \E e :
          /\ e = encrypt_and_mac_one(tx.session, 86, d)
          /\ tx' = [tx EXCEPT !.session = e.bsp]
          /\ bpp' = [bpp EXCEPT !.profileData = Append(@, e.segment)]
    BY <1>4 DEF ProtectProfile
  <2>1. PICK e :
          /\ e = encrypt_and_mac_one(tx.session, 86, d)
          /\ tx' = [tx EXCEPT !.session = e.bsp]
          /\ bpp' = [bpp EXCEPT !.profileData = Append(@, e.segment)]
    BY <2>d
  <2>2. /\ tx'.session = e.bsp /\ tx'.ppk = tx.ppk /\ tx'.replaced = tx.replaced
        /\ bpp'.configureIsdp = bpp.configureIsdp /\ bpp'.storeMetadata = bpp.storeMetadata
        /\ bpp'.replaceSessionKeys = bpp.replaceSessionKeys
        /\ bpp'.profileData = Append(bpp.profileData, e.segment)
        /\ bpp'.hasReplaceSessionKeys = bpp.hasReplaceSessionKeys
    BY <1>0, <2>1 DEF Sides, Packages
  <2>3. Added(86) /\ e.segment \in Segments /\ e.segment.tag = 86
    BY <1>0, <1>4, <2>0, <2>1, <2>2, SessionSegment
  <2>4. HasTag(Append(bpp.profileData, e.segment), 86) /\ bpp'.profileData # <<>>
    BY <1>0, <1>f, <2>2, <2>3, TagsKept DEF PackageTags
  <2>5. Building'
    BY <1>0, <2>0, <2>2, <2>3, <2>4 DEF Building
  <2>6. PackageTags'
    BY <1>0, <2>2, <2>4 DEF PackageTags
  <2> QED  BY <2>3, <2>5, <2>6 DEF SenderInOrder
<1>5. CASE ProtectProfile /\ tx.replaced
  <2>d. PICK d \in Datas : \E e :
          /\ e = encrypt_and_mac_one(tx.ppk, 86, d)
          /\ tx' = [tx EXCEPT !.ppk = e.bsp]
          /\ bpp' = [bpp EXCEPT !.profileData = Append(@, e.segment)]
    BY <1>5 DEF ProtectProfile
  <2>1. PICK e :
          /\ e = encrypt_and_mac_one(tx.ppk, 86, d)
          /\ tx' = [tx EXCEPT !.ppk = e.bsp]
          /\ bpp' = [bpp EXCEPT !.profileData = Append(@, e.segment)]
    BY <2>d
  <2>2. /\ tx'.ppk = e.bsp /\ tx'.session = tx.session /\ tx'.replaced = tx.replaced
        /\ bpp'.configureIsdp = bpp.configureIsdp /\ bpp'.storeMetadata = bpp.storeMetadata
        /\ bpp'.replaceSessionKeys = bpp.replaceSessionKeys
        /\ bpp'.profileData = Append(bpp.profileData, e.segment)
        /\ bpp'.hasReplaceSessionKeys = bpp.hasReplaceSessionKeys
    BY <1>0, <2>1 DEF Sides, Packages
  <2>3. PICK b : b = tx.ppk
    OBVIOUS
  <2>4. /\ OneSegmentOn(e.bsp, b, 86) /\ Sealed(e.bsp)
        /\ e.segment \in Segments /\ e.segment.tag = 86
    <3>1. PICK tag \in Nat : tag = 86
      OBVIOUS
    <3>2. /\ Counted(b) /\ Sealed(b) /\ b \in Instances({PPK}) /\ d \in AllData
          /\ e = encrypt_and_mac_one(b, tag, d)
      BY <1>0, <2>1, <2>3, <3>1, InvFacts DEF SenderInOrder
    <3>3. /\ OneSegmentOn(e.bsp, b, tag) /\ Sealed(e.bsp)
          /\ e.segment \in Segments /\ e.segment.tag = tag
      BY <3>2, Segmented, ZenonT(60)
    <3> QED  BY <3>1, <3>3
  <2>5. Counted(tx.session)' /\ Sealed(tx.session)' /\ Counted(tx.ppk)' /\ Sealed(tx.ppk)'
    <3>1. Counted(tx.session) /\ Sealed(tx.session)
      BY DEF SenderInOrder
    <3>2. Counted(e.bsp) /\ Sealed(e.bsp)
      BY <2>4 DEF OneSegmentOn
    <3>3. Counted(tx'.session) /\ Sealed(tx'.session) /\ Counted(tx'.ppk) /\ Sealed(tx'.ppk)
      BY <2>2, <3>1, <3>2
    <3> QED  BY <3>3 DEF Counted, Sealed
  <2>6. SessionOrder'
    BY <2>2 DEF SenderInOrder, SessionOrder
  <2>7. PpkOrder'
    <3>1. /\ Len(b.mac_chain) \in Nat /\ Len(e.bsp.mac_chain) = Len(b.mac_chain) + 1
          /\ \A i \in 1..Len(b.mac_chain) : e.bsp.mac_chain[i].tag = 86
          /\ e.bsp.mac_chain[Len(b.mac_chain) + 1].tag = 86
      BY <2>3, <2>4 DEF SenderInOrder, PpkOrder, OneSegmentOn
    <3>2. \A i \in 1..Len(e.bsp.mac_chain) : e.bsp.mac_chain[i].tag = 86
      BY <3>1
    <3> QED  BY <2>2, <3>2 DEF PpkOrder
  <2>8. Building'
    BY <1>0, <1>5, <2>2 DEF Building
  <2>9. PackageTags'
    <3>1. HasTag(Append(bpp.profileData, e.segment), 86)
      <4>1. PICK list \in Seq(Segments) : list = bpp.profileData
        BY <1>f
      <4>2. PICK tag : tag = 86
        OBVIOUS
      <4>3. HasTag(list, tag) /\ e.segment \in Segments /\ e.segment.tag = tag
        BY <1>0, <2>4, <4>1, <4>2 DEF PackageTags
      <4>4. HasTag(Append(list, e.segment), tag)
        BY <4>3, TagsKept, ZenonT(60)
      <4> QED  BY <4>1, <4>2, <4>4
    <3> QED  BY <1>0, <2>2, <3>1 DEF PackageTags
  <2> QED  BY <2>5, <2>6, <2>7, <2>8, <2>9 DEF SenderInOrder
<1> QED  BY <1>1, <1>2, <1>3, <1>4, <1>5

\* The disturbances take segments from lists with the same tag, or keep the tag.
LEMMA ChannelTags ==
  ASSUME BspInv, PackageTags, Channel
  PROVE  PackageTags'
<1> USE InvFacts
<1> DEFINE tagOf(part) == CASE part = "storeMetadata" -> 88
                            [] part = "profileData" -> 86
                            [] OTHER -> 87
<1>1. PackageTags <=> \A part \in Parts : HasTag(bpp[part], tagOf(part))
  BY DEF PackageTags, Parts
<1>2. PackageTags' <=> \A part \in Parts : HasTag(bpp'[part], tagOf(part))
  BY DEF PackageTags, Parts
<1>3. ASSUME NEW part \in Parts, NEW n \in Nat, NEW list \in UpTo(PoolOf(part), n)
      PROVE  HasTag(list, tagOf(part))
  <2>1. PICK m \in 0..n : list \in [1..m -> PoolOf(part)]
    BY <1>3 DEF UpTo
  <2>2. \A x \in PoolOf(part) : x.tag = tagOf(part)
    <3>1. ASSUME NEW l, NEW tag, HasTag(l, tag), NEW x \in Elements(l) PROVE x.tag = tag
      BY <3>1 DEF HasTag, Elements
    <3>2. CASE part \in {"configureIsdp", "replaceSessionKeys"}
      BY <3>1, <3>2 DEF PackageTags, PoolOf
    <3>3. CASE part = "storeMetadata"
      BY <3>1, <3>3 DEF PackageTags, PoolOf
    <3>4. CASE part = "profileData"
      BY <3>1, <3>4 DEF PackageTags, PoolOf
    <3> QED  BY <3>2, <3>3, <3>4 DEF Parts
  <2>3. list \in Seq(Segments) /\ Len(list) = m
    BY <1>3, <2>1, Pooled
  <2> QED  BY <2>1, <2>2, <2>3 DEF HasTag
<1>4. CASE Misdeliver
  <2>0. PICK part \in Parts : \E list \in UpTo(PoolOf(part), Len(bpp[part]) + 1) :
          Disturbed([bpp EXCEPT ![part] = list])
    BY <1>4 DEF Misdeliver
  <2>1. PICK list \in UpTo(PoolOf(part), Len(bpp[part]) + 1) :
          Disturbed([bpp EXCEPT ![part] = list])
    BY <2>0
  <2>2. Len(bpp[part]) + 1 \in Nat
    BY DEF Parts, Packages
  <2>3. HasTag(list, tagOf(part))
    BY <1>3, <2>1, <2>2
  <2>4. \A p \in Parts : bpp'[p] = IF p = part THEN list ELSE bpp[p]
    BY <2>1 DEF Disturbed, Parts, Packages
  <2> HIDE DEF tagOf
  <2> QED  BY <1>1, <1>2, <2>3, <2>4
<1>5. CASE Alter
  <2>0. PICK part \in Parts : \E i \in 1..Len(bpp[part]), d \in Datas \cup {PPK} :
          Disturbed([bpp EXCEPT ![part][i].payload.data = d])
    BY <1>5 DEF Alter
  <2>1. PICK i \in 1..Len(bpp[part]), d \in Datas \cup {PPK} :
          Disturbed([bpp EXCEPT ![part][i].payload.data = d])
    BY <2>0
  <2> DEFINE new == [bpp[part] EXCEPT ![i].payload.data = d]
  <2>2. bpp[part] \in Seq(Segments)
    BY DEF Parts
  <2>3. Len(new) = Len(bpp[part]) /\ \A j \in 1..Len(bpp[part]) : new[j].tag = bpp[part][j].tag
    <3>1. PICK list \in Seq(Segments) : list = bpp[part]
      BY <2>2
    <3>2. list[i] \in Segments
      BY <2>1, <3>1
    <3>3. [list[i] EXCEPT !.payload.data = d].tag = list[i].tag
      BY <3>2 DEF Segments
    <3>4. /\ Len([list EXCEPT ![i].payload.data = d]) = Len(list)
          /\ \A j \in 1..Len(list) : [list EXCEPT ![i].payload.data = d][j].tag = list[j].tag
      BY <2>1, <3>1, <3>3
    <3> QED  BY <3>1, <3>4
  <2>4. HasTag(new, tagOf(part))
    BY <1>1, <2>3 DEF HasTag
  <2>5. \A p \in Parts : bpp'[p] = IF p = part THEN new ELSE bpp[p]
    BY <2>1 DEF Disturbed, Parts, Packages
  <2> HIDE DEF new, tagOf
  <2> QED  BY <1>1, <1>2, <2>4, <2>5
<1>6. CASE LoseReplaceSessionKeys
  BY <1>6 DEF LoseReplaceSessionKeys, Disturbed, Packages, PackageTags, HasTag
<1>7. CASE Damage
  BY <1>7 DEF Damage, Disturbed, Packages, PackageTags, HasTag
<1> QED  BY <1>4, <1>5, <1>6, <1>7 DEF Channel

\* What the sender has done stays in order while nothing is built.
LEMMA SenderDone ==
  ASSUME SenderInOrder, tx' = tx, PackageTags', at' # "build"
  PROVE  SenderInOrder'
  BY DEF SenderInOrder, SessionOrder, PpkOrder, Building, Counted, Sealed

\* What the receiver has read stays in order while it does nothing.
LEMMA ReceiverRests ==
  ASSUME ReceiverInOrder, UNCHANGED <<rx, res>>,
         at' = at \/ (at = "build" /\ at' = "transit")
  PROVE  ReceiverInOrder'
  BY DEF ReceiverInOrder, Reading, NothingRead, OnlyMetadataRead, MetadataRead, ProfileRead,
         Counted, Results

\* A new package: nothing is built, nothing read.
NewPackage ==
  /\ \E k, l \in Keys : tx = Side(k) /\ rx = Side(l)
  /\ bpp = NoPackage /\ res = NoResult /\ at \in {"idle", "build"}

LEMMA NewOrder == NewPackage => SenderInOrder /\ ReceiverInOrder
<1> SUFFICES ASSUME NewPackage PROVE SenderInOrder /\ ReceiverInOrder
  OBVIOUS
<1>0. PICK k \in Keys, l \in Keys :
        /\ tx = Side(k) /\ rx = Side(l)
        /\ bpp = NoPackage /\ res = NoResult /\ at \in {"idle", "build"}
  BY DEF NewPackage
<1>1. /\ tx.session.mac_chain = <<>> /\ tx.ppk.mac_chain = <<>> /\ tx.replaced = FALSE
      /\ rx.session.mac_chain = <<>> /\ rx.ppk.mac_chain = <<>> /\ rx.replaced = FALSE
      /\ tx.session.block_number = 1 /\ tx.ppk.block_number = 1
      /\ rx.session.block_number = 1 /\ rx.ppk.block_number = 1
  BY <1>0 DEF Side, BspCrypto
<1>2. Counted(tx.session) /\ Counted(tx.ppk) /\ Counted(rx.session) /\ Counted(rx.ppk)
  BY <1>1 DEF Counted
<1>3. Sealed(tx.session) /\ Sealed(tx.ppk) /\ SessionOrder /\ PpkOrder
  BY <1>1 DEF Sealed, SessionOrder, PpkOrder
<1>4. Building /\ PackageTags
  <2>1. Building
    <3>1. Len(tx.session.mac_chain) = 0
      BY <1>1
    <3>2. /\ bpp.configureIsdp = <<>> /\ bpp.storeMetadata = <<>>
          /\ bpp.hasReplaceSessionKeys = FALSE
      BY <1>0 DEF NoPackage
    <3> HIDE DEF NoPackage
    <3>3. tx.replaced = bpp.hasReplaceSessionKeys
      BY <1>1, <3>2
    <3>4. \A i \in 1..Len(tx.session.mac_chain) : i > 1 => tx.session.mac_chain[i].tag = 88
      BY <3>1
    <3> QED  BY <1>1, <3>2, <3>3, <3>4, Zenon DEF Building
  <2>2. PackageTags
    BY <1>0 DEF PackageTags, HasTag, NoPackage
  <2> QED  BY <2>1, <2>2
<1>5. res \in Results
  BY <1>0 DEF Results, NoResult
<1>6. Reading
  <2>1. NothingRead
    BY <1>0, <1>1 DEF NothingRead, NoResult
  <2> QED  BY <1>0, <2>1 DEF Reading
<1> QED  BY <1>2, <1>3, <1>4, <1>5, <1>6 DEF SenderInOrder, ReceiverInOrder

\* A read segment and what it hands out.
Read(v, b, tag) ==
  /\ OneSegmentOn(v.bsp, b, tag)
  /\ v.data \in AllData
  /\ v.data = v.bsp.mac_chain[Len(b.mac_chain) + 1].payload.data

\* What the receiver's instances read from the lists of the package.
LEMMA InstanceReads ==
  ASSUME BspInv, SenderInOrder, ReceiverInOrder,
         NEW keys \in SUBSET (Keys \cup {PPK}), NEW b \in Instances(keys), NEW t \in Instances(keys),
         (b = rx.session /\ t = tx.session) \/ (b = rx.ppk /\ t = tx.ppk),
         NEW list \in Seq(Segments), AllMade(list, tx), NEW i \in Nat \ {0}, NEW tag \in Nat,
         HasTag(list, tag), NEW decrypt \in BOOLEAN, decrypt => tag # 88,
         NEW v, v = decrypt_and_verify(b, list, i, decrypt), v.ok
  PROVE  Read(v, b, tag)
<1>1. Sealed(t) /\ Counted(b)
  BY DEF SenderInOrder, ReceiverInOrder
<1>2. Follows(v.bsp, t)
  <2>1. PICK u \in Sides : u = tx
    BY InvFacts
  <2>2. AllMade(list, u)
    BY <2>1
  <2>3. /\ b.key \in Keys => Follows(v.bsp, u.session)
        /\ b.key = PPK => Follows(v.bsp, u.ppk)
    BY <2>2, Verified
  <2> QED  BY <2>1, <2>3, InvFacts
<1> QED  BY <1>1, <1>2, ReadSegment DEF Read, OneSegmentOn

LEMMA Reads ==
  ASSUME BspInv, SenderInOrder, ReceiverInOrder
  PROVE  \A list \in Seq(Segments), i \in Nat \ {0}, tag \in Nat, decrypt \in BOOLEAN :
           AllMade(list, tx) /\ HasTag(list, tag) /\ (decrypt => tag # 88) =>
             /\ decrypt_and_verify(rx.session, list, i, decrypt).ok =>
                  Read(decrypt_and_verify(rx.session, list, i, decrypt), rx.session, tag)
             /\ decrypt_and_verify(rx.ppk, list, i, decrypt).ok =>
                  Read(decrypt_and_verify(rx.ppk, list, i, decrypt), rx.ppk, tag)
<1> SUFFICES ASSUME NEW list \in Seq(Segments), NEW i \in Nat \ {0}, NEW tag \in Nat,
                    NEW decrypt \in BOOLEAN, AllMade(list, tx), HasTag(list, tag),
                    decrypt => tag # 88
             PROVE  /\ decrypt_and_verify(rx.session, list, i, decrypt).ok =>
                         Read(decrypt_and_verify(rx.session, list, i, decrypt), rx.session, tag)
                    /\ decrypt_and_verify(rx.ppk, list, i, decrypt).ok =>
                         Read(decrypt_and_verify(rx.ppk, list, i, decrypt), rx.ppk, tag)
  OBVIOUS
<1>0. Keys \in SUBSET (Keys \cup {PPK}) /\ {PPK} \in SUBSET (Keys \cup {PPK})
  OBVIOUS
<1>1. ASSUME NEW b, NEW t, NEW v, v = decrypt_and_verify(b, list, i, decrypt), v.ok,
             (b = rx.session /\ t = tx.session) \/ (b = rx.ppk /\ t = tx.ppk)
      PROVE  Read(v, b, tag)
  <2>1. PICK keys \in SUBSET (Keys \cup {PPK}) : b \in Instances(keys) /\ t \in Instances(keys)
    BY <1>0, <1>1, InvFacts
  <2> QED  BY <1>1, <2>1, InstanceReads, ZenonT(60)
<1>2. ASSUME NEW v, v = decrypt_and_verify(rx.session, list, i, decrypt), v.ok
      PROVE  Read(v, rx.session, tag)
  <2>1. PICK b, t : b = rx.session /\ t = tx.session
    OBVIOUS
  <2>2. v = decrypt_and_verify(b, list, i, decrypt)
    BY <1>2, <2>1
  <2>3. Read(v, b, tag)
    BY <1>1, <1>2, <2>1, <2>2, Zenon
  <2> QED  BY <2>1, <2>3
<1>3. ASSUME NEW v, v = decrypt_and_verify(rx.ppk, list, i, decrypt), v.ok
      PROVE  Read(v, rx.ppk, tag)
  <2>1. PICK b, t : b = rx.ppk /\ t = tx.ppk
    OBVIOUS
  <2>2. v = decrypt_and_verify(b, list, i, decrypt)
    BY <1>3, <2>1
  <2>3. Read(v, b, tag)
    BY <1>1, <1>3, <2>1, <2>2
  <2> QED  BY <2>1, <2>3
<1> QED  BY <1>2, <1>3

\* Each step of process_bound_profile_package() reads on in order.
LEMMA ConfigureIsdpRead ==
  ASSUME BspInv, SenderInOrder, ReceiverInOrder, ConfigureIsdp, ~Throw
  PROVE  ReceiverInOrder'
<1> DEFINE v == decrypt_and_verify(rx.session, bpp.configureIsdp, 1, TRUE)
<1>1. /\ at = "isdp" /\ at' = "metadata" /\ v.ok /\ rx' = [rx EXCEPT !.session = v.bsp]
      /\ res' = [res EXCEPT !.configureIsdp = <<v.data>>]
  BY DEF ConfigureIsdp
<1>2. Read(v, rx.session, 87)
  <2>1. /\ 1 \in Nat \ {0} /\ 87 \in Nat /\ 87 # 88 /\ TRUE \in BOOLEAN
        /\ HasTag(bpp.configureIsdp, 87) /\ AllMade(bpp.configureIsdp, tx)
        /\ bpp.configureIsdp \in Seq(Segments)
    BY InvFacts DEF SenderInOrder, PackageTags
  <2> QED  BY <1>1, <2>1, Reads, Zenon
<1> HIDE DEF v
<1>3. /\ rx'.session = v.bsp /\ rx'.ppk = rx.ppk /\ rx'.replaced = rx.replaced
  BY <1>1, InvFacts DEF Sides
<1>4. /\ rx.session.mac_chain = <<>> /\ rx.replaced = FALSE
      /\ res \in Results /\ res.storeMetadata = <<>> /\ res.profileData = <<>>
  BY <1>1 DEF ReceiverInOrder, Reading, NothingRead
<1>5. /\ res' \in Results /\ res'.configureIsdp = <<v.data>>
      /\ res'.storeMetadata = <<>> /\ res'.profileData = <<>>
  <2>1. v.data \in AllData /\ <<v.data>> \in Seq(AllData)
    BY <1>2 DEF Read
  <2> QED  BY <1>1, <1>4, <2>1 DEF Results
<1>6. /\ Len(v.bsp.mac_chain) = 1 /\ v.data = v.bsp.mac_chain[1].payload.data
  BY <1>2, <1>4 DEF Read, OneSegmentOn
<1>7. MetadataRead'
  BY <1>3, <1>5, <1>6 DEF MetadataRead
<1>8. Reading'
  <2>1. Len(res'.storeMetadata) = 0 /\ Len(rx'.session.mac_chain) = 1
    BY <1>3, <1>5, <1>6
  <2>2. rx'.replaced = FALSE
    BY <1>3, <1>4
  <2>3. OnlyMetadataRead'
    BY <1>5, <1>7, <2>1, <2>2 DEF OnlyMetadataRead
  <2> QED  BY <1>1, <2>3 DEF Reading
<1> QED  BY <1>2, <1>3, <1>5, <1>8 DEF ReceiverInOrder, Counted, Read, OneSegmentOn

LEMMA StoreMetadataRead ==
  ASSUME BspInv, SenderInOrder, ReceiverInOrder, StoreMetadata, ~Throw
  PROVE  ReceiverInOrder'
<1> DEFINE v == decrypt_and_verify(rx.session, bpp.storeMetadata, next, FALSE)
<1>1. /\ at = "metadata" /\ at' = at /\ v.ok /\ rx' = [rx EXCEPT !.session = v.bsp]
      /\ res' = [res EXCEPT !.storeMetadata = Append(@, v.data)]
  BY DEF StoreMetadata
<1>2. Read(v, rx.session, 88)
  <2>1. /\ next \in Nat \ {0} /\ 88 \in Nat /\ FALSE \in BOOLEAN
        /\ HasTag(bpp.storeMetadata, 88) /\ AllMade(bpp.storeMetadata, tx)
        /\ bpp.storeMetadata \in Seq(Segments)
    BY InvFacts DEF SenderInOrder, PackageTags
  <2> QED  BY <1>1, <2>1, Reads, Zenon
<1> HIDE DEF v
<1> DEFINE R == rx.session.mac_chain
           m == Len(res.storeMetadata)
<1>3. /\ rx'.session = v.bsp /\ rx'.ppk = rx.ppk /\ rx'.replaced = rx.replaced
  BY <1>1, InvFacts DEF Sides
<1>4. OnlyMetadataRead /\ res \in Results
  BY <1>1 DEF ReceiverInOrder, Reading
<1>5. /\ res' \in Results /\ res'.configureIsdp = res.configureIsdp
      /\ res'.storeMetadata = Append(res.storeMetadata, v.data)
      /\ res'.profileData = res.profileData
      /\ res.storeMetadata \in Seq(AllData) /\ v.data \in AllData
  <2>1. v.data \in AllData /\ res.storeMetadata \in Seq(AllData)
    BY <1>2, <1>4 DEF Read, Results
  <2>2. Append(res.storeMetadata, v.data) \in Seq(AllData)
    BY <2>1
  <2> QED  BY <1>1, <1>4, <2>1, <2>2 DEF Results
<1>6. /\ m \in Nat /\ Len(res'.storeMetadata) = m + 1
      /\ \A i \in 1..m : res'.storeMetadata[i] = res.storeMetadata[i]
      /\ res'.storeMetadata[m + 1] = v.data
  BY <1>5
<1>7. /\ Len(R) = m + 1 /\ Len(v.bsp.mac_chain) = m + 2
      /\ \A i \in 1..Len(R) : v.bsp.mac_chain[i] = R[i]
      /\ v.bsp.mac_chain[m + 2].tag = 88
      /\ v.data = v.bsp.mac_chain[m + 2].payload.data
  BY <1>2, <1>4, <1>6 DEF Read, OneSegmentOn, OnlyMetadataRead
<1>8. MetadataRead'
  <2>1. /\ res.configureIsdp = <<R[1].payload.data>>
        /\ \A i \in 1..m : R[1 + i].tag = 88 /\ res.storeMetadata[i] = R[1 + i].payload.data
    BY <1>4 DEF OnlyMetadataRead, MetadataRead
  <2>2. res'.configureIsdp = <<v.bsp.mac_chain[1].payload.data>>
    <3>1. 1 \in 1..Len(R)
      BY <1>6, <1>7
    <3>2. v.bsp.mac_chain[1] = R[1]
      BY <3>1, <1>7
    <3> QED  BY <1>5, <3>2, <2>1
  <2>3. ASSUME NEW i \in 1..(m + 1)
        PROVE  /\ v.bsp.mac_chain[1 + i].tag = 88
               /\ res'.storeMetadata[i] = v.bsp.mac_chain[1 + i].payload.data
    <3>1. CASE i \in 1..m
      <4>1. 1 + i \in 1..Len(R)
        BY <3>1, <1>6, <1>7
      <4> QED  BY <3>1, <4>1, <1>6, <1>7, <2>1
    <3>2. CASE i = m + 1
      <4>1. 1 + i = m + 2
        BY <3>2, <1>6
      <4> QED  BY <3>2, <4>1, <1>6, <1>7
    <3> QED  BY <1>6, <3>1, <3>2
  <2> QED  BY <1>3, <1>6, <1>7, <2>2, <2>3 DEF MetadataRead
<1>9. OnlyMetadataRead'
  BY <1>3, <1>4, <1>5, <1>6, <1>7, <1>8 DEF OnlyMetadataRead
<1>10. Reading'
  BY <1>1, <1>9 DEF Reading
<1> QED  BY <1>2, <1>3, <1>5, <1>10 DEF ReceiverInOrder, Counted, Read, OneSegmentOn

LEMMA ReplaceSessionKeysRead ==
  ASSUME BspInv, SenderInOrder, ReceiverInOrder, ReplaceSessionKeys, ~Throw
  PROVE  ReceiverInOrder'
<1> DEFINE v == decrypt_and_verify(rx.session, bpp.replaceSessionKeys, 1, TRUE)
<1>1. /\ at = "replace" /\ at' = "profile" /\ v.ok /\ res' = res
      /\ rx' = [session |-> v.bsp, replaced |-> TRUE, ppk |-> BspCrypto(PPK)]
  BY DEF ReplaceSessionKeys, parse_replace_session_keys, from_replace_session_keys
<1>2. Read(v, rx.session, 87)
  <2>1. /\ 1 \in Nat \ {0} /\ 87 \in Nat /\ 87 # 88 /\ TRUE \in BOOLEAN
        /\ HasTag(bpp.replaceSessionKeys, 87) /\ AllMade(bpp.replaceSessionKeys, tx)
        /\ bpp.replaceSessionKeys \in Seq(Segments)
    BY InvFacts DEF SenderInOrder, PackageTags
  <2> QED  BY <1>1, <2>1, Reads, Zenon
<1> HIDE DEF v
<1> DEFINE R == rx.session.mac_chain
           m == Len(res.storeMetadata)
<1>3. /\ rx'.session = v.bsp /\ rx'.ppk.mac_chain = <<>> /\ rx'.ppk.block_number = 1
      /\ rx'.replaced = TRUE
  BY <1>1 DEF BspCrypto
<1>4. OnlyMetadataRead /\ res \in Results /\ res.hasReplaceSessionKeys
  BY <1>1 DEF ReceiverInOrder, Reading
<1>5. res'.hasReplaceSessionKeys = TRUE /\ m \in Nat /\ Len(res.profileData) = 0
  BY <1>1, <1>4 DEF Results, OnlyMetadataRead
<1>7. /\ Len(R) = m + 1 /\ Len(v.bsp.mac_chain) = m + 2
      /\ \A i \in 1..Len(R) : v.bsp.mac_chain[i] = R[i]
      /\ v.bsp.mac_chain[m + 2].tag = 87
  BY <1>2, <1>4, <1>5 DEF Read, OneSegmentOn, OnlyMetadataRead
<1>8. MetadataRead'
  <2>1. /\ res.configureIsdp = <<R[1].payload.data>>
        /\ \A i \in 1..m : R[1 + i].tag = 88 /\ res.storeMetadata[i] = R[1 + i].payload.data
    BY <1>4 DEF OnlyMetadataRead, MetadataRead
  <2>2. v.bsp.mac_chain[1] = R[1] /\ \A i \in 1..m : v.bsp.mac_chain[1 + i] = R[1 + i]
    BY <1>5, <1>7
  <2>3. /\ Len(res'.storeMetadata) = m
        /\ res'.configureIsdp = <<v.bsp.mac_chain[1].payload.data>>
        /\ \A i \in 1..m : /\ v.bsp.mac_chain[1 + i].tag = 88
                          /\ res'.storeMetadata[i] = v.bsp.mac_chain[1 + i].payload.data
    BY <1>1, <2>1, <2>2
  <2>4. Len(v.bsp.mac_chain) > m
    BY <1>5, <1>7
  <2> HIDE DEF m
  <2> QED  BY <1>3, <2>3, <2>4 DEF MetadataRead
<1>9. ProfileRead'
  <2>1. Len(rx'.ppk.mac_chain) = 0 /\ Len(res'.profileData) = 0 /\ Len(res'.storeMetadata) = m
    BY <1>1, <1>3, <1>5
  <2>2. rx'.replaced = res'.hasReplaceSessionKeys
    BY <1>3, <1>5
  <2> HIDE DEF m
  <2> QED  BY <1>3, <1>7, <1>8, <2>1, <2>2 DEF ProfileRead
<1>10. Reading'
  BY <1>1, <1>9 DEF Reading
<1>11. Counted(rx'.ppk)
  <2>1. Len(rx'.ppk.mac_chain) = 0
    BY <1>3
  <2> QED  BY <1>3, <2>1 DEF Counted
<1> QED  BY <1>1, <1>2, <1>3, <1>4, <1>10, <1>11 DEF ReceiverInOrder, Counted, Read, OneSegmentOn

\* A segment of the profile, under the keys of the package or the session keys.
LEMMA ProfileDataRead ==
  ASSUME BspInv, SenderInOrder, ReceiverInOrder, ProfileData, ~Throw
  PROVE  ReceiverInOrder'
<1> DEFINE b == IF rx.replaced THEN rx.ppk ELSE rx.session
           v == decrypt_and_verify(b, bpp.profileData, next, TRUE)
           R == rx.session.mac_chain
           m == Len(res.storeMetadata)
           k == Len(res.profileData)
<1>1. /\ at = "profile" /\ at' = at /\ v.ok
      /\ rx' = IF rx.replaced THEN [rx EXCEPT !.ppk = v.bsp] ELSE [rx EXCEPT !.session = v.bsp]
      /\ res' = [res EXCEPT !.profileData = Append(@, v.data)]
  BY DEF ProfileData
<1>2. Read(v, b, 86)
  <2>1. /\ next \in Nat \ {0} /\ 86 \in Nat /\ 86 # 88 /\ TRUE \in BOOLEAN
        /\ HasTag(bpp.profileData, 86) /\ AllMade(bpp.profileData, tx)
        /\ bpp.profileData \in Seq(Segments)
    BY InvFacts DEF SenderInOrder, PackageTags
  <2>2. CASE rx.replaced
    BY <1>1, <2>1, <2>2, Reads, Zenon
  <2>3. CASE ~rx.replaced
    BY <1>1, <2>1, <2>3, Reads, Zenon
  <2> QED  BY <2>2, <2>3
<1>3. rx.replaced \in BOOLEAN /\ rx'.replaced = rx.replaced
  BY <1>1, InvFacts DEF Sides
<1>4. ProfileRead /\ res \in Results
  BY <1>1 DEF ReceiverInOrder, Reading
<1> HIDE DEF v
<1>5. /\ res' \in Results /\ res'.configureIsdp = res.configureIsdp
      /\ res'.storeMetadata = res.storeMetadata
      /\ res'.hasReplaceSessionKeys = res.hasReplaceSessionKeys
      /\ res'.profileData = Append(res.profileData, v.data)
      /\ res.profileData \in Seq(AllData) /\ res.storeMetadata \in Seq(AllData)
      /\ v.data \in AllData
  <2>1. /\ v.data \in AllData
        /\ res.profileData \in Seq(AllData) /\ res.storeMetadata \in Seq(AllData)
    BY <1>2, <1>4 DEF Read, Results
  <2>2. Append(res.profileData, v.data) \in Seq(AllData)
    BY <2>1
  <2> QED  BY <1>1, <1>4, <2>1, <2>2 DEF Results
<1>6. /\ m \in Nat /\ k \in Nat /\ Len(res'.profileData) = k + 1
      /\ \A i \in 1..k : res'.profileData[i] = res.profileData[i]
      /\ res'.profileData[k + 1] = v.data
  BY <1>5
<1>7. /\ MetadataRead
      /\ rx.replaced = res.hasReplaceSessionKeys
      /\ rx.replaced =>
           /\ Len(R) = m + 2 /\ R[m + 2].tag = 87 /\ Len(rx.ppk.mac_chain) = k
           /\ \A i \in 1..k : res.profileData[i] = rx.ppk.mac_chain[i].payload.data
      /\ ~rx.replaced =>
           /\ Len(R) = m + 1 + k
           /\ \A i \in 1..k : /\ R[m + 1 + i].tag = 86
                              /\ res.profileData[i] = R[m + 1 + i].payload.data
  BY <1>4 DEF ProfileRead
<1>8. rx'.replaced = res'.hasReplaceSessionKeys
  BY <1>3, <1>5, <1>7
<1>9. /\ Counted(v.bsp)
      /\ Len(v.bsp.mac_chain) = Len(b.mac_chain) + 1
      /\ \A i \in 1..Len(b.mac_chain) : v.bsp.mac_chain[i] = b.mac_chain[i]
      /\ v.bsp.mac_chain[Len(b.mac_chain) + 1].tag = 86
      /\ v.data = v.bsp.mac_chain[Len(b.mac_chain) + 1].payload.data
  BY <1>2 DEF Read, OneSegmentOn
<1>10. CASE rx.replaced
  <2>1. rx'.session = rx.session /\ rx'.ppk = v.bsp
    BY <1>1, <1>10, InvFacts DEF Sides
  <2>2. /\ Len(v.bsp.mac_chain) = k + 1
        /\ \A i \in 1..k : v.bsp.mac_chain[i] = rx.ppk.mac_chain[i]
        /\ v.data = v.bsp.mac_chain[k + 1].payload.data
    BY <1>7, <1>9, <1>10
  <2>3. MetadataRead'
    BY <1>5, <1>7, <2>1 DEF MetadataRead
  <2>4. ASSUME NEW i \in 1..(k + 1)
        PROVE  res'.profileData[i] = v.bsp.mac_chain[i].payload.data
    <3>1. CASE i \in 1..k
      BY <3>1, <1>6, <1>7, <1>10, <2>2
    <3>2. CASE i = k + 1
      BY <3>2, <1>6, <2>2
    <3> QED  BY <1>6, <3>1, <3>2
  <2>5. ProfileRead'
    <3>1. Len(R) = m + 2 /\ R[m + 2].tag = 87
      BY <1>7, <1>10
    <3>2. rx'.replaced
      BY <1>3, <1>10
    <3>3. Len(res'.storeMetadata) = m
      BY <1>5
    <3> HIDE DEF m, k
    <3> QED  BY <1>6, <1>8, <2>1, <2>2, <2>3, <2>4, <3>1, <3>2, <3>3 DEF ProfileRead
  <2>6. Reading'
    BY <1>1, <2>5 DEF Reading
  <2> QED  BY <1>5, <1>9, <2>1, <2>6 DEF ReceiverInOrder, Counted
<1>11. CASE ~rx.replaced
  <2>1. rx'.session = v.bsp /\ rx'.ppk = rx.ppk
    BY <1>1, <1>11, InvFacts DEF Sides
  <2>a. Len(res'.storeMetadata) = m /\ MetadataRead
    BY <1>5, <1>7
  <2>b. /\ res.configureIsdp = <<R[1].payload.data>>
        /\ \A i \in 1..m : R[1 + i].tag = 88 /\ res.storeMetadata[i] = R[1 + i].payload.data
    BY <2>a DEF MetadataRead
  <2> HIDE DEF m, k
  <2>c. m \in Nat /\ k \in Nat /\ Len(R) = m + 1 + k
    BY <1>6, <1>7, <1>11
  <2>2. /\ Len(R) = m + 1 + k /\ Len(v.bsp.mac_chain) = m + 1 + (k + 1)
        /\ \A i \in 1..Len(R) : v.bsp.mac_chain[i] = R[i]
        /\ v.bsp.mac_chain[m + 1 + (k + 1)].tag = 86
        /\ v.data = v.bsp.mac_chain[m + 1 + (k + 1)].payload.data
    <3>1. Len(R) + 1 = m + 1 + (k + 1)
      BY <2>c
    <3>2. b = rx.session
      BY <1>11
    <3> HIDE DEF b
    <3> QED  BY <1>7, <1>9, <1>11, <3>1, <3>2
  <2>3. MetadataRead'
    <3>2. v.bsp.mac_chain[1] = R[1] /\ \A i \in 1..m : v.bsp.mac_chain[1 + i] = R[1 + i]
      BY <2>c, <2>2
    <3>3. /\ Len(res'.storeMetadata) = m /\ Len(v.bsp.mac_chain) > m
          /\ res'.configureIsdp = <<v.bsp.mac_chain[1].payload.data>>
          /\ \A i \in 1..m : /\ v.bsp.mac_chain[1 + i].tag = 88
                            /\ res'.storeMetadata[i] = v.bsp.mac_chain[1 + i].payload.data
      <4>1. Len(v.bsp.mac_chain) > m
        BY <2>c, <2>2
      <4>2. res'.configureIsdp = <<v.bsp.mac_chain[1].payload.data>>
        BY <1>5, <2>b, <3>2
      <4>3. ASSUME NEW i \in 1..m
            PROVE  /\ v.bsp.mac_chain[1 + i].tag = 88
                   /\ res'.storeMetadata[i] = v.bsp.mac_chain[1 + i].payload.data
        BY <1>5, <2>b, <3>2
      <4> QED  BY <2>a, <4>1, <4>2, <4>3
    <3> QED  BY <2>1, <3>3 DEF MetadataRead
  <2>4. ASSUME NEW i \in 1..(k + 1)
        PROVE  /\ v.bsp.mac_chain[m + 1 + i].tag = 86
               /\ res'.profileData[i] = v.bsp.mac_chain[m + 1 + i].payload.data
    <3>1. CASE i \in 1..k
      <4>1. m + 1 + i \in 1..Len(R)
        BY <3>1, <2>c
      <4> QED  BY <3>1, <4>1, <1>6, <1>7, <1>11, <2>2
    <3>2. CASE i = k + 1
      BY <3>2, <1>6, <2>2
    <3> QED  BY <1>6, <3>1, <3>2
  <2>5. ProfileRead'
    <3>1. ~rx'.replaced
      BY <1>3, <1>11
    <3> QED  BY <1>6, <1>8, <2>a, <2>1, <2>2, <2>3, <2>4, <3>1 DEF ProfileRead
  <2>6. Reading'
    BY <1>1, <2>5 DEF Reading
  <2> QED  BY <1>5, <1>9, <2>1, <2>6 DEF ReceiverInOrder, Counted
<1> QED  BY <1>3, <1>10, <1>11

\* The other steps of process_bound_profile_package(), which verify nothing.
LEMMA OtherStepsRead ==
  ASSUME BspInv, ReceiverInOrder, Decode \/ MetadataDone \/ ProfileDone \/ Throw
  PROVE  ReceiverInOrder' /\ at' # "build" /\ UNCHANGED <<tx, bpp>>
<1>0. rx' = rx /\ UNCHANGED <<tx, bpp>>
  BY DEF Decode, MetadataDone, ProfileDone, Throw
<1>1. Counted(rx.session)' /\ Counted(rx.ppk)'
  BY <1>0 DEF ReceiverInOrder, Counted
<1>2. CASE Throw
  <2>1. at' = "error" /\ res' = NoResult
    BY <1>2 DEF Throw
  <2>2. res' \in Results
    BY <2>1 DEF Results, NoResult
  <2>3. Reading'
    BY <2>1 DEF Reading
  <2> QED  BY <1>0, <1>1, <2>1, <2>2, <2>3 DEF ReceiverInOrder
<1>3. CASE Decode
  <2>1. PICK h \in BOOLEAN : res' = [res EXCEPT !.hasReplaceSessionKeys = h]
    BY <1>3, InvFacts DEF Decode, Packages
  <2>2. NothingRead /\ res \in Results /\ at' \in {"isdp", "done"}
    BY <1>3 DEF Decode, ReceiverInOrder, Reading
  <2>3. res' \in Results /\ res'.configureIsdp = <<>>
        /\ res'.storeMetadata = <<>> /\ res'.profileData = <<>>
    BY <2>1, <2>2 DEF Results, NothingRead
  <2>4. NothingRead'
    BY <1>0, <2>2, <2>3 DEF NothingRead
  <2>5. Reading'
    BY <2>2, <2>3, <2>4 DEF Reading
  <2> QED  BY <1>0, <1>1, <2>2, <2>3, <2>5 DEF ReceiverInOrder
<1>4. CASE MetadataDone
  <2>1. /\ OnlyMetadataRead /\ res \in Results /\ res' = res
        /\ at' = IF res.hasReplaceSessionKeys THEN "replace" ELSE "profile"
    BY <1>4 DEF MetadataDone, ReceiverInOrder, Reading
  <2>2. OnlyMetadataRead'
    BY <1>0, <2>1 DEF OnlyMetadataRead, MetadataRead
  <2>3. ASSUME ~res.hasReplaceSessionKeys PROVE ProfileRead
    <3>1. rx.replaced = FALSE /\ res.hasReplaceSessionKeys = FALSE
      BY <2>1, <2>3 DEF Results, OnlyMetadataRead
    <3>2. /\ Len(res.profileData) = 0 /\ Len(res.storeMetadata) \in Nat
          /\ Len(rx.session.mac_chain) = Len(res.storeMetadata) + 1
      BY <2>1 DEF OnlyMetadataRead, Results
    <3>3. MetadataRead
      BY <2>1 DEF OnlyMetadataRead
    <3>4. /\ Len(rx.session.mac_chain) = Len(res.storeMetadata) + 1 + Len(res.profileData)
          /\ \A i \in 1..Len(res.profileData) : FALSE
      BY <3>2
    <3>5. rx.replaced = res.hasReplaceSessionKeys /\ ~rx.replaced
      BY <3>1
    <3> QED  BY <3>3, <3>4, <3>5, Zenon DEF ProfileRead
  <2>4. ASSUME ~res.hasReplaceSessionKeys PROVE ProfileRead'
    BY <1>0, <2>1, <2>3, <2>4 DEF ProfileRead, MetadataRead
  <2>5. Reading'
    BY <2>1, <2>2, <2>4 DEF Reading
  <2> QED  BY <1>0, <1>1, <2>1, <2>5 DEF ReceiverInOrder
<1>5. CASE ProfileDone
  <2>1. ProfileRead /\ res \in Results /\ res' = res /\ at' = "done"
    BY <1>5 DEF ProfileDone, ReceiverInOrder, Reading
  <2>2. ProfileRead'
    BY <1>0, <2>1 DEF ProfileRead, MetadataRead
  <2>3. Reading'
    BY <2>1, <2>2 DEF Reading
  <2> QED  BY <1>0, <1>1, <2>1, <2>3 DEF ReceiverInOrder
<1> QED  BY <1>2, <1>3, <1>4, <1>5

\* AcceptInv before the first package, and in every step.
LEMMA IdleAccept == Idle => AcceptInv
<1> SUFFICES ASSUME Idle PROVE AcceptInv
  OBVIOUS
<1>1. PICK k \in Keys, l \in Keys : tx = Side(k) /\ rx = Side(l)
  BY DEF Idle
<1> QED  BY <1>1, IdleInv, NewOrder DEF Idle, AcceptInv, NewPackage

LEMMA StepAccept ==
  AcceptInv /\ [(\E s, r \in Keys : Start(s, r)) \/ BspStep]_bspVars => AcceptInv'
<1> SUFFICES ASSUME AcceptInv, [(\E s, r \in Keys : Start(s, r)) \/ BspStep]_bspVars
             PROVE  SenderInOrder' /\ ReceiverInOrder'
  BY StepInv DEF AcceptInv
<1>0. BspInv /\ SenderInOrder /\ ReceiverInOrder /\ PackageTags
  BY DEF AcceptInv, SenderInOrder
<1>1. ASSUME NEW s \in Keys, NEW r \in Keys, Start(s, r)
      PROVE  SenderInOrder' /\ ReceiverInOrder'
  <2>1. /\ tx' = Side(s) /\ rx' = Side(r) /\ bpp' = NoPackage /\ res' = NoResult
        /\ at' \in {"idle", "build"}
    BY <1>1 DEF Start, Side, from_kdf
  <2>2. NewPackage'
    BY <2>1 DEF NewPackage
  <2> QED  BY <2>2, NewOrder, PTL
<1>2. CASE Sender
  <2>1. CASE Send
    <3>1. tx' = tx /\ bpp' = bpp /\ rx' = rx /\ res' = res /\ at = "build" /\ at' = "transit"
      BY <2>1 DEF Send
    <3>2. PackageTags'
      BY <1>0, <3>1 DEF PackageTags
    <3> QED  BY <1>0, <3>1, <3>2, SenderDone, ReceiverRests
  <2>2. CASE ~Send
    <3>1. SenderInOrder'
      BY <1>0, <1>2, <2>2, SenderOrderStep DEF Sender
    <3>2. UNCHANGED <<at, rx, res>>
      BY <1>2, <2>2
      DEF Sender, ProtectConfigureIsdp, ProtectMetadata, ProtectReplaceSessionKeys, ProtectProfile
    <3> QED  BY <1>0, <3>1, <3>2, ReceiverRests
  <2> QED  BY <2>1, <2>2
<1>3. CASE Channel
  <2>1. at = "transit" /\ UNCHANGED <<at, tx, rx, res>>
    BY <1>3 DEF Channel, Misdeliver, Alter, LoseReplaceSessionKeys, Damage, Disturbed
  <2> QED  BY <1>0, <1>3, <2>1, ChannelTags, SenderDone, ReceiverRests
<1>4. CASE process_bound_profile_package
  <2>1. UNCHANGED <<tx, bpp>> /\ at' # "build"
    BY <1>4
    DEF process_bound_profile_package, Decode, ConfigureIsdp, StoreMetadata, MetadataDone,
        ReplaceSessionKeys, ProfileData, ProfileDone, Throw
  <2>2. SenderInOrder'
    <3>1. PackageTags'
      BY <1>0, <2>1 DEF PackageTags
    <3> QED  BY <1>0, <2>1, <3>1, SenderDone
  <2>3. CASE Throw \/ Decode \/ MetadataDone \/ ProfileDone
    BY <1>0, <2>2, <2>3, OtherStepsRead
  <2>4. CASE ~Throw /\ (ConfigureIsdp \/ StoreMetadata \/ ReplaceSessionKeys \/ ProfileData)
    BY <1>0, <2>2, <2>4, ConfigureIsdpRead, StoreMetadataRead, ReplaceSessionKeysRead,
       ProfileDataRead
  <2> QED  BY <1>4, <2>3, <2>4 DEF process_bound_profile_package
<1>5. CASE UNCHANGED bspVars
  <2>1. UNCHANGED <<at, tx, rx, bpp, res>>
    BY <1>5 DEF bspVars
  <2>2. SenderInOrder'
    BY <1>0, <2>1
    DEF SenderInOrder, SessionOrder, PpkOrder, Building, PackageTags, Counted, Sealed
  <2> QED  BY <1>0, <2>1, <2>2, ReceiverRests
<1> QED  BY <1>1, <1>2, <1>3, <1>4, <1>5 DEF BspStep

\* What was read is a part of the sender's chains, and the segment after the metadata
\* shows that there is no more of it.
LEMMA AcceptImplies == AcceptInv => AcceptedAsSent
<1> SUFFICES ASSUME AcceptInv, Accepted
             PROVE  /\ res.configureIsdp = <<tx.session.mac_chain[1].payload.data>>
                    /\ AllHanded(res.storeMetadata, tx.session.mac_chain, 88)
                    /\ FirstHanded(res.profileData,
                         IF tx.replaced THEN tx.ppk.mac_chain ELSE tx.session.mac_chain, 86)
                    /\ res.hasReplaceSessionKeys = tx.replaced
  BY DEF AcceptedAsSent
<1> DEFINE S == tx.session.mac_chain
           R == rx.session.mac_chain
           Q == tx.ppk.mac_chain
           P == rx.ppk.mac_chain
           m == Len(res.storeMetadata)
           k == Len(res.profileData)
<1>1. /\ BspInv /\ SessionOrder /\ PpkOrder /\ ProfileRead /\ MetadataRead /\ res \in Results
  BY DEF AcceptInv, Accepted, SenderInOrder, ReceiverInOrder, Reading, ProfileRead
<1>2. /\ S \in Seq(Entries) /\ R \in Seq(Entries) /\ Q \in Seq(Entries) /\ P \in Seq(Entries)
      /\ Len(S) \in Nat /\ Len(R) \in Nat /\ Len(Q) \in Nat /\ Len(P) \in Nat
      /\ tx.replaced \in BOOLEAN /\ rx.replaced \in BOOLEAN
  BY <1>1, InvFacts DEF Instances, Sides
<1>3. m \in Nat /\ k \in Nat /\ m # 0 /\ k # 0
  BY <1>1 DEF Results, Accepted
<1>4. Follows(rx.session, tx.session) /\ Follows(rx.ppk, tx.ppk)
  BY <1>1, InvFacts
<1>5. /\ Len(R) > m /\ res.configureIsdp = <<R[1].payload.data>>
      /\ \A i \in 1..m : R[1 + i].tag = 88 /\ res.storeMetadata[i] = R[1 + i].payload.data
      /\ rx.replaced = res.hasReplaceSessionKeys
      /\ rx.replaced =>
           /\ Len(R) = m + 2 /\ R[m + 2].tag = 87 /\ Len(P) = k
           /\ \A i \in 1..k : res.profileData[i] = P[i].payload.data
      /\ ~rx.replaced =>
           /\ Len(R) = m + 1 + k
           /\ \A i \in 1..k : /\ R[m + 1 + i].tag = 86
                              /\ res.profileData[i] = R[m + 1 + i].payload.data
  BY <1>1 DEF ProfileRead, MetadataRead
<1> HIDE DEF m, k
<1>6. Len(R) <= Len(S) /\ \A i \in 1..Len(R) : R[i] = S[i]
  <2>1. R # <<>>
    BY <1>2, <1>3, <1>5
  <2> QED  BY <1>4, <2>1 DEF Follows, IsPrefixOf
<1> HIDE DEF R, S, P, Q
<1>7. m + 2 \in 1..Len(R) /\ S[m + 2].tag # 88 /\ (rx.replaced <=> S[m + 2].tag = 87)
      /\ (~rx.replaced <=> S[m + 2].tag = 86)
  <2>1. CASE rx.replaced
    BY <2>1, <1>3, <1>5, <1>6
  <2>2. CASE ~rx.replaced
    <3>1. m + 2 \in 1..Len(R)
      BY <2>2, <1>3, <1>5
    <3>2. 1 \in 1..k /\ m + 1 + 1 = m + 2
      BY <1>3
    <3> QED  BY <2>2, <3>1, <3>2, <1>5, <1>6
  <2> QED  BY <1>2, <2>1, <2>2
<1>8. /\ \A i \in 1..Len(S) :
           /\ i = 1 => S[i].tag = 87
           /\ i > 1 /\ S[i].tag = 87 => tx.replaced
           /\ S[i].tag = 86 => ~tx.replaced
      /\ \A i, j \in 1..Len(S) : i < j /\ S[j].tag = 88 => i = 1 \/ S[i].tag = 88
  BY <1>1 DEF SessionOrder, S
<1>9. rx.replaced = tx.replaced
  <2>1. m + 2 \in 1..Len(S) /\ m + 2 > 1
    BY <1>2, <1>3, <1>6, <1>7
  <2> QED  BY <1>2, <1>7, <1>8, <2>1
<1>10. res.configureIsdp = <<S[1].payload.data>>
  <2>1. R[1] = S[1]
    BY <1>2, <1>3, <1>5, <1>6
  <2> QED  BY <1>5, <2>1
<1>11. AllHanded(res.storeMetadata, S, 88)
  <2>1. DataAt(1, res.storeMetadata, S)
    <3>1. ASSUME NEW i \in 1..m PROVE res.storeMetadata[i] = S[1 + i].payload.data
      <4>1. 1 + i \in 1..Len(R)
        BY <1>2, <1>3, <1>5
      <4> QED  BY <4>1, <1>5, <1>6
    <3> QED  BY <3>1 DEF DataAt, m
  <2>2. \A p \in 1..Len(S) : S[p].tag = 88 <=> p \in 2..(m + 1)
    <3> SUFFICES ASSUME NEW p \in 1..Len(S) PROVE S[p].tag = 88 <=> p \in 2..(m + 1)
      OBVIOUS
    <3>1. ASSUME p \in 2..(m + 1) PROVE S[p].tag = 88
      <4>1. PICK i \in 1..m : p = 1 + i
        <5>1. p - 1 \in 1..m /\ p = 1 + (p - 1)
          BY <1>3, <3>1
        <5> QED  BY <5>1
      <4>2. p \in 1..Len(R)
        BY <1>2, <1>3, <1>5, <3>1
      <4> QED  BY <4>1, <4>2, <1>5, <1>6
    <3>2. ASSUME S[p].tag = 88 PROVE p \in 2..(m + 1)
      <4>1. p # 1
        BY <1>8, <3>2
      <4>2. p # m + 2
        BY <1>7, <3>2
      <4>3. ~(p > m + 2)
        <5>1. m + 2 \in 1..Len(S)
          BY <1>2, <1>6, <1>7
        <5>2. m + 2 # 1
          BY <1>3
        <5> QED  BY <5>1, <5>2, <1>7, <1>8, <3>2
      <4> QED  BY <1>2, <1>3, <4>1, <4>2, <4>3
    <3> QED  BY <3>1, <3>2
  <2>3. 1 \in 0..Len(S) /\ Len(S) >= m + 1
    BY <1>2, <1>3, <1>5, <1>6
  <2>4. Places(1, res.storeMetadata) = 2..(m + 1)
    BY <1>3 DEF Places, m
  <2>5. Tagged(S, 88) = 2..(m + 1)
    BY <1>2, <1>3, <2>2, <2>3 DEF Tagged
  <2> QED  BY <2>1, <2>3, <2>4, <2>5 DEF AllHanded
<1>12. CASE rx.replaced
  <2>1. Len(P) = k /\ Len(P) <= Len(Q) /\ \A i \in 1..k : P[i] = Q[i]
    <3>1. P # <<>>
      BY <1>3, <1>5, <1>12
    <3> QED  BY <1>4, <1>5, <1>12, <3>1 DEF Follows, IsPrefixOf, P, Q
  <2>2. \A i \in 1..Len(Q) : Q[i].tag = 86
    BY <1>1 DEF PpkOrder, Q
  <2>3. DataAt(0, res.profileData, Q)
    <3>1. ASSUME NEW i \in 1..k PROVE res.profileData[i] = Q[0 + i].payload.data
      <4>1. 0 + i = i
        BY <1>3
      <4> QED  BY <1>5, <1>12, <2>1, <4>1
    <3> QED  BY <3>1 DEF DataAt, k
  <2>4. Places(0, res.profileData) = 1..k
    BY <1>3 DEF Places, k
  <2>5. Places(0, res.profileData) \subseteq Tagged(Q, 86)
    BY <1>2, <1>3, <2>1, <2>2, <2>4 DEF Tagged
  <2>6. 0 \in 0..Len(Q) /\ \A p \in Tagged(Q, 86) : p > 0
    BY <1>2 DEF Tagged
  <2>7. FirstHanded(res.profileData, Q, 86)
    BY <2>3, <2>5, <2>6 DEF FirstHanded
  <2> QED  BY <1>5, <1>9, <1>10, <1>11, <1>12, <2>7 DEF S, Q
<1>13. CASE ~rx.replaced
  <2>1. Len(R) = m + 1 + k
    BY <1>5, <1>13
  <2>2. \A i \in 1..k : m + 1 + i \in 1..Len(R) /\ m + 1 + i \in 1..Len(S)
    BY <1>2, <1>3, <1>6, <2>1
  <2>3. \A i \in 1..k : /\ S[m + 1 + i].tag = 86
                        /\ res.profileData[i] = S[m + 1 + i].payload.data
    BY <1>5, <1>6, <1>13, <2>2
  <2>4. DataAt(m + 1, res.profileData, S)
    BY <2>3 DEF DataAt, k
  <2>5. Places(m + 1, res.profileData) \subseteq Tagged(S, 86)
    <3> SUFFICES ASSUME NEW p \in (m + 1 + 1)..(m + 1 + k) PROVE p \in Tagged(S, 86)
      BY DEF Places, k
    <3>1. p - (m + 1) \in 1..k /\ m + 1 + (p - (m + 1)) = p
      BY <1>3
    <3> QED  BY <2>2, <2>3, <3>1 DEF Tagged
  <2>6. m + 1 \in 0..Len(S)
    BY <1>2, <1>3, <1>6, <2>1
  <2>7. ASSUME NEW p \in Tagged(S, 86) PROVE p > m + 1
    <3>1. p \in 1..Len(S) /\ S[p].tag = 86
      BY DEF Tagged
    <3>2. ~(p \in 2..(m + 1))
      <4> SUFFICES ASSUME p \in 2..(m + 1) PROVE FALSE
        OBVIOUS
      <4>1. p - 1 \in 1..m /\ 1 + (p - 1) = p
        BY <1>3
      <4>2. p \in 1..Len(R)
        BY <1>3, <2>1
      <4> QED  BY <1>5, <1>6, <3>1, <4>1, <4>2
    <3>3. p # 1
      BY <1>8, <3>1
    <3> QED  BY <1>2, <1>3, <3>1, <3>2, <3>3
  <2>8. FirstHanded(res.profileData, S, 86)
    BY <2>4, <2>5, <2>6, <2>7 DEF FirstHanded
  <2> QED  BY <1>5, <1>9, <1>10, <1>11, <1>13, <2>8 DEF S
<1> QED  BY <1>12, <1>13

\* A package the test goes on with carries what the sender has put into it, however it
\* was disturbed (process_bound_profile_package() and the checks of its result).
THEOREM AcceptedAsSentThm == BspSpec => []AcceptedAsSent
<1>1. Idle => AcceptInv
  BY IdleAccept
<1>2. AcceptInv /\ [(\E s, r \in Keys : Start(s, r)) \/ BspStep]_bspVars => AcceptInv'
  BY StepAccept
<1>3. AcceptInv => AcceptedAsSent
  BY AcceptImplies
<1> QED  BY <1>1, <1>2, <1>3, PTL DEF BspSpec

-----------------------------------------------------------------------------
(* What an undisturbed package does: the two sides go through the same      *)
(* chain, block and keys.                                                   *)

\* The segment is the one that was protected at place j of the chain of b.
PlacedAt(seg, b, j) ==
  /\ j \in 1..Len(b.mac_chain)
  /\ b.mac_chain[j] = [tag |-> seg.tag, payload |-> seg.payload]
  /\ seg.mac.key = b.key /\ Len(seg.mac.log) = j /\ IsPrefixOf(seg.mac.log, b.mac_chain)
Laid(list, b, first) == \A i \in 1..Len(list) : PlacedAt(list[i], b, first + i)

\* The lists of a package nobody has disturbed, one after the other: the ConfigureISDP,
\* the metadata, then the profile, or the keys and under these the profile.
Intact ==
  LET n == Len(bpp.storeMetadata) IN
  /\ bpp.der /\ bpp.hasReplaceSessionKeys = tx.replaced
  /\ Laid(bpp.configureIsdp, tx.session, 0)
  /\ Laid(bpp.storeMetadata, tx.session, 1)
  /\ Laid(bpp.replaceSessionKeys, tx.session, n + 1)
  /\ tx.replaced =>
       /\ Len(bpp.replaceSessionKeys) = 1 /\ Len(tx.session.mac_chain) = n + 2
       /\ Laid(bpp.profileData, tx.ppk, 0) /\ Len(tx.ppk.mac_chain) = Len(bpp.profileData)
  /\ ~tx.replaced =>
       /\ Len(bpp.replaceSessionKeys) = 0 /\ Len(tx.ppk.mac_chain) = 0
       /\ Laid(bpp.profileData, tx.session, n + 1)
       /\ Len(tx.session.mac_chain) = Len(bpp.configureIsdp) + n + Len(bpp.profileData)
  /\ Len(bpp.configureIsdp) \in {0, 1}
  /\ n > 0 => Len(bpp.configureIsdp) = 1
  /\ tx.replaced \/ Len(bpp.profileData) > 0 => n > 0
  /\ at \notin {"idle", "build"} => Len(bpp.profileData) > 0

UnderSameKeys ==
  /\ faults = 0 /\ tx.session.key = rx.session.key
  /\ tx.replaced => bpp.replaceSessionKeys[1].payload.data = PPK

\* The receiver's loops are where its results are, and no segment is refused.
InStep ==
  /\ at # "error"
  /\ at \in {"isdp", "metadata", "replace", "profile", "done"} =>
       res.hasReplaceSessionKeys = bpp.hasReplaceSessionKeys
  /\ at = "metadata" =>
       next = Len(res.storeMetadata) + 1 /\ Len(res.storeMetadata) <= Len(bpp.storeMetadata)
  /\ at \in {"replace", "profile", "done"} => Len(res.storeMetadata) = Len(bpp.storeMetadata)
  /\ at = "profile" =>
       next = Len(res.profileData) + 1 /\ Len(res.profileData) <= Len(bpp.profileData)
  /\ at = "done" => res.configureIsdp # <<>> /\ Len(res.profileData) = Len(bpp.profileData)

\* The inductive invariant behind UndisturbedAccepted.
MirrorInv ==
  /\ AcceptInv /\ faults \in Nat
  /\ at \in {"idle", "build", "transit", "isdp", "metadata", "replace", "profile", "done", "error"}
  /\ faults = 0 => Intact
  /\ UnderSameKeys => InStep

-----------------------------------------------------------------------------
\* A segment of the sender stands at the end of its chain, and the ones before stay.
LEMMA Placed ==
  ASSUME NEW keys \in SUBSET (Keys \cup {PPK}), NEW b \in Instances(keys), NEW tag \in Nat,
         NEW d \in AllData, NEW e,
         e = encrypt_and_mac_one(b, tag, d) \/ e = mac_only_one(b, tag, d)
  PROVE  /\ e.bsp \in Instances(keys) /\ e.bsp.key = b.key
         /\ e.segment \in Segments
         /\ Len(b.mac_chain) \in Nat /\ Len(e.bsp.mac_chain) = Len(b.mac_chain) + 1
         /\ PlacedAt(e.segment, e.bsp, Len(b.mac_chain) + 1)
         /\ \A seg \in Segments : \A j : PlacedAt(seg, b, j) => PlacedAt(seg, e.bsp, j)
<1>1. /\ e.bsp.key = b.key /\ e.segment \in Segments
      /\ e.segment.mac.key = b.key /\ e.segment.mac.log = e.bsp.mac_chain
      /\ e.bsp \in Instances(keys)
  BY Protected
<1> DEFINE entry == [tag |-> e.segment.tag, payload |-> e.segment.payload]
<1>2. e.bsp.mac_chain = Append(b.mac_chain, entry)
  BY DEF encrypt_and_mac_one, mac_only_one, Advanced, compute_mac, Segment
<1>3. b.mac_chain \in Seq(Entries) /\ entry \in Entries /\ e.bsp.mac_chain \in Seq(Entries)
  BY <1>1 DEF Instances, Segments, Entries
<1> HIDE DEF entry
<1>4. /\ Len(b.mac_chain) \in Nat /\ Len(e.bsp.mac_chain) = Len(b.mac_chain) + 1
      /\ e.bsp.mac_chain[Len(b.mac_chain) + 1] = entry
      /\ \A i \in 1..Len(b.mac_chain) : e.bsp.mac_chain[i] = b.mac_chain[i]
  BY <1>2, <1>3
<1>5. IsPrefixOf(e.bsp.mac_chain, e.bsp.mac_chain)
  BY <1>3, PrefixGrows
<1>6. PlacedAt(e.segment, e.bsp, Len(b.mac_chain) + 1)
  BY <1>1, <1>4, <1>5 DEF PlacedAt, entry
<1>7. ASSUME NEW seg \in Segments, NEW j, PlacedAt(seg, b, j) PROVE PlacedAt(seg, e.bsp, j)
  <2>1. seg.mac.log \in Seq(Entries)
    BY DEF Segments, Macs
  <2>2. IsPrefixOf(seg.mac.log, e.bsp.mac_chain)
    BY <1>2, <1>3, <1>7, <2>1, PrefixGrows DEF PlacedAt
  <2>3. j \in 1..Len(e.bsp.mac_chain) /\ e.bsp.mac_chain[j] = b.mac_chain[j]
    BY <1>4, <1>7 DEF PlacedAt
  <2> QED  BY <1>1, <1>7, <2>2, <2>3 DEF PlacedAt
<1> QED  BY <1>1, <1>4, <1>6, <1>7

\* Lists stay laid when their chain grows, and grow with it.
LEMMA LaidOn ==
  ASSUME NEW list \in Seq(Segments), NEW first \in Nat, NEW b, Laid(list, b, first), NEW u,
         \A seg \in Segments : \A j : PlacedAt(seg, b, j) => PlacedAt(seg, u, j)
  PROVE  /\ Laid(list, u, first)
         /\ \A seg \in Segments : PlacedAt(seg, u, first + Len(list) + 1) =>
              Laid(Append(list, seg), u, first)
         /\ Len(list) \in Nat /\ \A seg \in Segments : Len(Append(list, seg)) = Len(list) + 1
<1>1. \A i \in 1..Len(list) : list[i] \in Segments
  OBVIOUS
<1>2. Laid(list, u, first)
  BY <1>1 DEF Laid
<1>3. ASSUME NEW seg \in Segments, PlacedAt(seg, u, first + Len(list) + 1)
      PROVE  Laid(Append(list, seg), u, first)
  <2>1. \A i \in 1..Len(Append(list, seg)) :
          \/ i \in 1..Len(list) /\ Append(list, seg)[i] = list[i]
          \/ i = Len(list) + 1 /\ Append(list, seg)[i] = seg
    OBVIOUS
  <2>2. first + (Len(list) + 1) = first + Len(list) + 1 /\ Len(list) \in Nat
    OBVIOUS
  <2> QED  BY <1>2, <1>3, <2>1, <2>2 DEF Laid
<1> QED  BY <1>2, <1>3

\* The receiver's instance at that place accepts the segment.
LEMMA PlacedVerifies ==
  ASSUME NEW keys \in SUBSET (Keys \cup {PPK}), NEW r \in Instances(keys), NEW t \in Instances(keys),
         NEW list \in Seq(Segments), NEW i \in 1..Len(list), NEW decrypt \in BOOLEAN,
         r.key = t.key, Follows(r, t), PlacedAt(list[i], t, Len(r.mac_chain) + 1)
  PROVE  decrypt_and_verify(r, list, i, decrypt).ok
<1> DEFINE seg == list[i]
           entry == [tag |-> seg.tag, payload |-> seg.payload]
           R == r.mac_chain
           T == t.mac_chain
           L == seg.mac.log
<1>1. /\ R \in Seq(Entries) /\ T \in Seq(Entries) /\ seg \in Segments
      /\ entry \in Entries /\ L \in Seq(Entries)
  <2>1. seg \in Segments
    OBVIOUS
  <2> QED  BY <2>1 DEF Instances, Segments, Macs, Entries
<1>2. /\ Len(R) + 1 \in 1..Len(T) /\ T[Len(R) + 1] = entry
      /\ seg.mac.key = t.key /\ Len(L) = Len(R) + 1 /\ IsPrefixOf(L, T)
  BY DEF PlacedAt
<1>3. IsPrefixOf(R, T)
  BY <1>1, PrefixGrows DEF Follows
<1>4. seg.mac \in Macs
  BY <1>1 DEF Segments
<1> HIDE DEF seg, entry, R, T, L
<1>5. L = Append(R, entry)
  <2>1. Append(R, entry) \in Seq(Entries) /\ Len(Append(R, entry)) = Len(R) + 1
    BY <1>1
  <2>2. ASSUME NEW j \in 1..(Len(R) + 1) PROVE L[j] = Append(R, entry)[j]
    <3>0. Len(R) \in Nat /\ L[j] = T[j]
      BY <1>1, <1>2 DEF IsPrefixOf
    <3>1. CASE j \in 1..Len(R)
      BY <1>1, <1>3, <3>0, <3>1 DEF IsPrefixOf
    <3>2. CASE j = Len(R) + 1
      BY <1>1, <1>2, <3>0, <3>2
    <3> QED  BY <3>0, <3>1, <3>2
  <2> QED  BY <1>1, <1>2, <2>1, <2>2
<1>6. seg.mac = [key |-> r.key, log |-> Append(R, entry)]
  BY <1>2, <1>4, <1>5 DEF Macs, L
<1>7. ~(i > Len(list))
  OBVIOUS
<1>8. compute_mac(r, seg.tag, seg.payload) = seg.mac
  BY <1>6 DEF compute_mac, entry, R
<1>9. verify_and_decrypt_helper(r, seg, decrypt).ok
  BY <1>8 DEF verify_and_decrypt_helper
<1> QED  BY <1>7, <1>9 DEF decrypt_and_verify, seg

\* A list of one segment.
LEMMA LaidOne ==
  ASSUME NEW seg \in Segments, NEW b, NEW first \in Nat, PlacedAt(seg, b, first + 1)
  PROVE  Laid(<<seg>>, b, first) /\ Len(<<seg>>) = 1 /\ <<seg>> # <<>>
<1>1. Len(<<seg>>) = 1 /\ <<seg>>[1] = seg
  OBVIOUS
<1> QED  BY <1>1 DEF Laid

\* What a step of the sender has in common.
LEMMA SenderTypes ==
  ASSUME AcceptInv
  PROVE  /\ tx \in Sides /\ bpp \in Packages
         /\ tx.session \in Instances(Keys) /\ tx.ppk \in Instances({PPK})
         /\ Keys \in SUBSET (Keys \cup {PPK}) /\ {PPK} \in SUBSET (Keys \cup {PPK})
         /\ Datas \subseteq AllData /\ PPK \in AllData /\ Garbage \in AllData
         /\ bpp.configureIsdp \in Seq(Segments) /\ bpp.storeMetadata \in Seq(Segments)
         /\ bpp.replaceSessionKeys \in Seq(Segments) /\ bpp.profileData \in Seq(Segments)
         /\ tx.replaced \in BOOLEAN
  BY InvFacts DEF AcceptInv, AllData, Sides

LEMMA ConfigureIsdpIntact ==
  ASSUME AcceptInv, Intact, ProtectConfigureIsdp
  PROVE  Intact'
<1> USE SenderTypes
<1>1. PICK d \in Datas : LET e == encrypt_and_mac_one(tx.session, 87, d) IN
        /\ tx' = [tx EXCEPT !.session = e.bsp]
        /\ bpp' = [bpp EXCEPT !.configureIsdp = <<e.segment>>]
  BY DEF ProtectConfigureIsdp
<1> DEFINE e == encrypt_and_mac_one(tx.session, 87, d)
           S == tx.session.mac_chain
<1>2. at = "build" /\ at' = at /\ bpp.configureIsdp = <<>>
  BY DEF ProtectConfigureIsdp
<1>3. /\ e.bsp \in Instances(Keys) /\ e.segment \in Segments
      /\ Len(S) \in Nat /\ Len(e.bsp.mac_chain) = Len(S) + 1
      /\ PlacedAt(e.segment, e.bsp, Len(S) + 1)
      /\ \A seg \in Segments : \A j : PlacedAt(seg, tx.session, j) => PlacedAt(seg, e.bsp, j)
  <2>1. d \in AllData /\ 87 \in Nat
    OBVIOUS
  <2> QED  BY <2>1, Placed
<1> HIDE DEF e
<1>4. /\ tx'.session = e.bsp /\ tx'.ppk = tx.ppk /\ tx'.replaced = tx.replaced
      /\ bpp'.configureIsdp = <<e.segment>> /\ bpp'.storeMetadata = bpp.storeMetadata
      /\ bpp'.replaceSessionKeys = bpp.replaceSessionKeys
      /\ bpp'.hasReplaceSessionKeys = bpp.hasReplaceSessionKeys
      /\ bpp'.profileData = bpp.profileData /\ bpp'.der = bpp.der
  BY <1>1 DEF Sides, Packages, e
<1>5. /\ Len(bpp.storeMetadata) = 0 /\ Len(bpp.profileData) = 0 /\ tx.replaced = FALSE
      /\ Len(bpp.replaceSessionKeys) = 0 /\ Len(S) = 0 /\ Len(tx.ppk.mac_chain) = 0
      /\ bpp.der /\ bpp.hasReplaceSessionKeys = FALSE
  <2>1. /\ Len(bpp.configureIsdp) = 0 /\ Len(bpp.storeMetadata) \in Nat
        /\ Len(bpp.profileData) \in Nat
    BY <1>2
  <2>2. Len(bpp.storeMetadata) = 0
    BY <2>1 DEF Intact
  <2>3. Len(bpp.profileData) = 0 /\ ~tx.replaced
    BY <2>1, <2>2 DEF Intact
  <2> QED  BY <2>1, <2>2, <2>3 DEF Intact
<1>6. Laid(<<e.segment>>, e.bsp, 0) /\ Len(<<e.segment>>) = 1
  BY <1>3, <1>5, LaidOne
<1>7. \A list \in Seq(Segments) : \A b, first : Len(list) = 0 => Laid(list, b, first)
  BY DEF Laid
<1> QED  BY <1>2, <1>3, <1>4, <1>5, <1>6, <1>7 DEF Intact

LEMMA MetadataIntact ==
  ASSUME AcceptInv, Intact, ProtectMetadata
  PROVE  Intact'
<1> USE SenderTypes
<1>1. PICK d \in Datas : LET e == mac_only_one(tx.session, 88, d) IN
        /\ tx' = [tx EXCEPT !.session = e.bsp]
        /\ bpp' = [bpp EXCEPT !.storeMetadata = Append(@, e.segment)]
  BY DEF ProtectMetadata
<1> DEFINE e == mac_only_one(tx.session, 88, d)
           S == tx.session.mac_chain
           n == Len(bpp.storeMetadata)
<1>2. /\ at = "build" /\ at' = at /\ bpp.configureIsdp # <<>> /\ ~bpp.hasReplaceSessionKeys
      /\ bpp.profileData = <<>>
  BY DEF ProtectMetadata
<1>3. /\ e.bsp \in Instances(Keys) /\ e.segment \in Segments
      /\ Len(S) \in Nat /\ Len(e.bsp.mac_chain) = Len(S) + 1
      /\ PlacedAt(e.segment, e.bsp, Len(S) + 1)
      /\ \A seg \in Segments : \A j : PlacedAt(seg, tx.session, j) => PlacedAt(seg, e.bsp, j)
  <2>1. d \in AllData /\ 88 \in Nat
    OBVIOUS
  <2> QED  BY <2>1, Placed
<1> HIDE DEF e
<1>4. /\ tx'.session = e.bsp /\ tx'.ppk = tx.ppk /\ tx'.replaced = tx.replaced
      /\ bpp'.configureIsdp = bpp.configureIsdp
      /\ bpp'.storeMetadata = Append(bpp.storeMetadata, e.segment)
      /\ bpp'.replaceSessionKeys = bpp.replaceSessionKeys
      /\ bpp'.hasReplaceSessionKeys = bpp.hasReplaceSessionKeys
      /\ bpp'.profileData = bpp.profileData /\ bpp'.der = bpp.der
  BY <1>1 DEF Sides, Packages, e
<1>5. /\ Len(bpp.configureIsdp) = 1 /\ Len(bpp.profileData) = 0 /\ tx.replaced = FALSE
      /\ Len(bpp.replaceSessionKeys) = 0 /\ n \in Nat /\ Len(S) = n + 1
      /\ Len(tx.ppk.mac_chain) = 0 /\ bpp.der /\ bpp.hasReplaceSessionKeys = FALSE
      /\ Laid(bpp.configureIsdp, tx.session, 0) /\ Laid(bpp.storeMetadata, tx.session, 1)
  <2>1. Len(bpp.configureIsdp) # 0 /\ Len(bpp.profileData) = 0 /\ n \in Nat
    BY <1>2
  <2>2. ~tx.replaced
    BY <1>2 DEF Intact
  <2>3. /\ Len(bpp.configureIsdp) = 1 /\ Len(bpp.replaceSessionKeys) = 0
        /\ Len(tx.ppk.mac_chain) = 0
        /\ Len(S) = Len(bpp.configureIsdp) + n + Len(bpp.profileData)
    BY <2>1, <2>2 DEF Intact
  <2>4. tx.replaced = FALSE /\ Len(S) = n + 1
    BY <2>1, <2>2, <2>3
  <2> QED  BY <2>1, <2>3, <2>4 DEF Intact
<1>6. /\ Laid(bpp.configureIsdp, e.bsp, 0)
      /\ Laid(Append(bpp.storeMetadata, e.segment), e.bsp, 1)
      /\ Len(Append(bpp.storeMetadata, e.segment)) = n + 1
  <2>1. Laid(bpp.configureIsdp, e.bsp, 0)
    BY <1>3, <1>5, LaidOn
  <2>2. 1 + n + 1 = Len(S) + 1
    BY <1>5
  <2>3. PlacedAt(e.segment, e.bsp, 1 + n + 1)
    BY <1>3, <2>2
  <2> QED  BY <1>3, <1>5, <2>1, <2>3, LaidOn
<1>7. \A list \in Seq(Segments) : \A b, first : Len(list) = 0 => Laid(list, b, first)
  BY DEF Laid
<1> QED  BY <1>2, <1>3, <1>4, <1>5, <1>6, <1>7 DEF Intact

LEMMA ReplaceIntact ==
  ASSUME AcceptInv, Intact, ProtectReplaceSessionKeys
  PROVE  Intact'
<1> USE SenderTypes
<1>1. PICK d \in {PPK, Garbage} : LET e == encrypt_and_mac_one(tx.session, 87, d) IN
        /\ tx' = [tx EXCEPT !.session = e.bsp, !.replaced = TRUE]
        /\ bpp' = [bpp EXCEPT !.replaceSessionKeys = <<e.segment>>,
                              !.hasReplaceSessionKeys = TRUE]
  BY DEF ProtectReplaceSessionKeys, generate_replace_session_keys_data
<1> DEFINE e == encrypt_and_mac_one(tx.session, 87, d)
           S == tx.session.mac_chain
           n == Len(bpp.storeMetadata)
<1>2. /\ at = "build" /\ at' = at /\ bpp.storeMetadata # <<>> /\ ~bpp.hasReplaceSessionKeys
      /\ bpp.profileData = <<>>
  BY DEF ProtectReplaceSessionKeys
<1>3. /\ e.bsp \in Instances(Keys) /\ e.segment \in Segments
      /\ Len(S) \in Nat /\ Len(e.bsp.mac_chain) = Len(S) + 1
      /\ PlacedAt(e.segment, e.bsp, Len(S) + 1)
      /\ \A seg \in Segments : \A j : PlacedAt(seg, tx.session, j) => PlacedAt(seg, e.bsp, j)
  <2>1. d \in AllData /\ 87 \in Nat
    OBVIOUS
  <2> QED  BY <2>1, Placed
<1> HIDE DEF e
<1>4. /\ tx'.session = e.bsp /\ tx'.ppk = tx.ppk /\ tx'.replaced = TRUE
      /\ bpp'.configureIsdp = bpp.configureIsdp /\ bpp'.storeMetadata = bpp.storeMetadata
      /\ bpp'.replaceSessionKeys = <<e.segment>> /\ bpp'.hasReplaceSessionKeys = TRUE
      /\ bpp'.profileData = bpp.profileData /\ bpp'.der = bpp.der
  BY <1>1 DEF Sides, Packages, e
<1>5. /\ Len(bpp.configureIsdp) = 1 /\ Len(bpp.profileData) = 0
      /\ n \in Nat /\ n > 0 /\ Len(S) = n + 1
      /\ Len(tx.ppk.mac_chain) = 0 /\ bpp.der
      /\ Laid(bpp.configureIsdp, tx.session, 0) /\ Laid(bpp.storeMetadata, tx.session, 1)
  <2>1. Len(bpp.profileData) = 0 /\ n \in Nat /\ n > 0
    BY <1>2
  <2>2. ~tx.replaced
    BY <1>2 DEF Intact
  <2>3. /\ Len(bpp.configureIsdp) = 1 /\ Len(bpp.replaceSessionKeys) = 0
        /\ Len(tx.ppk.mac_chain) = 0
        /\ Len(S) = Len(bpp.configureIsdp) + n + Len(bpp.profileData)
    BY <2>1, <2>2 DEF Intact
  <2>4. tx.replaced = FALSE /\ Len(S) = n + 1
    BY <2>1, <2>2, <2>3
  <2> QED  BY <2>1, <2>3, <2>4 DEF Intact
<1>6. /\ Laid(bpp.configureIsdp, e.bsp, 0) /\ Laid(bpp.storeMetadata, e.bsp, 1)
      /\ Laid(<<e.segment>>, e.bsp, n + 1) /\ Len(<<e.segment>>) = 1
  <2>1. Laid(bpp.configureIsdp, e.bsp, 0)
    BY <1>3, <1>5, LaidOn
  <2>2. Laid(bpp.storeMetadata, e.bsp, 1)
    BY <1>3, <1>5, LaidOn
  <2>3. PlacedAt(e.segment, e.bsp, (n + 1) + 1) /\ n + 1 \in Nat
    BY <1>3, <1>5
  <2> QED  BY <1>3, <2>1, <2>2, <2>3, LaidOne
<1>7. \A list \in Seq(Segments) : \A b, first : Len(list) = 0 => Laid(list, b, first)
  BY DEF Laid
<1>8. Laid(bpp.profileData, tx.ppk, 0)
  BY <1>5, <1>7
<1>9. Len(e.bsp.mac_chain) = n + 2
  BY <1>3, <1>5
<1>10. at' \in {"idle", "build"}
  BY <1>2
<1> HIDE DEF n
<1>11. Len(bpp'.storeMetadata) = n
  BY <1>4 DEF n
<1> QED  BY <1>4, <1>5, <1>6, <1>8, <1>9, <1>10, <1>11 DEF Intact

LEMMA ProfileIntact ==
  ASSUME AcceptInv, Intact, ProtectProfile
  PROVE  Intact'
<1> USE SenderTypes
<1> DEFINE b == IF tx.replaced THEN tx.ppk ELSE tx.session
           n == Len(bpp.storeMetadata)
<1>1. PICK d \in Datas : LET e == encrypt_and_mac_one(b, 86, d) IN
        /\ tx' = IF tx.replaced THEN [tx EXCEPT !.ppk = e.bsp] ELSE [tx EXCEPT !.session = e.bsp]
        /\ bpp' = [bpp EXCEPT !.profileData = Append(@, e.segment)]
  BY DEF ProtectProfile
<1> DEFINE e == encrypt_and_mac_one(b, 86, d)
<1>2. at = "build" /\ at' = at /\ bpp.storeMetadata # <<>>
  BY DEF ProtectProfile
<1>3. /\ e.segment \in Segments
      /\ Len(b.mac_chain) \in Nat /\ Len(e.bsp.mac_chain) = Len(b.mac_chain) + 1
      /\ PlacedAt(e.segment, e.bsp, Len(b.mac_chain) + 1)
      /\ \A seg \in Segments : \A j : PlacedAt(seg, b, j) => PlacedAt(seg, e.bsp, j)
  <2>1. d \in AllData /\ 86 \in Nat
    OBVIOUS
  <2>2. PICK keys \in SUBSET (Keys \cup {PPK}) : b \in Instances(keys)
    OBVIOUS
  <2> HIDE DEF b
  <2> QED  BY <2>1, <2>2, Placed
<1> HIDE DEF e
<1>4. /\ tx'.session = (IF tx.replaced THEN tx.session ELSE e.bsp)
      /\ tx'.ppk = (IF tx.replaced THEN e.bsp ELSE tx.ppk) /\ tx'.replaced = tx.replaced
      /\ bpp'.configureIsdp = bpp.configureIsdp /\ bpp'.storeMetadata = bpp.storeMetadata
      /\ bpp'.replaceSessionKeys = bpp.replaceSessionKeys
      /\ bpp'.hasReplaceSessionKeys = bpp.hasReplaceSessionKeys
      /\ bpp'.profileData = Append(bpp.profileData, e.segment) /\ bpp'.der = bpp.der
  BY <1>1 DEF Sides, Packages, e
<1>5. /\ Len(bpp.configureIsdp) = 1 /\ n \in Nat /\ n > 0
      /\ bpp.der /\ bpp.hasReplaceSessionKeys = tx.replaced
      /\ Laid(bpp.configureIsdp, tx.session, 0) /\ Laid(bpp.storeMetadata, tx.session, 1)
      /\ Laid(bpp.replaceSessionKeys, tx.session, n + 1)
  <2>1. n \in Nat /\ n > 0
    BY <1>2
  <2> QED  BY <2>1 DEF Intact
<1>6. /\ Len(bpp.profileData) \in Nat
      /\ Len(Append(bpp.profileData, e.segment)) = Len(bpp.profileData) + 1
  BY <1>3
<1>7. CASE tx.replaced
  <2>1. /\ Len(bpp.replaceSessionKeys) = 1 /\ Len(tx.session.mac_chain) = n + 2
        /\ Laid(bpp.profileData, tx.ppk, 0) /\ Len(tx.ppk.mac_chain) = Len(bpp.profileData)
    BY <1>7 DEF Intact
  <2>2. PlacedAt(e.segment, e.bsp, 0 + Len(bpp.profileData) + 1)
    BY <1>3, <1>6, <1>7, <2>1
  <2>3. Laid(Append(bpp.profileData, e.segment), e.bsp, 0)
    BY <1>3, <1>7, <2>1, <2>2, LaidOn
  <2>4. /\ tx'.session = tx.session /\ tx'.ppk = e.bsp
        /\ Len(e.bsp.mac_chain) = Len(bpp'.profileData)
    BY <1>3, <1>4, <1>6, <1>7, <2>1
  <2>5. at' \in {"idle", "build"} /\ Len(bpp'.storeMetadata) = n /\ Len(bpp'.configureIsdp) = 1
    BY <1>2, <1>4, <1>5
  <2> HIDE DEF b, n
  <2> QED  BY <1>4, <1>5, <1>7, <2>1, <2>3, <2>4, <2>5 DEF Intact
<1>8. CASE ~tx.replaced
  <2>1. /\ Len(bpp.replaceSessionKeys) = 0 /\ Len(tx.ppk.mac_chain) = 0
        /\ Laid(bpp.profileData, tx.session, n + 1)
        /\ Len(tx.session.mac_chain) = 1 + n + Len(bpp.profileData)
    <3>1. Len(tx.session.mac_chain) = Len(bpp.configureIsdp) + n + Len(bpp.profileData)
      BY <1>8 DEF Intact
    <3> QED  BY <1>5, <1>8, <3>1 DEF Intact
  <2>a. PICK k \in Nat, m \in Nat : k = Len(bpp.profileData) /\ m = n
    BY <1>5, <1>6
  <2>2. (n + 1) + Len(bpp.profileData) + 1 = Len(tx.session.mac_chain) + 1 /\ n + 1 \in Nat
    <3> HIDE DEF n
    <3>1. Len(tx.session.mac_chain) = 1 + m + k
      BY <2>a, <2>1
    <3>2. (m + 1) + k + 1 = (1 + m + k) + 1 /\ m + 1 \in Nat
      OBVIOUS
    <3> QED  BY <2>a, <3>1, <3>2
  <2>3. PlacedAt(e.segment, e.bsp, (n + 1) + Len(bpp.profileData) + 1)
    BY <1>3, <1>8, <2>2
  <2>4. \A seg \in Segments : \A j : PlacedAt(seg, tx.session, j) => PlacedAt(seg, e.bsp, j)
    BY <1>3, <1>8
  <2>5. Laid(Append(bpp.profileData, e.segment), e.bsp, n + 1)
    BY <1>3, <2>1, <2>2, <2>3, <2>4, LaidOn
  <2>6. Laid(bpp.configureIsdp, e.bsp, 0)
    BY <1>5, <2>4, LaidOn
  <2>7. Laid(bpp.storeMetadata, e.bsp, 1)
    BY <1>5, <2>4, LaidOn
  <2>8. Laid(bpp.replaceSessionKeys, e.bsp, n + 1)
    BY <1>5, <2>2, <2>4, LaidOn
  <2>9. Len(e.bsp.mac_chain) = 1 + n + Len(bpp'.profileData)
    <3>1. Len(e.bsp.mac_chain) = Len(tx.session.mac_chain) + 1
      BY <1>3, <1>8
    <3>2. Len(bpp'.profileData) = k + 1
      BY <1>4, <1>6, <2>a
    <3> HIDE DEF b, n
    <3>3. Len(tx.session.mac_chain) = 1 + m + k
      BY <2>a, <2>1
    <3>4. Len(e.bsp.mac_chain) = 1 + m + (k + 1)
      BY <3>1, <3>3
    <3> QED  BY <3>2, <3>4, <2>a
  <2>10. at' \in {"idle", "build"} /\ Len(bpp'.storeMetadata) = n /\ Len(bpp'.configureIsdp) = 1
    BY <1>2, <1>4, <1>5
  <2>11. tx'.session = e.bsp /\ tx'.ppk = tx.ppk
    BY <1>4, <1>8
  <2> HIDE DEF b, n
  <2> QED
    BY <1>4, <1>5, <1>8, <2>1, <2>5, <2>6, <2>7, <2>8, <2>9, <2>10, <2>11 DEF Intact
<1> QED  BY <1>7, <1>8

-----------------------------------------------------------------------------
\* Verifying leaves the key.
LEMMA VerifyKey ==
  /\ \A b, list, i : decrypt_and_verify(b, list, i, TRUE).bsp.key = b.key
  /\ \A b, list, i : decrypt_and_verify(b, list, i, FALSE).bsp.key = b.key
  BY DEF decrypt_and_verify, verify_and_decrypt_helper, Advanced

\* The outcomes of the replacement of the keys.
LEMMA ReplaceCases ==
  ASSUME ReplaceSessionKeys
  PROVE  LET v == decrypt_and_verify(rx.session, bpp.replaceSessionKeys, 1, TRUE) IN
         /\ at = "replace" /\ UNCHANGED <<tx, bpp, faults>>
         /\ \/ (~v.ok \/ v.data # PPK) /\ rx' = rx
            \/ /\ v.ok /\ v.data = PPK /\ rx'.session = v.bsp
               /\ at' = "profile" /\ next' = 1 /\ res' = res
<1> DEFINE v == decrypt_and_verify(rx.session, bpp.replaceSessionKeys, 1, TRUE)
           k == parse_replace_session_keys(v.data)
<1>1. k.ok <=> v.data = PPK
  BY DEF parse_replace_session_keys
<1>2. /\ at = "replace"
      /\ IF ~v.ok \/ ~k.ok THEN Throw
         ELSE /\ rx' = [session |-> v.bsp, replaced |-> TRUE, ppk |-> from_replace_session_keys(k.rsk)]
              /\ at' = "profile" /\ next' = 1 /\ UNCHANGED <<tx, bpp, res, faults>>
  BY Zenon DEF ReplaceSessionKeys
<1> HIDE DEF v, k
<1>3. /\ at = "replace" /\ UNCHANGED <<tx, bpp, faults>>
      /\ \/ (~v.ok \/ v.data # PPK) /\ rx' = rx
         \/ /\ v.ok /\ v.data = PPK /\ rx'.session = v.bsp
            /\ at' = "profile" /\ next' = 1 /\ res' = res
  BY <1>1, <1>2 DEF Throw
<1> QED  BY <1>3 DEF v

\* What a step of the receiver starts from.
LEMMA ReceiverFacts ==
  ASSUME MirrorInv
  PROVE  /\ tx \in Sides /\ rx \in Sides /\ bpp \in Packages /\ next \in Nat \ {0}
         /\ tx.session \in Instances(Keys) /\ tx.ppk \in Instances({PPK})
         /\ rx.session \in Instances(Keys) /\ rx.ppk \in Instances({PPK})
         /\ rx.ppk.key = tx.ppk.key
         /\ Keys \in SUBSET (Keys \cup {PPK}) /\ {PPK} \in SUBSET (Keys \cup {PPK})
         /\ bpp.configureIsdp \in Seq(Segments) /\ bpp.storeMetadata \in Seq(Segments)
         /\ bpp.replaceSessionKeys \in Seq(Segments) /\ bpp.profileData \in Seq(Segments)
         /\ Follows(rx.session, tx.session) /\ Follows(rx.ppk, tx.ppk)
         /\ res \in Results /\ Reading /\ Counted(rx.session) /\ Sealed(tx.session)
         /\ HasTag(bpp.replaceSessionKeys, 87)
         /\ UnderSameKeys => Intact /\ InStep /\ rx.session.key = tx.session.key
<1>1. BspInv /\ SenderInOrder /\ ReceiverInOrder
  BY DEF MirrorInv, AcceptInv
<1>2. rx.ppk.key = tx.ppk.key
  BY <1>1, InvFacts DEF Instances
<1>3. UnderSameKeys => Intact /\ InStep /\ rx.session.key = tx.session.key
  BY DEF MirrorInv, UnderSameKeys
<1>4. /\ tx \in Sides /\ rx \in Sides /\ bpp \in Packages /\ next \in Nat \ {0}
      /\ tx.session \in Instances(Keys) /\ tx.ppk \in Instances({PPK})
      /\ rx.session \in Instances(Keys) /\ rx.ppk \in Instances({PPK})
      /\ bpp.configureIsdp \in Seq(Segments) /\ bpp.storeMetadata \in Seq(Segments)
      /\ bpp.replaceSessionKeys \in Seq(Segments) /\ bpp.profileData \in Seq(Segments)
      /\ Follows(rx.session, tx.session) /\ Follows(rx.ppk, tx.ppk)
  BY <1>1, InvFacts
<1>5. /\ res \in Results /\ Reading /\ Counted(rx.session) /\ Sealed(tx.session)
      /\ HasTag(bpp.replaceSessionKeys, 87)
  BY <1>1 DEF SenderInOrder, ReceiverInOrder, PackageTags
<1> QED  BY <1>2, <1>3, <1>4, <1>5

\* The lists of an undisturbed package on its way.
LEMMA OnItsWay ==
  ASSUME MirrorInv, UnderSameKeys, at \notin {"idle", "build"}
  PROVE  /\ Len(bpp.configureIsdp) = 1 /\ Len(bpp.storeMetadata) \in Nat
         /\ Len(bpp.profileData) \in Nat
         /\ Len(bpp.storeMetadata) > 0 /\ Len(bpp.profileData) > 0
<1>1. Intact
  BY ReceiverFacts
<1>2. /\ Len(bpp.configureIsdp) \in Nat /\ Len(bpp.storeMetadata) \in Nat
      /\ Len(bpp.profileData) \in Nat
  BY ReceiverFacts
<1> QED  BY <1>1, <1>2 DEF Intact

LEMMA DecodeInStep ==
  ASSUME MirrorInv, Decode
  PROVE  rx' = rx /\ UNCHANGED <<tx, bpp, faults>> /\ (UnderSameKeys => InStep')
<1> USE ReceiverFacts
<1>1. rx' = rx /\ UNCHANGED <<tx, bpp, faults>> /\ at = "transit"
  BY DEF Decode
<1>2. ASSUME UnderSameKeys PROVE InStep'
  <2>1. bpp.der
    BY <1>2 DEF Intact
  <2>2. /\ at' = "isdp"
        /\ res' = [res EXCEPT !.hasReplaceSessionKeys = bpp.hasReplaceSessionKeys]
    BY <2>1 DEF Decode
  <2>3. res'.hasReplaceSessionKeys = bpp'.hasReplaceSessionKeys
    BY <1>1, <2>2 DEF Results
  <2> QED  BY <2>2, <2>3 DEF InStep
<1> QED  BY <1>1, <1>2

LEMMA ConfigureIsdpInStep ==
  ASSUME MirrorInv, ConfigureIsdp
  PROVE  /\ rx'.session.key = rx.session.key /\ UNCHANGED <<tx, bpp, faults>>
         /\ UnderSameKeys => InStep'
<1> USE ReceiverFacts
<1> DEFINE v == decrypt_and_verify(rx.session, bpp.configureIsdp, 1, TRUE)
<1>1. /\ at = "isdp" /\ UNCHANGED <<tx, bpp, faults>>
      /\ \/ ~v.ok /\ rx' = rx
         \/ /\ v.ok /\ rx' = [rx EXCEPT !.session = v.bsp]
            /\ res' = [res EXCEPT !.configureIsdp = <<v.data>>]
            /\ at' = "metadata" /\ next' = 1
  BY DEF ConfigureIsdp, Throw
<1>2. rx'.session.key = rx.session.key
  <2>1. v.bsp.key = rx.session.key
    BY VerifyKey
  <2> HIDE DEF v
  <2> QED  BY <1>1, <2>1 DEF Sides
<1>3. ASSUME UnderSameKeys PROVE v.ok
  <2>1. Len(bpp.configureIsdp) = 1
    BY <1>1, <1>3, OnItsWay
  <2>2. rx.session.mac_chain = <<>>
    BY <1>1 DEF Reading, NothingRead
  <2>3. PlacedAt(bpp.configureIsdp[1], tx.session, Len(rx.session.mac_chain) + 1)
    <3>1. Laid(bpp.configureIsdp, tx.session, 0)
      BY <1>3 DEF Intact
    <3>2. Len(rx.session.mac_chain) + 1 = 0 + 1 /\ 1 \in 1..Len(bpp.configureIsdp)
      BY <2>1, <2>2
    <3> QED  BY <3>1, <3>2 DEF Laid
  <2>4. 1 \in 1..Len(bpp.configureIsdp) /\ TRUE \in BOOLEAN /\ rx.session.key = tx.session.key
    BY <1>3, <2>1
  <2> QED  BY <2>3, <2>4, PlacedVerifies
<1> HIDE DEF v
<1>4. ASSUME UnderSameKeys PROVE InStep'
  <2>1. v.ok
    BY <1>3, <1>4
  <2>2. res'.storeMetadata = res.storeMetadata /\ res'.hasReplaceSessionKeys = res.hasReplaceSessionKeys
    BY <1>1, <2>1 DEF Results
  <2>3. res.storeMetadata = <<>> /\ res.hasReplaceSessionKeys = bpp.hasReplaceSessionKeys
    BY <1>1, <1>4 DEF Reading, NothingRead, InStep
  <2>4. Len(res'.storeMetadata) = 0 /\ 0 <= Len(bpp'.storeMetadata)
    BY <1>1, <2>2, <2>3
  <2> QED  BY <1>1, <2>1, <2>2, <2>3, <2>4 DEF InStep
<1> QED  BY <1>1, <1>2, <1>4

LEMMA StoreMetadataInStep ==
  ASSUME MirrorInv, StoreMetadata
  PROVE  /\ rx'.session.key = rx.session.key /\ UNCHANGED <<tx, bpp, faults>>
         /\ UnderSameKeys => InStep'
<1> USE ReceiverFacts
<1> DEFINE v == decrypt_and_verify(rx.session, bpp.storeMetadata, next, FALSE)
<1>1. /\ at = "metadata" /\ next <= Len(bpp.storeMetadata) /\ UNCHANGED <<tx, bpp, faults>>
      /\ \/ ~v.ok /\ rx' = rx
         \/ /\ v.ok /\ rx' = [rx EXCEPT !.session = v.bsp]
            /\ res' = [res EXCEPT !.storeMetadata = Append(@, v.data)]
            /\ at' = at /\ next' = next + 1
  BY DEF StoreMetadata, Throw
<1>2. rx'.session.key = rx.session.key
  <2>1. v.bsp.key = rx.session.key
    BY VerifyKey
  <2> HIDE DEF v
  <2> QED  BY <1>1, <2>1 DEF Sides
<1>3. next \in 1..Len(bpp.storeMetadata) /\ Len(bpp.storeMetadata) \in Nat
  BY <1>1
<1>4. ASSUME UnderSameKeys
      PROVE  /\ v.ok /\ next = Len(res.storeMetadata) + 1
             /\ res.hasReplaceSessionKeys = bpp.hasReplaceSessionKeys
  <2>1. /\ next = Len(res.storeMetadata) + 1
        /\ res.hasReplaceSessionKeys = bpp.hasReplaceSessionKeys
    BY <1>1, <1>4 DEF InStep
  <2>2. Len(rx.session.mac_chain) = Len(res.storeMetadata) + 1
    BY <1>1 DEF Reading, OnlyMetadataRead
  <2>3. PlacedAt(bpp.storeMetadata[next], tx.session, Len(rx.session.mac_chain) + 1)
    <3>1. Laid(bpp.storeMetadata, tx.session, 1)
      BY <1>4 DEF Intact
    <3>2. PlacedAt(bpp.storeMetadata[next], tx.session, 1 + next)
      BY <1>3, <3>1 DEF Laid
    <3>3. 1 + next = Len(rx.session.mac_chain) + 1
      BY <2>1, <2>2
    <3> QED  BY <3>2, <3>3
  <2>4. FALSE \in BOOLEAN /\ rx.session.key = tx.session.key
    BY <1>4
  <2>5. v.ok
    BY <1>3, <2>3, <2>4, PlacedVerifies
  <2> QED  BY <2>1, <2>5
<1> HIDE DEF v
<1>5. ASSUME UnderSameKeys PROVE InStep'
  <2>1. /\ v.ok /\ next = Len(res.storeMetadata) + 1
        /\ res.hasReplaceSessionKeys = bpp.hasReplaceSessionKeys
    BY <1>4, <1>5
  <2>2. /\ res'.storeMetadata = Append(res.storeMetadata, v.data)
        /\ res'.hasReplaceSessionKeys = res.hasReplaceSessionKeys
    BY <1>1, <2>1 DEF Results
  <2>3. Len(Append(res.storeMetadata, v.data)) = Len(res.storeMetadata) + 1
    BY DEF Results
  <2> QED  BY <1>1, <1>3, <2>1, <2>2, <2>3 DEF InStep
<1> QED  BY <1>1, <1>2, <1>5

LEMMA MetadataDoneInStep ==
  ASSUME MirrorInv, MetadataDone
  PROVE  rx' = rx /\ UNCHANGED <<tx, bpp, faults>> /\ (UnderSameKeys => InStep')
<1> USE ReceiverFacts
<1>1. /\ at = "metadata" /\ next > Len(bpp.storeMetadata)
      /\ at' \in {"replace", "profile"} /\ next' = 1
      /\ UNCHANGED <<tx, rx, bpp, res, faults>>
  BY DEF MetadataDone
<1>2. ASSUME UnderSameKeys PROVE InStep'
  <2>1. /\ next = Len(res.storeMetadata) + 1 /\ Len(res.storeMetadata) <= Len(bpp.storeMetadata)
        /\ res.hasReplaceSessionKeys = bpp.hasReplaceSessionKeys
    BY <1>1, <1>2 DEF InStep
  <2>2. Len(res.storeMetadata) \in Nat /\ Len(bpp.storeMetadata) \in Nat /\ Len(bpp.profileData) \in Nat
    BY DEF Results
  <2>3. Len(res.storeMetadata) = Len(bpp.storeMetadata)
    BY <1>1, <2>1, <2>2
  <2>4. Len(res.profileData) = 0
    BY <1>1 DEF Reading, OnlyMetadataRead
  <2> QED  BY <1>1, <2>1, <2>2, <2>3, <2>4 DEF InStep
<1> QED  BY <1>1, <1>2

LEMMA ReplaceInStep ==
  ASSUME MirrorInv, ReplaceSessionKeys
  PROVE  /\ rx'.session.key = rx.session.key /\ UNCHANGED <<tx, bpp, faults>>
         /\ UnderSameKeys => InStep'
<1> USE ReceiverFacts
<1> DEFINE v == decrypt_and_verify(rx.session, bpp.replaceSessionKeys, 1, TRUE)
           n == Len(bpp.storeMetadata)
           seg == bpp.replaceSessionKeys[1]
<1>1. /\ at = "replace" /\ UNCHANGED <<tx, bpp, faults>>
      /\ \/ (~v.ok \/ v.data # PPK) /\ rx' = rx
         \/ /\ v.ok /\ v.data = PPK /\ rx'.session = v.bsp
            /\ at' = "profile" /\ next' = 1 /\ res' = res
  BY ReplaceCases
<1>2. rx'.session.key = rx.session.key
  <2>1. v.bsp.key = rx.session.key
    BY VerifyKey
  <2> HIDE DEF v
  <2> QED  BY <1>1, <2>1 DEF Sides
<1>3. ASSUME UnderSameKeys PROVE v.ok /\ v.data = PPK
  <2>1. /\ tx.replaced /\ Len(res.storeMetadata) = n
    <3>1. res.hasReplaceSessionKeys
      BY <1>1 DEF Reading
    <3>2. bpp.hasReplaceSessionKeys
      BY <1>1, <1>3, <3>1 DEF InStep
    <3> QED  BY <1>1, <1>3, <3>2 DEF InStep, Intact
  <2>2. Len(rx.session.mac_chain) = n + 1 /\ n \in Nat
    BY <1>1, <2>1 DEF Reading, OnlyMetadataRead
  <2>3. Len(bpp.replaceSessionKeys) = 1 /\ seg.payload.data = PPK /\ Laid(bpp.replaceSessionKeys, tx.session, n + 1)
    BY <1>3, <2>1 DEF Intact, UnderSameKeys
  <2>4. PlacedAt(seg, tx.session, n + 2) /\ seg \in Segments /\ seg.tag = 87
    <3>1. 1 \in 1..Len(bpp.replaceSessionKeys) /\ (n + 1) + 1 = n + 2
      BY <2>2, <2>3
    <3> QED  BY <2>3, <3>1 DEF Laid, HasTag
  <2>5. v.ok
    <3>1. Len(rx.session.mac_chain) + 1 = n + 2 /\ 1 \in 1..Len(bpp.replaceSessionKeys)
      BY <2>2, <2>3
    <3>2. PlacedAt(bpp.replaceSessionKeys[1], tx.session, Len(rx.session.mac_chain) + 1)
      BY <2>4, <3>1
    <3>3. TRUE \in BOOLEAN /\ rx.session.key = tx.session.key
      BY <1>3
    <3> QED  BY <3>1, <3>2, <3>3, PlacedVerifies
  <2>6. /\ seg.payload.encrypted /\ seg.payload.key = tx.session.key
        /\ seg.payload.block = n + 2
    <3>1. n + 2 \in 1..Len(tx.session.mac_chain)
      BY <2>4 DEF PlacedAt
    <3>2. tx.session.mac_chain[n + 2].tag = 87 /\ tx.session.mac_chain[n + 2].payload = seg.payload
      BY <2>4 DEF PlacedAt
    <3>3. PICK j \in 1..Len(tx.session.mac_chain) : j = n + 2
      BY <3>1
    <3>4. tx.session.mac_chain[j].tag # 88 =>
            /\ tx.session.mac_chain[j].payload.encrypted
            /\ tx.session.mac_chain[j].payload.key = tx.session.key
            /\ tx.session.mac_chain[j].payload.block = j
      BY DEF Sealed
    <3> HIDE DEF n, seg
    <3> QED  BY <3>2, <3>3, <3>4
  <2>7. rx.session.block_number = n + 2
    BY <2>2 DEF Counted
  <2>8. aes_decrypt_with_icv(rx.session, seg.payload) = PPK
    BY <1>3, <2>3, <2>6, <2>7 DEF aes_decrypt_with_icv
  <2>9. v.data = aes_decrypt_with_icv(rx.session, seg.payload)
    <3>1. ~(1 > Len(bpp.replaceSessionKeys))
      BY <2>3
    <3> QED  BY <3>1 DEF decrypt_and_verify, verify_and_decrypt_helper
  <2> QED  BY <2>5, <2>8, <2>9
<1> HIDE DEF v
<1>4. ASSUME UnderSameKeys PROVE InStep'
  <2>1. v.ok /\ v.data = PPK
    BY <1>3, <1>4
  <2>a. at' = "profile" /\ next' = 1 /\ res' = res
    BY <1>1, <2>1
  <2>2. /\ Len(res.storeMetadata) = Len(bpp.storeMetadata)
        /\ res.hasReplaceSessionKeys = bpp.hasReplaceSessionKeys
    BY <1>1, <1>4 DEF InStep
  <2>3. Len(res.profileData) = 0 /\ Len(bpp.profileData) \in Nat
    BY <1>1 DEF Reading, OnlyMetadataRead
  <2> QED  BY <1>1, <2>a, <2>2, <2>3 DEF InStep
<1> QED  BY <1>1, <1>2, <1>4

LEMMA ProfileDataInStep ==
  ASSUME MirrorInv, ProfileData
  PROVE  /\ rx'.session.key = rx.session.key /\ UNCHANGED <<tx, bpp, faults>>
         /\ UnderSameKeys => InStep'
<1> USE ReceiverFacts
<1> DEFINE b == IF rx.replaced THEN rx.ppk ELSE rx.session
           v == decrypt_and_verify(b, bpp.profileData, next, TRUE)
<1>1. /\ at = "profile" /\ next <= Len(bpp.profileData) /\ UNCHANGED <<tx, bpp, faults>>
      /\ \/ ~v.ok /\ rx' = rx
         \/ /\ v.ok
            /\ rx' = IF rx.replaced THEN [rx EXCEPT !.ppk = v.bsp] ELSE [rx EXCEPT !.session = v.bsp]
            /\ res' = [res EXCEPT !.profileData = Append(@, v.data)]
            /\ at' = at /\ next' = next + 1
  BY DEF ProfileData, Throw
<1>2. rx'.session.key = rx.session.key
  <2>1. v.bsp.key = b.key
    BY VerifyKey
  <2> HIDE DEF v
  <2> QED  BY <1>1, <2>1 DEF Sides
<1>3. next \in 1..Len(bpp.profileData) /\ Len(bpp.profileData) \in Nat
  BY <1>1
<1>4. ASSUME UnderSameKeys
      PROVE  /\ v.ok /\ next = Len(res.profileData) + 1
             /\ res.hasReplaceSessionKeys = bpp.hasReplaceSessionKeys
             /\ Len(res.storeMetadata) = Len(bpp.storeMetadata)
  <2>1. /\ next = Len(res.profileData) + 1
        /\ res.hasReplaceSessionKeys = bpp.hasReplaceSessionKeys
        /\ Len(res.storeMetadata) = Len(bpp.storeMetadata)
    BY <1>1, <1>4 DEF InStep
  <2>2. ProfileRead
    BY <1>1 DEF Reading
  <2>3. rx.replaced = tx.replaced
    BY <1>4, <2>1, <2>2 DEF ProfileRead, Intact
  <2>4. TRUE \in BOOLEAN /\ rx.session.key = tx.session.key
    BY <1>4
  <2>5. CASE rx.replaced
    <3>1. Len(rx.ppk.mac_chain) = Len(res.profileData) /\ Laid(bpp.profileData, tx.ppk, 0)
      BY <1>4, <2>2, <2>3, <2>5 DEF ProfileRead, Intact
    <3>2. PlacedAt(bpp.profileData[next], tx.ppk, 0 + next)
      BY <1>3, <3>1 DEF Laid
    <3>3. 0 + next = Len(rx.ppk.mac_chain) + 1
      BY <2>1, <3>1
    <3>4. PlacedAt(bpp.profileData[next], tx.ppk, Len(rx.ppk.mac_chain) + 1)
      BY <3>2, <3>3
    <3>5. decrypt_and_verify(rx.ppk, bpp.profileData, next, TRUE).ok
      BY <1>3, <2>4, <3>4, PlacedVerifies
    <3> QED  BY <2>1, <2>5, <3>5
  <2>6. CASE ~rx.replaced
    <3>0. PICK m \in Nat, k \in Nat : m = Len(res.storeMetadata) /\ k = Len(res.profileData)
      BY DEF Results
    <3>1. Len(rx.session.mac_chain) = m + 1 + k /\ Laid(bpp.profileData, tx.session, m + 1)
      BY <1>4, <2>1, <2>2, <2>3, <2>6, <3>0 DEF ProfileRead, Intact
    <3>2. PlacedAt(bpp.profileData[next], tx.session, (m + 1) + next)
      BY <1>3, <3>1 DEF Laid
    <3>3. (m + 1) + next = Len(rx.session.mac_chain) + 1
      <4>1. next = k + 1
        BY <2>1, <3>0
      <4>2. (m + 1) + (k + 1) = (m + 1 + k) + 1
        OBVIOUS
      <4> QED  BY <3>1, <4>1, <4>2
    <3>4. PlacedAt(bpp.profileData[next], tx.session, Len(rx.session.mac_chain) + 1)
      BY <3>2, <3>3
    <3>5. decrypt_and_verify(rx.session, bpp.profileData, next, TRUE).ok
      BY <1>3, <2>4, <3>4, PlacedVerifies
    <3> QED  BY <2>1, <2>6, <3>5
  <2> QED  BY <2>5, <2>6
<1> HIDE DEF v
<1>5. ASSUME UnderSameKeys PROVE InStep'
  <2>1. /\ v.ok /\ next = Len(res.profileData) + 1
        /\ res.hasReplaceSessionKeys = bpp.hasReplaceSessionKeys
        /\ Len(res.storeMetadata) = Len(bpp.storeMetadata)
    BY <1>4, <1>5
  <2>2. /\ res'.profileData = Append(res.profileData, v.data)
        /\ res'.hasReplaceSessionKeys = res.hasReplaceSessionKeys
        /\ res'.storeMetadata = res.storeMetadata
    BY <1>1, <2>1 DEF Results
  <2>3. Len(Append(res.profileData, v.data)) = Len(res.profileData) + 1
    BY DEF Results
  <2> QED  BY <1>1, <1>3, <2>1, <2>2, <2>3 DEF InStep
<1> QED  BY <1>1, <1>2, <1>5

LEMMA ProfileDoneInStep ==
  ASSUME MirrorInv, ProfileDone
  PROVE  rx' = rx /\ UNCHANGED <<tx, bpp, faults>> /\ (UnderSameKeys => InStep')
<1> USE ReceiverFacts
<1>1. /\ at = "profile" /\ next > Len(bpp.profileData) /\ at' = "done"
      /\ UNCHANGED <<tx, rx, bpp, res, faults>>
  BY DEF ProfileDone
<1>2. ASSUME UnderSameKeys PROVE InStep'
  <2>1. /\ next = Len(res.profileData) + 1 /\ Len(res.profileData) <= Len(bpp.profileData)
        /\ res.hasReplaceSessionKeys = bpp.hasReplaceSessionKeys
        /\ Len(res.storeMetadata) = Len(bpp.storeMetadata)
    BY <1>1, <1>2 DEF InStep
  <2>2. Len(res.profileData) \in Nat /\ Len(bpp.profileData) \in Nat
    BY DEF Results
  <2>3. Len(res.profileData) = Len(bpp.profileData)
    BY <1>1, <2>1, <2>2
  <2>4. res.configureIsdp # <<>>
    <3>1. MetadataRead
      BY <1>1 DEF Reading, ProfileRead
    <3>2. \A x : <<x>> # <<>>
      OBVIOUS
    <3> QED  BY <3>1, <3>2 DEF MetadataRead
  <2> QED  BY <1>1, <2>1, <2>3, <2>4 DEF InStep
<1> QED  BY <1>1, <1>2

-----------------------------------------------------------------------------
\* The invariant with a new package, and before the first.
LEMMA NewMirror ==
  ASSUME NEW k, tx = Side(k), bpp = NoPackage, at \in {"idle", "build"}
  PROVE  Intact /\ InStep
<1>1. /\ tx.session.mac_chain = <<>> /\ tx.ppk.mac_chain = <<>> /\ tx.replaced = FALSE
  BY DEF Side, BspCrypto
<1>2. /\ bpp.configureIsdp = <<>> /\ bpp.storeMetadata = <<>> /\ bpp.replaceSessionKeys = <<>>
      /\ bpp.profileData = <<>> /\ bpp.hasReplaceSessionKeys = FALSE /\ bpp.der = TRUE
  BY DEF NoPackage
<1>3. /\ Len(tx.session.mac_chain) = 0 /\ Len(tx.ppk.mac_chain) = 0
      /\ Len(bpp.configureIsdp) = 0 /\ Len(bpp.storeMetadata) = 0
      /\ Len(bpp.replaceSessionKeys) = 0 /\ Len(bpp.profileData) = 0
  BY <1>1, <1>2
<1>4. \A b, first : Laid(<<>>, b, first)
  BY DEF Laid
<1>5. Intact
  <2>1. /\ Laid(bpp.configureIsdp, tx.session, 0) /\ Laid(bpp.storeMetadata, tx.session, 1)
        /\ Laid(bpp.replaceSessionKeys, tx.session, Len(bpp.storeMetadata) + 1)
        /\ Laid(bpp.profileData, tx.session, Len(bpp.storeMetadata) + 1)
    BY <1>2, <1>4, Zenon
  <2>2. bpp.der /\ bpp.hasReplaceSessionKeys = tx.replaced /\ ~tx.replaced
    BY <1>1, <1>2
  <2>3. at \in {"idle", "build"}
    OBVIOUS
  <2> HIDE DEF NoPackage
  <2> QED  BY <1>3, <2>1, <2>2, <2>3 DEF Intact
<1>6. InStep
  BY DEF InStep
<1> QED  BY <1>5, <1>6

New ==
  at \in {"idle", "build"} /\ bpp = NoPackage /\ \E k : tx = Side(k)
LEMMA NewState == New => Intact /\ InStep
  BY NewMirror DEF New

LEMMA IdleMirror == Idle => MirrorInv
<1> SUFFICES ASSUME Idle PROVE MirrorInv
  OBVIOUS
<1>1. PICK k \in Keys : tx = Side(k)
  BY DEF Idle
<1>2. bpp = NoPackage /\ at = "idle" /\ faults = 0
  BY DEF Idle
<1>3. Intact /\ InStep
  BY <1>1, <1>2, NewMirror
<1> QED  BY <1>2, <1>3, IdleAccept DEF MirrorInv

LEMMA StepMirror ==
  MirrorInv /\ [(\E s, r \in Keys : Start(s, r)) \/ BspStep]_bspVars => MirrorInv'
<1> SUFFICES ASSUME MirrorInv, [(\E s, r \in Keys : Start(s, r)) \/ BspStep]_bspVars
             PROVE  MirrorInv'
  OBVIOUS
<1>1. AcceptInv /\ AcceptInv'
  BY StepAccept DEF MirrorInv
<1>2. CASE UNCHANGED bspVars
  <2>1. UNCHANGED <<at, tx, rx, bpp, next, res, faults>>
    BY <1>2 DEF bspVars
  <2> QED
    BY <1>1, <2>1 DEF MirrorInv, Intact, UnderSameKeys, InStep, Laid, PlacedAt, IsPrefixOf
<1>3. ASSUME NEW s \in Keys, NEW r \in Keys, Start(s, r) PROVE MirrorInv'
  <2>1. tx' = Side(s) /\ bpp' = NoPackage /\ at' = "build" /\ faults' = 0
    BY <1>3 DEF Start, Side, from_kdf
  <2>2. (Intact /\ InStep)'
    <3>1. New'
      BY <2>1 DEF New
    <3> QED  BY <3>1, NewState, PTL
  <2> QED  BY <1>1, <2>1, <2>2 DEF MirrorInv
<1>4. CASE Channel
  <2>1. faults' = faults + 1 /\ UNCHANGED at
    BY <1>4 DEF Channel, Misdeliver, Alter, LoseReplaceSessionKeys, Damage, Disturbed
  <2>2. faults' \in Nat /\ faults' # 0
    BY <2>1 DEF MirrorInv
  <2> QED  BY <1>1, <2>1, <2>2 DEF MirrorInv, UnderSameKeys
<1>5. CASE Sender
  <2>1. at = "build" /\ at' \in {"build", "transit"} /\ UNCHANGED faults
    BY <1>5 DEF Sender, ProtectConfigureIsdp, ProtectMetadata, ProtectReplaceSessionKeys,
                ProtectProfile, Send
  <2>2. ASSUME Intact PROVE Intact'
    <3>1. CASE Send
      <4>1. /\ UNCHANGED <<tx, bpp>> /\ bpp.profileData # <<>>
        BY <3>1 DEF Send
      <4>2. Len(bpp.profileData) > 0
        BY <1>1, <4>1, SenderTypes
      <4> QED  BY <2>2, <4>1, <4>2 DEF Intact, Laid, PlacedAt, IsPrefixOf
    <3> QED  BY <1>1, <1>5, <2>2, <3>1, ConfigureIsdpIntact, MetadataIntact, ReplaceIntact,
                ProfileIntact DEF Sender
  <2>3. InStep'
    BY <2>1 DEF InStep
  <2> QED  BY <1>1, <2>1, <2>2, <2>3 DEF MirrorInv
<1>6. CASE process_bound_profile_package
  <2>1. /\ at' \in {"isdp", "metadata", "replace", "profile", "done", "error"}
        /\ at \notin {"idle", "build"}
    BY <1>6 DEF process_bound_profile_package, Decode, ConfigureIsdp, StoreMetadata, MetadataDone,
                ReplaceSessionKeys, ProfileData, ProfileDone, Throw
  <2>2. /\ rx'.session.key = rx.session.key /\ UNCHANGED <<tx, bpp, faults>>
        /\ UnderSameKeys => InStep'
    BY <1>6, DecodeInStep, ConfigureIsdpInStep, StoreMetadataInStep, MetadataDoneInStep,
       ReplaceInStep, ProfileDataInStep, ProfileDoneInStep DEF process_bound_profile_package
  <2>3. Intact => Intact'
    <3>1. UNCHANGED <<tx, bpp>> /\ (at \notin {"idle", "build"})
      BY <2>1, <2>2
    <3> QED  BY <3>1 DEF Intact
  <2>4. UnderSameKeys' => UnderSameKeys
    BY <2>2 DEF UnderSameKeys
  <2>5. faults' = faults /\ (faults = 0 => Intact) /\ faults \in Nat
    BY <2>2 DEF MirrorInv
  <2>6. (UnderSameKeys => InStep)'
    BY <2>2, <2>4
  <2>7. (faults = 0 => Intact)'
    BY <2>3, <2>5
  <2> QED  BY <1>1, <2>1, <2>5, <2>6, <2>7 DEF MirrorInv
<1> QED  BY <1>2, <1>3, <1>4, <1>5, <1>6 DEF BspStep

LEMMA MirrorImplies == MirrorInv => UndisturbedAccepted
<1> SUFFICES ASSUME MirrorInv, at \in {"done", "error"}, UnderSameKeys
             PROVE  Accepted /\ Len(res.profileData) = Len(bpp.profileData)
  BY DEF UndisturbedAccepted, UnderSameKeys
<1>1. InStep /\ res \in Results
  BY ReceiverFacts
<1>2. /\ Len(bpp.storeMetadata) > 0 /\ Len(bpp.profileData) > 0
  BY OnItsWay
<1>3. /\ at = "done" /\ res.configureIsdp # <<>>
      /\ Len(res.storeMetadata) > 0 /\ Len(res.profileData) > 0
      /\ Len(res.profileData) = Len(bpp.profileData)
  BY <1>1, <1>2 DEF InStep
<1>4. res.storeMetadata # <<>> /\ res.profileData # <<>>
  BY <1>3
<1> QED  BY <1>3, <1>4 DEF Accepted

\* A package that arrives as it was sent, under the same keys, is accepted with the whole
\* profile, for any plaintexts and any number of segments (bsp_crypto.cc: both sides count
\* their blocks alike and change keys at the same segment).
THEOREM UndisturbedAcceptedThm == BspSpec => []UndisturbedAccepted
<1>1. Idle => MirrorInv
  BY IdleMirror
<1>2. MirrorInv /\ [(\E s, r \in Keys : Start(s, r)) \/ BspStep]_bspVars => MirrorInv'
  BY StepMirror
<1>3. MirrorInv => UndisturbedAccepted
  BY MirrorImplies
<1> QED  BY <1>1, <1>2, <1>3, PTL DEF BspSpec
-----------------------------------------------------------------------------
(* The profile download: theorems about SMDPP.                             *)

AllCerts ==
  UNION {{loadCertificateChain(f)[i] : i \in 1..Len(loadCertificateChain(f))} : f \in CertFiles}

ClientFields ==
  {"rootCA", "certPool", "euiccCert", "EID", "euiccSKI", "euiccPrivateKey", "euiccPublicKeyData",
   "eumCert", "eumPrivateKey", "eumPublicKeyData", "euiccOtpk", "confirmationCode",
   "confirmationCodeHash", "transactionId", "caCertPath", "useCustomTlsCert", "useMutualTLS"}
CtFields ==
  {"test", "curve", "es9p", "es2p", "euiccChallenge", "transactionId", "serverChallenge",
   "serverCert", "matchingId", "auok", "otpks", "request", "isc"}

\* What the constructor leaves and no method but generateEUICCOtpk() changes.
Loaded(c) ==
  /\ DOMAIN c = ClientFields
  /\ c.rootCA \in AllCerts \cup {NoCert} /\ c.certPool \subseteq AllCerts

\* The eUICC of the client.
Euicc(curve) == xx_loadCertificate(<<"sgp26", "eUICC">>, "CERT_EUICC_" \o curve)
Holds(registry, handle, curve, otpk) ==
  /\ handle \in DOMAIN registry /\ Loaded(registry[handle])
  /\ registry[handle].euiccCert = Euicc(curve) /\ Euicc(curve) # NoCert
  /\ registry[handle].euiccOtpk = otpk

\* The first one-time key, or none on a curve that has none.
FirstOtpk(otpk) == otpk \in {NoOtKey, OtKey("eUICC", ct.curve, 1)}

\* How far f_TC_rsp_complete_flow is, and what it has established there.
Answered ==
  /\ ct.euiccChallenge = "c1" /\ ct.transactionId = "t1" /\ ct.serverChallenge = "s1"
  /\ ct.serverCert = server.auth
Authenticated ==
  /\ ct.auok.smdpCertificate = server.pb
  /\ dp_auth \in server.auth.policies /\ dp_pb \in server.pb.policies
Requested ==
  /\ ct.otpks = 1 /\ FirstOtpk(ct.request.euiccOtpk)
  /\ Holds(clients, ct.es9p, ct.curve, ct.request.euiccOtpk)
  /\ ct.isc.isc.hostId = "host"
  /\ \E curve : ct.isc.isc.smdpOtpk = OtKey("DP", curve, 1)
Agreed ==
  /\ tx.session.key.secret = {OtKey("eUICC", ct.curve, ct.otpks), ct.isc.isc.smdpOtpk}
  /\ server.pb.key.curve = ct.curve

Phase ==
  /\ pc \in {"init", "initiate", "provision", "authenticate", "package"} => ct.otpks = 0
  /\ pc \in {"initiate", "provision", "authenticate", "package"} =>
       Holds(clients, ct.es9p, ct.curve, NoOtKey)
  /\ pc \in {"provision", "authenticate", "package", "ecdh", "bsp"} => Answered
  /\ pc \in {"package", "ecdh", "bsp"} => Authenticated
  /\ pc \in {"ecdh", "bsp"} => Requested
  /\ pc = "bsp" => Agreed

\* The inductive invariant.
FlowInv ==
  /\ AcceptInv /\ (at = "error" => res = NoResult)
  /\ server \in Servers /\ DOMAIN ct = CtFields /\ ct.curve \in Curves
  /\ ct.test \in {"complete_flow", "full_flow", "cc_retry"}
  /\ verdict = "pass" => pc = "end"
  /\ pc \in {"provision", "ecdh", "bsp"} => ct.test = "complete_flow"
  /\ pc \in {"es2plus", "downloadOrder", "confirmOrder", "wrongCode"} => ct.test # "complete_flow"
  /\ ct.test = "complete_flow" => Phase
  /\ OnlyRightServer

-----------------------------------------------------------------------------
\* A directory holds certificates of the files (loadCertificatesFromDirectory()).
LEMMA DirectoryCerts ==
  ASSUME NEW dir, NEW filters, NEW l \in loadCertificatesFromDirectory(dir, filters)
  PROVE  l.cert \in AllCerts
<1>1. PICK f \in find_cert_files(dir, filters) :
        l \in {[file |-> f, cert |-> loadCertificateChain(f)[i]]
                 : i \in 1..Len(loadCertificateChain(f))}
  BY DEF loadCertificatesFromDirectory
<1>2. PICK i \in 1..Len(loadCertificateChain(f)) :
        l = [file |-> f, cert |-> loadCertificateChain(f)[i]]
  BY <1>1
<1>3. f \in CertFiles
  BY DEF find_cert_files
<1> QED  BY <1>2, <1>3 DEF AllCerts

\* Of the files, what signs itself is a key of the CI.
LEMMA RootsOfCI ==
  ASSUME NEW cert \in AllCerts, SelfSigned(cert)
  PROVE  cert.key = [owner |-> "CI", curve |-> cert.key.curve]
<1>1. PICK f \in CertFiles : cert \in {loadCertificateChain(f)[i] : i \in 1..Len(loadCertificateChain(f))}
  BY DEF AllCerts
<1>2. PICK i \in 1..Len(loadCertificateChain(f)) : cert = loadCertificateChain(f)[i]
  BY <1>1
<1> QED  BY <1>2, LayoutAssumption DEF getCurveOID

\* A chain through roots only: whoever ends it has signed the certificate
\* (verifyCertificateChainDynamic()).
LEMMA ChainSigner ==
  ASSUME NEW cert, NEW ci, DpChainValid(cert, ci)
  PROVE  cert.signer = ci.key /\ cert.current /\ SelfSigned(ci) /\ ci # NoCert
<1> DEFINE pool == CertsOf(loadCertificatesFromDirectory(Issuer, {}))
           issuers == {c \in {d \in pool : d \notin {cert, ci}} \cup {ci} : c.ca /\ c.current}
           S == {c \in issuers \cup {cert} : c = cert \/ c.key = cert.signer}
<1>1. /\ ci # NoCert /\ cert.current /\ SelfSigned(ci) /\ PathTo(ci, cert, issuers)
  BY DEF DpChainValid, ext_CertificateUtil_verifyCertificateChainDynamic,
         verifyCertificateChainDynamic
<1>2. \A c \in issuers : SelfSigned(c)
  BY <1>1, LayoutAssumption DEF CertsOf
<1>3. ASSUME NEW c \in issuers, NEW d \in S, Issued(c, d) PROVE c \in S
  <2>1. d.signer = c.key
    BY <1>3 DEF Issued, getAuthorityKeyIdentifier, getSubjectKeyIdentifier
  <2>2. CASE d = cert
    BY <2>1, <2>2
  <2>3. CASE d # cert
    <3>1. d \in issuers /\ d.key = cert.signer
      BY <2>3
    <3>2. d.signer = d.key
      BY <1>2, <3>1 DEF SelfSigned, Issued, getAuthorityKeyIdentifier, getSubjectKeyIdentifier
    <3> QED  BY <2>1, <3>1, <3>2
  <2> QED  BY <2>2, <2>3
<1>4. S \in SUBSET (issuers \cup {cert}) /\ cert \in S
  OBVIOUS
<1>5. ci \in S
  BY <1>1, <1>3, <1>4 DEF PathTo
<1>6. ci.signer = ci.key
  BY <1>1 DEF SelfSigned, Issued, getAuthorityKeyIdentifier, getSubjectKeyIdentifier
<1> QED  BY <1>1, <1>5, <1>6

\* The CI's certificate of a client is one of its files (getCICertificate()).
LEMMA CIFromFiles ==
  ASSUME NEW registry, NEW handle, handle \in DOMAIN registry, Loaded(registry[handle]),
         NEW ci \in ext_RSPClient_getCICertificate(registry, handle)
  PROVE  ci \in AllCerts \cup {NoCert}
  BY DEF ext_RSPClient_getCICertificate, with_client, getClient, getCICertificate, Loaded

\* The two together: a certificate that is accepted is the CI's, for a key on that curve.
LEMMA AcceptedCert ==
  ASSUME NEW registry, NEW handle, handle \in DOMAIN registry, Loaded(registry[handle]),
         NEW ci \in ext_RSPClient_getCICertificate(registry, handle),
         NEW s \in Servers, NEW cert \in {s.auth, s.pb}, DpChainValid(cert, ci)
  PROVE  /\ cert.current /\ cert.signer = ci.key
         /\ cert.signer = [owner |-> "CI", curve |-> cert.key.curve]
<1>1. cert.signer = ci.key /\ cert.current /\ SelfSigned(ci) /\ ci # NoCert
  BY ChainSigner
<1>2. ci \in AllCerts
  BY <1>1, CIFromFiles
<1>3. ci.key = [owner |-> "CI", curve |-> ci.key.curve]
  BY <1>1, <1>2, RootsOfCI
<1>4. cert.signer.owner = "CI" /\ cert.signer.curve = ci.key.curve
  BY <1>1, <1>3
<1>5. cert.key.curve = cert.signer.curve
  BY <1>4, LayoutAssumption DEF getCurveOID, getAuthorityKeyIdentifier
<1> QED  BY <1>1, <1>3, <1>4, <1>5

-----------------------------------------------------------------------------
\* What a method leaves of a client.
Kept(c, d) == Loaded(d) /\ d.euiccOtpk = c.euiccOtpk

\* The constructor takes its certificates from the files.
LEMMA Constructed ==
  ASSUME NEW paths, NEW filters, NEW c \in RSPClient(paths, filters)
  PROVE  Loaded(c) /\ c.euiccOtpk = NoOtKey
<1> DEFINE loaded(i) == loadCertificatesFromDirectory(paths[i], filters)
           roots(i)  == {l \in loaded(i) : SelfSigned(l.cert)}
           all       == UNION {loaded(i) : i \in DOMAIN paths}
           first     == {i \in DOMAIN paths :
                           roots(i) # {} /\ \A j \in 1..(i - 1) : roots(j) = {}}
           client(root, pool) ==
             [rootCA |-> root, certPool |-> CertsOf(pool),
              euiccCert |-> NoCert, EID |-> <<>>, euiccSKI |-> NoKey,
              euiccPrivateKey |-> NoKey, euiccPublicKeyData |-> NoKey,
              eumCert |-> NoCert, eumPrivateKey |-> NoKey, eumPublicKeyData |-> NoKey,
              euiccOtpk |-> NoOtKey, confirmationCode |-> "",
              confirmationCodeHash |-> NoHash, transactionId |-> "", caCertPath |-> "",
              useCustomTlsCert |-> FALSE, useMutualTLS |-> FALSE]
<1>1. \/ c \in {client(NoCert, all)}
      \/ c \in {client(l.cert, all \ {l}) : l \in UNION {roots(i) : i \in first}}
  BY DEF RSPClient
<1>2. \A l \in all : l.cert \in AllCerts
  BY DirectoryCerts
<1>3. ASSUME NEW root \in AllCerts \cup {NoCert}, NEW pool \in SUBSET all
      PROVE  Loaded(client(root, pool)) /\ client(root, pool).euiccOtpk = NoOtKey
  <2>1. CertsOf(pool) \subseteq AllCerts
    BY <1>2 DEF CertsOf
  <2> QED  BY <2>1 DEF Loaded, ClientFields
<1>4. \A i \in first : roots(i) \subseteq all
  OBVIOUS
<1> HIDE DEF all, roots, first, client
<1>5. CASE c \in {client(NoCert, all)}
  <2>1. c = client(NoCert, all)
    BY <1>5
  <2> QED  BY <1>3, <2>1
<1>6. CASE c \in {client(l.cert, all \ {l}) : l \in UNION {roots(i) : i \in first}}
  <2>1. PICK l \in UNION {roots(i) : i \in first} : c = client(l.cert, all \ {l})
    BY <1>6
  <2>2. l \in all
    BY <1>4
  <2>3. l.cert \in AllCerts /\ all \ {l} \in SUBSET all
    BY <1>2, <2>2
  <2> QED  BY <1>3, <2>1, <2>3
<1> QED  BY <1>1, <1>5, <1>6

\* The methods that load the eUICC's and the EUM's files.
LEMMA FilesKept ==
  ASSUME NEW c, Loaded(c), NEW dir, NEW name
  PROVE  /\ Kept(c, loadEUICCCertificate(c, dir, name).client)
         /\ Kept(c, loadEUICCKeyPair(c, dir, name).client)
         /\ loadEUICCKeyPair(c, dir, name).client.euiccCert = c.euiccCert
         /\ Kept(c, loadEUMCertificate(c, dir, name).client)
         /\ Kept(c, loadEUMKeyPair(c, dir, name).client)
         /\ Kept(c, setCACertPath(c, name).client)
<1>1. Kept(c, loadEUICCCertificate(c, dir, name).client)
  BY DEF loadEUICCCertificate, Kept, Loaded, ClientFields, Result
<1>2. /\ Kept(c, loadEUICCKeyPair(c, dir, name).client)
      /\ loadEUICCKeyPair(c, dir, name).client.euiccCert = c.euiccCert
  BY DEF loadEUICCKeyPair, Kept, Loaded, ClientFields, Result
<1>3. Kept(c, loadEUMCertificate(c, dir, name).client)
  BY DEF loadEUMCertificate, Kept, Loaded, ClientFields, Result
<1>4. Kept(c, loadEUMKeyPair(c, dir, name).client)
  BY DEF loadEUMKeyPair, Kept, Loaded, ClientFields, Result
<1>5. Kept(c, setCACertPath(c, name).client)
  BY DEF setCACertPath, Kept, Loaded, ClientFields, Result
<1> QED  BY <1>1, <1>2, <1>3, <1>4, <1>5

\* The settings of a client.
LEMMA SettingsKept ==
  ASSUME NEW c, Loaded(c), NEW value
  PROVE  /\ Kept(c, configureHttpClient(c, value).client)
         /\ configureHttpClient(c, value).client.euiccCert = c.euiccCert
         /\ Kept(c, setAuthParams(c, value).client)
         /\ setAuthParams(c, value).client.euiccCert = c.euiccCert
         /\ Kept(c, setTransactionId(c, value).client)
         /\ setTransactionId(c, value).client.euiccCert = c.euiccCert
         /\ Kept(c, setConfirmationCode(c, value).client)
         /\ setConfirmationCode(c, value).client.euiccCert = c.euiccCert
<1>1. /\ Kept(c, configureHttpClient(c, value).client)
      /\ configureHttpClient(c, value).client.euiccCert = c.euiccCert
  BY DEF configureHttpClient, Kept, Loaded, ClientFields, Result
<1>2. /\ Kept(c, setAuthParams(c, value).client)
      /\ setAuthParams(c, value).client.euiccCert = c.euiccCert
  BY DEF setAuthParams, Kept, Loaded, ClientFields, Result
<1>3. /\ Kept(c, setTransactionId(c, value).client)
      /\ setTransactionId(c, value).client.euiccCert = c.euiccCert
  BY DEF setTransactionId, Kept, Loaded, ClientFields, Result
<1>4. /\ Kept(c, setConfirmationCode(c, value).client)
      /\ setConfirmationCode(c, value).client.euiccCert = c.euiccCert
  BY DEF setConfirmationCode, Kept, Loaded, ClientFields, Result
<1> QED  BY <1>1, <1>2, <1>3, <1>4

\* A new client under its handle (createClient()).
LEMMA NewClient ==
  ASSUME NEW registry, NEW handle, NEW filter,
         NEW made \in createClient(registry, handle, Issuer, filter), ~(made.handle < 0)
  PROVE  /\ made.handle \in DOMAIN made.clients
         /\ Loaded(made.clients[made.handle])
         /\ made.clients[made.handle].euiccOtpk = NoOtKey
<1> DEFINE curve == IF filter = "BRP" THEN "BRP" ELSE "NIST"
           clients0 == RSPClient(<<Issuer, <<"sgp26", "EUM">>, <<"sgp26", "DPtls">>>>, {filter})
           r1(c) == loadEUICCCertificate(c, <<"sgp26", "eUICC">>, "CERT_EUICC_" \o curve)
           r2(c) == loadEUICCKeyPair(r1(c).client, <<"sgp26", "eUICC">>, "SK_EUICC_" \o curve)
           r3(c) == loadEUMCertificate(r2(c).client, <<"sgp26", "EUM">>, "CERT_EUM_" \o curve)
           r4(c) == loadEUMKeyPair(r3(c).client, <<"sgp26", "EUM">>, "SK_EUM_" \o curve)
           r5(c) == setCACertPath(r4(c).client, "ca-certificates.crt")
           loaded(c) == Result(r1(c).ok /\ r2(c).ok /\ r3(c).ok /\ r4(c).ok, r5(c).client)
           good == {loaded(c).client : c \in {d \in clients0 : loaded(d).ok}}
           with(c) == [h \in DOMAIN registry \cup {handle} |-> IF h = handle THEN c ELSE registry[h]]
<1>1. createClient(registry, handle, Issuer, filter)
        = IF good = {} THEN {[handle |-> -1, clients |-> registry]}
          ELSE {[handle |-> handle, clients |-> with(c)] : c \in good}
  BY DEF createClient
<1>2. ASSUME NEW c \in good PROVE Loaded(c) /\ c.euiccOtpk = NoOtKey
  <2>1. PICK d \in clients0 : c = r5(d).client
    <3>1. PICK d \in clients0 : c = loaded(d).client
      OBVIOUS
    <3> QED  BY <3>1 DEF Result
  <2>2. Loaded(d) /\ d.euiccOtpk = NoOtKey
    BY Constructed
  <2>3. Kept(d, r1(d).client)
    BY <2>2, FilesKept
  <2>4. Kept(d, r2(d).client)
    <3>1. Loaded(r1(d).client)
      BY <2>3 DEF Kept
    <3>2. Kept(r1(d).client, r2(d).client)
      BY <3>1, FilesKept
    <3> QED  BY <2>3, <3>2 DEF Kept
  <2>5. Kept(d, r3(d).client)
    <3>1. Loaded(r2(d).client)
      BY <2>4 DEF Kept
    <3>2. Kept(r2(d).client, r3(d).client)
      BY <3>1, FilesKept
    <3> QED  BY <2>4, <3>2 DEF Kept
  <2>6. Kept(d, r4(d).client)
    <3>1. Loaded(r3(d).client)
      BY <2>5 DEF Kept
    <3>2. Kept(r3(d).client, r4(d).client)
      BY <3>1, FilesKept
    <3> QED  BY <2>5, <3>2 DEF Kept
  <2>7. Kept(d, r5(d).client)
    <3>1. Loaded(r4(d).client)
      BY <2>6 DEF Kept
    <3>2. Kept(r4(d).client, r5(d).client)
      BY <3>1, FilesKept
    <3> QED  BY <2>6, <3>2 DEF Kept
  <2> HIDE DEF r5
  <2> QED  BY <2>1, <2>2, <2>7 DEF Kept
<1> HIDE DEF good
<1>3. PICK c \in good : made = [handle |-> handle, clients |-> with(c)]
  <2>1. made # [handle |-> -1, clients |-> registry]
    <3> SUFFICES ASSUME made = [handle |-> -1, clients |-> registry] PROVE FALSE
      OBVIOUS
    <3>1. made.handle = -1
      OBVIOUS
    <3> QED  BY <3>1
  <2> QED  BY <1>1, <2>1
<1>4. handle \in DOMAIN with(c) /\ with(c)[handle] = c
  OBVIOUS
<1>5. made.handle = handle /\ made.clients = with(c)
  BY <1>3
<1> QED  BY <1>2, <1>4, <1>5

\* What a method called through the registry does to the client under its handle.
LEMMA LoadersKeep ==
  ASSUME NEW registry, NEW handle, handle \in DOMAIN registry,
         NEW called, Kept(registry[handle], called.client)
  PROVE  LET r == client_loader(registry, handle, called) IN
         /\ handle \in DOMAIN r.clients /\ r.clients[handle] = called.client
         /\ Kept(registry[handle], r.clients[handle])
         /\ r.rc = 0 => called.ok
  BY DEF client_loader, getClient

\* The settings through the registry.
LEMMA SettersHold ==
  ASSUME NEW registry, NEW handle, NEW curve, NEW otpk, Holds(registry, handle, curve, otpk),
         NEW value
  PROVE  /\ Holds(ext_RSPClient_configureHttpClient(registry, handle, value).clients,
                  handle, curve, otpk)
         /\ Holds(ext_RSPClient_setAuthParams(registry, handle, value).clients,
                  handle, curve, otpk)
         /\ Holds(ext_RSPClient_setTransactionId(registry, handle, value).clients,
                  handle, curve, otpk)
         /\ Holds(ext_RSPClient_setConfirmationCode(registry, handle, value).clients,
                  handle, curve, otpk)
<1> DEFINE c == registry[handle]
<1>1. handle \in DOMAIN registry /\ Loaded(c) /\ c.euiccOtpk = otpk
      /\ c.euiccCert = Euicc(curve) /\ Euicc(curve) # NoCert
  BY DEF Holds
<1>2. ASSUME NEW called, Kept(c, called.client), called.client.euiccCert = c.euiccCert
      PROVE  Holds(client_loader(registry, handle, called).clients, handle, curve, otpk)
  <2>1. LET r == client_loader(registry, handle, called) IN
        handle \in DOMAIN r.clients /\ r.clients[handle] = called.client
    BY <1>1, <1>2, LoadersKeep
  <2> QED  BY <1>1, <1>2, <2>1 DEF Holds, Kept
<1>3. /\ Kept(c, configureHttpClient(c, value).client)
      /\ configureHttpClient(c, value).client.euiccCert = c.euiccCert
      /\ Kept(c, setAuthParams(c, value).client)
      /\ setAuthParams(c, value).client.euiccCert = c.euiccCert
      /\ Kept(c, setTransactionId(c, value).client)
      /\ setTransactionId(c, value).client.euiccCert = c.euiccCert
      /\ Kept(c, setConfirmationCode(c, value).client)
      /\ setConfirmationCode(c, value).client.euiccCert = c.euiccCert
  <2> HIDE DEF c
  <2> QED  BY <1>1, SettingsKept
<1> HIDE DEF c
<1>4. Holds(client_loader(registry, handle, configureHttpClient(c, value)).clients,
            handle, curve, otpk)
  BY <1>2, <1>3
<1>5. Holds(client_loader(registry, handle, setAuthParams(c, value)).clients,
            handle, curve, otpk)
  BY <1>2, <1>3
<1>6. Holds(client_loader(registry, handle, setTransactionId(c, value)).clients,
            handle, curve, otpk)
  BY <1>2, <1>3
<1>7. Holds(client_loader(registry, handle, setConfirmationCode(c, value)).clients,
            handle, curve, otpk)
  BY <1>2, <1>3
<1> QED
  BY <1>4, <1>5, <1>6, <1>7
  DEF ext_RSPClient_configureHttpClient, ext_RSPClient_setAuthParams,
      ext_RSPClient_setTransactionId, ext_RSPClient_setConfirmationCode, c

\* generateEUICCOtpk(): the key n on the curve of the certificate, or no key.
LEMMA OtpkHolds ==
  ASSUME NEW registry, NEW handle, NEW curve \in Curves, NEW n,
         Holds(registry, handle, curve, NoOtKey)
  PROVE  \E otpk \in {NoOtKey, OtKey("eUICC", curve, n)} :
           /\ Holds(ext_RSPClient_generateEUICCOtpk(registry, handle, n).clients,
                    handle, curve, otpk)
           /\ otpk = ext_RSPClient_getEUICCOtpk(
                       ext_RSPClient_generateEUICCOtpk(registry, handle, n).clients, handle)
<1> DEFINE c == registry[handle]
           d == generateEUICCOtpk(c, n).client
           new == ext_RSPClient_generateEUICCOtpk(registry, handle, n).clients
<1>1. /\ handle \in DOMAIN registry /\ Loaded(c) /\ c.euiccOtpk = NoOtKey
      /\ c.euiccCert = Euicc(curve) /\ Euicc(curve) # NoCert
  BY DEF Holds
<1>2. getCertificateCurveNID(c.euiccCert) \in {"", curve}
  BY <1>1, LayoutAssumption DEF Euicc, getCertificateCurveNID, getCurveOID
<1>3. /\ Loaded(d) /\ d.euiccCert = c.euiccCert
      /\ d.euiccOtpk \in {NoOtKey, OtKey("eUICC", curve, n)}
  BY <1>1, <1>2 DEF generateEUICCOtpk, Result, Loaded, ClientFields
<1>4. handle \in DOMAIN new /\ new[handle] = d
  BY <1>1 DEF ext_RSPClient_generateEUICCOtpk, client_loader, getClient
<1>5. ext_RSPClient_getEUICCOtpk(new, handle) = d.euiccOtpk
  BY <1>4 DEF ext_RSPClient_getEUICCOtpk, with_client, getClient
<1> HIDE DEF new, d, c
<1>6. Holds(new, handle, curve, d.euiccOtpk)
  BY <1>1, <1>3, <1>4 DEF Holds
<1> QED  BY <1>3, <1>5, <1>6 DEF new

-----------------------------------------------------------------------------

\* No segment changes the keys of the sender's session, and an exception leaves no
\* result (makeErrorResult()).
LEMMA PackageKeys ==
  ASSUME AcceptInv, BspStep, at = "error" => res = NoResult
  PROVE  /\ AcceptInv'
         /\ (at = "error" => res = NoResult)'
         /\ tx'.session.key = tx.session.key
<1>1. AcceptInv'
  BY StepAccept
<1>2. (at = "error" => res = NoResult)'
  BY DEF BspStep, Sender, Channel, process_bound_profile_package, ProtectConfigureIsdp,
         ProtectMetadata, ProtectReplaceSessionKeys, ProtectProfile, Send, Misdeliver, Alter,
         LoseReplaceSessionKeys, Damage, Disturbed, Decode, ConfigureIsdp, StoreMetadata,
         MetadataDone, ReplaceSessionKeys, ProfileData, ProfileDone, Throw
<1>3. /\ tx \in Sides /\ tx.session \in Instances(Keys) /\ tx.ppk \in Instances({PPK})
      /\ Keys \in SUBSET (Keys \cup {PPK})
  BY InvFacts DEF AcceptInv
<1>4. tx'.session.key = tx.session.key
  <2>4. CASE UNCHANGED tx
    BY <2>4
  <2>5. CASE ProtectConfigureIsdp
    <3>1. PICK d \in Datas :
            tx' = [tx EXCEPT !.session = encrypt_and_mac_one(tx.session, 87, d).bsp]
      BY <2>5 DEF ProtectConfigureIsdp
    <3> QED  BY <1>3, <3>1 DEF encrypt_and_mac_one, Advanced, Sides
  <2>6. CASE ProtectMetadata
    <3>1. PICK d \in Datas : tx' = [tx EXCEPT !.session = mac_only_one(tx.session, 88, d).bsp]
      BY <2>6 DEF ProtectMetadata
    <3> QED  BY <1>3, <3>1 DEF mac_only_one, Advanced, Sides
  <2>7. CASE ProtectReplaceSessionKeys
    <3>1. PICK keys \in {PPK, Garbage} :
            tx' = [tx EXCEPT !.session = encrypt_and_mac_one(tx.session, 87, keys).bsp,
                             !.replaced = TRUE]
      BY <2>7 DEF ProtectReplaceSessionKeys, generate_replace_session_keys_data
    <3> QED  BY <1>3, <3>1 DEF encrypt_and_mac_one, Advanced, Sides
  <2>8. CASE ProtectProfile
    <3>1. CASE tx.replaced
      <4>1. PICK d \in Datas : tx' = [tx EXCEPT !.ppk = encrypt_and_mac_one(tx.ppk, 86, d).bsp]
        BY <2>8, <3>1 DEF ProtectProfile
      <4> QED  BY <1>3, <4>1 DEF Sides
    <3>2. CASE ~tx.replaced
      <4>1. PICK d \in Datas :
              tx' = [tx EXCEPT !.session = encrypt_and_mac_one(tx.session, 86, d).bsp]
        BY <2>8, <3>2 DEF ProtectProfile
      <4> QED  BY <1>3, <4>1 DEF encrypt_and_mac_one, Advanced, Sides
    <3> QED  BY <3>1, <3>2
  <2>9. CASE Send \/ Channel \/ process_bound_profile_package
    <3>1. UNCHANGED tx
      BY <2>9
      DEF Channel, process_bound_profile_package, Send, Misdeliver, Alter,
          LoseReplaceSessionKeys, Damage, Disturbed, Decode, ConfigureIsdp, StoreMetadata,
          MetadataDone, ReplaceSessionKeys, ProfileData, ProfileDone, Throw
    <3> QED  BY <2>4, <3>1
  <2> QED  BY <2>5, <2>6, <2>7, <2>8, <2>9 DEF BspStep, Sender
<1> QED  BY <1>1, <1>2, <1>4

\* A package is accepted only under the keys it was protected with.
LEMMA AcceptedKeys == AcceptInv /\ Accepted => tx.session.key = rx.session.key
<1> SUFFICES ASSUME AcceptInv, Accepted PROVE tx.session.key = rx.session.key
  OBVIOUS
<1>1. MetadataRead /\ res \in Results
  BY DEF AcceptInv, ReceiverInOrder, Reading, ProfileRead, Accepted
<1>2. Follows(rx.session, tx.session) /\ rx.session \in Instances(Keys)
  BY InvFacts DEF AcceptInv
<1>3. rx.session.mac_chain # <<>>
  <2>1. Len(res.storeMetadata) \in Nat
    BY <1>1 DEF Results
  <2> QED  BY <1>1, <2>1 DEF MetadataRead
<1> QED  BY <1>2, <1>3 DEF Follows

-----------------------------------------------------------------------------
\* The variables of the test function after a step.
SameTest(c) == DOMAIN c = CtFields /\ c.curve = ct.curve /\ c.test = ct.test

\* The test goes on (Goto).
LEMMA GoesOn ==
  ASSUME FlowInv, pc # "end", UNCHANGED <<server, verdict, bspVars>>, SameTest(ct'),
         pc' \in {"provision", "ecdh", "bsp"} => ct.test = "complete_flow",
         pc' \in {"es2plus", "downloadOrder", "confirmOrder", "wrongCode"}
           => ct.test # "complete_flow",
         ct.test = "complete_flow" => Phase'
  PROVE  FlowInv'
<1>1. AcceptInv'
  BY StepAccept DEF FlowInv
<1>2. verdict' # "pass"
  BY DEF FlowInv
<1>3. (at = "error" => res = NoResult)'
  BY DEF FlowInv, bspVars
<1>4. OnlyRightServer'
  BY <1>2 DEF OnlyRightServer
<1>5. DOMAIN ct' = CtFields /\ ct'.curve \in Curves /\ ct'.test = ct.test
  BY DEF FlowInv, SameTest
<1> QED  BY <1>1, <1>2, <1>3, <1>4, <1>5 DEF FlowInv

\* The test ends, without a verdict about the server if it is f_TC_rsp_complete_flow.
LEMMA Ends ==
  ASSUME FlowInv, pc' = "end", UNCHANGED <<server, bspVars>>, SameTest(ct'),
         verdict' # "pass" \/ ct.test # "complete_flow"
  PROVE  FlowInv'
<1>1. AcceptInv'
  BY StepAccept DEF FlowInv
<1>2. (at = "error" => res = NoResult)'
  BY DEF FlowInv, bspVars
<1>3. DOMAIN ct' = CtFields /\ ct'.curve \in Curves /\ ct'.test = ct.test
  BY DEF FlowInv, SameTest
<1>4. OnlyRightServer'
  BY <1>3 DEF OnlyRightServer
<1>5. Phase'
  BY DEF Phase
<1> QED  BY <1>1, <1>2, <1>3, <1>4, <1>5 DEF FlowInv

\* Stop() and f_rsp_client_cleanup() end the test.
LEMMA Stops ==
  ASSUME FlowInv, UNCHANGED bspVars, NEW c, SameTest(c), NEW v, NEW registry,
         v # "pass" \/ ct.test # "complete_flow",
         Stop(v, c, registry) \/ f_rsp_client_cleanup(v, c, registry)
  PROVE  FlowInv'
<1>1. pc' = "end" /\ verdict' = v /\ UNCHANGED server
  BY DEF f_rsp_client_cleanup, Stop
<1>2. ct' = c \/ ct' = [c EXCEPT !.es9p = -1, !.es2p = -1]
  BY DEF f_rsp_client_cleanup, Stop
<1>3. SameTest([c EXCEPT !.es9p = -1, !.es2p = -1])
  BY DEF SameTest, CtFields
<1>4. SameTest(ct')
  BY <1>2, <1>3
<1> QED  BY <1>1, <1>4, Ends

\* The state before a step.
LEMMA TestFacts ==
  ASSUME FlowInv
  PROVE  /\ server \in Servers /\ DOMAIN ct = CtFields /\ ct.curve \in Curves /\ SameTest(ct)
         /\ ct.test = "complete_flow" => Phase
  BY DEF FlowInv, SameTest

\* f_init_es9plus(): the new client has no one-time key yet.
LEMMA InitStep == FlowInv /\ f_init_es9plus => FlowInv'
<1> SUFFICES ASSUME FlowInv, f_init_es9plus PROVE FlowInv'
  OBVIOUS
<1> DEFINE name == "CERT_EUICC_" \o ct.curve
           key == "SK_EUICC_" \o ct.curve
           dir == <<"sgp26", "eUICC">>
<1>1. PICK made \in createClient(clients, nextHandle, Issuer, ct.curve) :
       LET h  == made.handle
           r1 == ext_RSPClient_loadEUICCCertificate(made.clients, h, dir, name)
           r2 == ext_RSPClient_loadEUICCKeyPair(r1.clients, h, dir, key)
           r3 == ext_RSPClient_configureHttpClient(r2.clients, h, TRUE)
           c  == [ct EXCEPT !.es9p = h]
       IN  IF h < 0 THEN Stop("fail", c, made.clients)
           ELSE IF r1.rc # 0 \/ r2.rc # 0 \/ r3.rc # 0
           THEN f_rsp_client_cleanup("none", c, r3.clients)
           ELSE Goto(IF ct.test = "full_flow" THEN "es2plus" ELSE "initiate", c, r3.clients)
  BY DEF f_init_es9plus
<1> DEFINE h  == made.handle
           r1 == ext_RSPClient_loadEUICCCertificate(made.clients, h, dir, name)
           r2 == ext_RSPClient_loadEUICCKeyPair(r1.clients, h, dir, key)
           r3 == ext_RSPClient_configureHttpClient(r2.clients, h, TRUE)
           c  == [ct EXCEPT !.es9p = h]
<1>2. pc = "init" /\ UNCHANGED bspVars
  BY DEF f_init_es9plus
<1>3. /\ DOMAIN ct = CtFields /\ SameTest(ct)
      /\ ct.test = "complete_flow" => Phase
  BY TestFacts
<1>4. SameTest(c) /\ c.es9p = h /\ c.otpks = ct.otpks
  BY <1>3 DEF SameTest, CtFields
<1>5. \/ Stop("fail", c, made.clients)
      \/ f_rsp_client_cleanup("none", c, r3.clients)
      \/ /\ Goto(IF ct.test = "full_flow" THEN "es2plus" ELSE "initiate", c, r3.clients)
         /\ ~(h < 0) /\ r1.rc = 0
  BY <1>1
<1>6. ASSUME ~(h < 0), r1.rc = 0 PROVE Holds(r3.clients, h, ct.curve, NoOtKey)
  <2>1. h \in DOMAIN made.clients /\ Loaded(made.clients[h]) /\ made.clients[h].euiccOtpk = NoOtKey
    BY <1>6, NewClient
  <2> DEFINE d == made.clients[h]
             a == loadEUICCCertificate(d, dir, name)
  <2>2. Kept(d, a.client)
    <3> HIDE DEF d, dir, name
    <3> QED  BY <2>1, FilesKept DEF d
  <2>3. r1 = client_loader(made.clients, h, a)
    BY DEF ext_RSPClient_loadEUICCCertificate
  <2>4. h \in DOMAIN r1.clients /\ r1.clients[h] = a.client /\ a.ok
    <3> HIDE DEF a, h
    <3> QED  BY <1>6, <2>1, <2>2, <2>3, LoadersKeep
  <2>5. Euicc(ct.curve) # NoCert /\ a.client.euiccCert = Euicc(ct.curve)
    BY <2>1, <2>4 DEF loadEUICCCertificate, Result, Euicc, Loaded, ClientFields
  <2>6. Holds(r1.clients, h, ct.curve, NoOtKey)
    BY <2>1, <2>2, <2>4, <2>5 DEF Holds, Kept
  <2> DEFINE b == loadEUICCKeyPair(r1.clients[h], dir, key)
  <2>7. Kept(r1.clients[h], b.client) /\ b.client.euiccCert = r1.clients[h].euiccCert
    <3>1. Loaded(r1.clients[h])
      BY <2>6 DEF Holds
    <3> HIDE DEF h, r1, dir, key
    <3> QED  BY <3>1, FilesKept
  <2>8. h \in DOMAIN r2.clients /\ r2.clients[h] = b.client
    <3>1. r2 = client_loader(r1.clients, h, b)
      BY DEF ext_RSPClient_loadEUICCKeyPair
    <3> HIDE DEF b, h, r1, r2
    <3> QED  BY <2>4, <2>7, <3>1, LoadersKeep
  <2>9. Holds(r2.clients, h, ct.curve, NoOtKey)
    <3> HIDE DEF b, h, r1, r2
    <3> QED  BY <2>6, <2>7, <2>8 DEF Holds, Kept
  <2> HIDE DEF h, r1, r2
  <2> QED  BY <2>9, SettersHold DEF r3
<1>7. CASE /\ Goto(IF ct.test = "full_flow" THEN "es2plus" ELSE "initiate", c, r3.clients)
           /\ ~(h < 0) /\ r1.rc = 0
  <2>1. /\ pc' \in {"es2plus", "initiate"} /\ (pc' = "es2plus" => ct.test = "full_flow")
        /\ ct' = c /\ clients' = r3.clients /\ UNCHANGED <<server, verdict>>
    BY <1>7 DEF Goto
  <2>2. SameTest(ct') /\ ct'.es9p = h /\ ct'.otpks = ct.otpks /\ ct'.curve = ct.curve
    BY <1>4, <2>1 DEF SameTest
  <2>3. Holds(r3.clients, h, ct.curve, NoOtKey)
    BY <1>6, <1>7
  <2> HIDE DEF h, r3
  <2>4. ct.test = "complete_flow" => Phase'
    BY <1>2, <1>3, <2>1, <2>2, <2>3 DEF Phase
  <2> QED  BY <1>2, <2>1, <2>2, <2>4, GoesOn
<1> HIDE DEF r1, r3, c
<1> QED  BY <1>2, <1>4, <1>5, <1>7, Stops

\* The steps of the two other tests only.
LEMMA OtherTestsSteps ==
  FlowInv /\ (f_init_es2plus \/ DownloadOrder \/ ConfirmOrder \/ WrongCode) => FlowInv'
<1> SUFFICES ASSUME FlowInv, f_init_es2plus \/ DownloadOrder \/ ConfirmOrder \/ WrongCode
             PROVE  FlowInv'
  OBVIOUS
<1>1. DOMAIN ct = CtFields /\ SameTest(ct)
  BY TestFacts
<1>2. ct.test # "complete_flow" /\ UNCHANGED bspVars /\ pc # "end"
  BY DEF FlowInv, f_init_es2plus, DownloadOrder, ConfirmOrder, Order, WrongCode
<1>3. \A v, c, registry :
        SameTest(c) /\ (Stop(v, c, registry) \/ f_rsp_client_cleanup(v, c, registry)) => FlowInv'
  BY <1>2, Stops
<1>4. \A where, c, registry :
        (/\ where \in {"downloadOrder", "confirmOrder", "initiate", "package"}
         /\ SameTest(c) /\ Goto(where, c, registry)) => FlowInv'
  <2> SUFFICES ASSUME NEW where \in {"downloadOrder", "confirmOrder", "initiate", "package"},
                      NEW c, SameTest(c), NEW registry, Goto(where, c, registry)
               PROVE  FlowInv'
    OBVIOUS
  <2>1. pc' = where /\ ct' = c /\ UNCHANGED <<server, verdict>>
    BY DEF Goto
  <2> QED  BY <1>2, <2>1, GoesOn
<1>5. \A h : SameTest([ct EXCEPT !.es2p = h])
  BY <1>1 DEF SameTest, CtFields
<1>6. \A m : SameTest([ct EXCEPT !.matchingId = m])
  BY <1>1 DEF SameTest, CtFields
<1>7. \A request : SameTest([ct EXCEPT !.otpks = @ + 1, !.request = request])
  BY <1>1 DEF SameTest, CtFields
<1>8. CASE f_init_es2plus
  <2>1. PICK made \in createClient(clients, nextHandle, <<"sgp26">>, "NIST") :
          LET r == ext_RSPClient_setAuthParams(made.clients, made.handle, TRUE)
              c == [ct EXCEPT !.es2p = made.handle]
          IN  IF made.handle < 0 \/ r.rc # 0 THEN Stop("fail", c, r.clients)
              ELSE Goto("downloadOrder", c, r.clients)
    BY <1>8 DEF f_init_es2plus
  <2> DEFINE r == ext_RSPClient_setAuthParams(made.clients, made.handle, TRUE)
  <2>2. \/ Stop("fail", [ct EXCEPT !.es2p = made.handle], r.clients)
        \/ Goto("downloadOrder", [ct EXCEPT !.es2p = made.handle], r.clients)
    BY <2>1
  <2> HIDE DEF r
  <2> QED  BY <1>3, <1>4, <1>5, <2>2
<1>9. CASE DownloadOrder \/ ConfirmOrder
  <2>1. \/ f_rsp_client_cleanup("fail", ct, clients)
        \/ Goto("confirmOrder", ct, clients)
        \/ Goto("initiate", [ct EXCEPT !.matchingId = "m1"], clients)
    BY <1>9 DEF DownloadOrder, ConfirmOrder, Order, f_fail_and_cleanup
  <2> QED  BY <1>1, <1>3, <1>4, <1>6, <2>1
<1>10. CASE WrongCode
  <2> DEFINE c == [ct EXCEPT !.otpks = @ + 1, !.request = PackageRequest(NewOtpk)]
             new == ext_RSPClient_setConfirmationCode(NewOtpk, ct.es9p, "12345678").clients
  <2>1. \/ Stop("error", c, NewOtpk)
        \/ f_rsp_client_cleanup("fail", c, NewOtpk)
        \/ Goto("package", c, new)
    BY <1>10 DEF WrongCode
  <2> HIDE DEF new
  <2> QED  BY <1>3, <1>4, <1>7, <2>1
<1> QED  BY <1>8, <1>9, <1>10

\* InitiateAuthentication: whoever goes on has answered this challenge in this transaction.
LEMMA InitiateStep == FlowInv /\ InitiateAuthentication => FlowInv'
<1> SUFFICES ASSUME FlowInv, InitiateAuthentication PROVE FlowInv'
  OBVIOUS
<1> DEFINE ok == InitiateAuthenticationOk("c1")
           c  == [ct EXCEPT !.euiccChallenge = "c1", !.transactionId = ok.transactionId,
                            !.serverCert = ok.serverCertificate,
                            !.serverChallenge = ok.serverSigned1.serverChallenge]
           refused == [ct EXCEPT !.euiccChallenge = "c1"]
           retry == [c EXCEPT !.matchingId = "CC_REQUIRED_TEST"]
<1>1. pc = "initiate" /\ UNCHANGED bspVars
  BY DEF InitiateAuthentication
<1>2. /\ DOMAIN ct = CtFields
      /\ ct.test = "complete_flow" => Phase
  BY TestFacts
<1>3. SameTest(c) /\ SameTest(refused) /\ SameTest(retry)
  BY <1>2 DEF SameTest, CtFields
<1>4. /\ c.euiccChallenge = "c1" /\ c.transactionId = ok.transactionId
      /\ c.serverCert = ok.serverCertificate
      /\ c.serverChallenge = ok.serverSigned1.serverChallenge
      /\ c.es9p = ct.es9p /\ c.otpks = ct.otpks
  BY <1>2 DEF CtFields
<1>5. /\ ok.serverSigned1.transactionId = "t1" /\ ok.serverSigned1.serverChallenge = "s1"
      /\ ok.serverCertificate = server.auth
  BY DEF InitiateAuthenticationOk
<1>6. \/ Stop("error", refused, clients)
      \/ f_rsp_client_cleanup("fail", c, clients)
      \/ Stop("fail", c, clients)
      \/ ct.test = "cc_retry" /\ Goto("authenticate", retry, clients)
      \/ ct.test \notin {"complete_flow", "cc_retry"} /\ Goto("authenticate", c, clients)
      \/ /\ ct.test = "complete_flow" /\ InitiateValid(c, ok)
         /\ Goto("provision", c, clients)
  BY DEF InitiateAuthentication, f_fail_and_cleanup
<1> HIDE DEF ok, c, refused, retry
<1>7. CASE ct.test = "cc_retry" /\ Goto("authenticate", retry, clients)
  BY <1>1, <1>3, <1>7, GoesOn DEF Goto
<1>8. CASE ct.test \notin {"complete_flow", "cc_retry"} /\ Goto("authenticate", c, clients)
  BY <1>1, <1>3, <1>8, GoesOn DEF Goto
<1>9. CASE /\ ct.test = "complete_flow" /\ InitiateValid(c, ok)
           /\ Goto("provision", c, clients)
  <2>1. pc' = "provision" /\ ct' = c /\ UNCHANGED <<clients, server, verdict>>
    BY <1>9 DEF Goto
  <2>2. c.transactionId = "t1"
    BY <1>5, <1>9 DEF InitiateValid
  <2>3. Answered'
    BY <1>4, <1>5, <2>1, <2>2 DEF Answered
  <2>4. ct.otpks = 0 /\ Holds(clients, ct.es9p, ct.curve, NoOtKey)
    BY <1>1, <1>2, <1>9 DEF Phase
  <2>5. ct'.otpks = 0 /\ Holds(clients', ct'.es9p, ct'.curve, NoOtKey)
    BY <1>3, <1>4, <2>1, <2>4 DEF SameTest
  <2>6. Phase'
    BY <2>1, <2>3, <2>5 DEF Phase
  <2> QED  BY <1>1, <1>3, <1>9, <2>1, <2>6, GoesOn
<1> QED  BY <1>1, <1>3, <1>6, <1>7, <1>8, <1>9, Stops

\* f_provision_profile_via_es2plus(): the client gets its parameters, nothing else.
LEMMA ProvisionStep == FlowInv /\ ProvisionProfile => FlowInv'
<1> SUFFICES ASSUME FlowInv, ProvisionProfile PROVE FlowInv'
  OBVIOUS
<1> DEFINE r == ext_RSPClient_setAuthParams(clients, ct.es9p, TRUE)
<1>1. pc = "provision" /\ ct.test = "complete_flow" /\ UNCHANGED bspVars
  BY DEF ProvisionProfile, FlowInv
<1>2. DOMAIN ct = CtFields /\ SameTest(ct) /\ Phase
  BY <1>1, TestFacts
<1>3. PICK m : \/ Stop("fail", ct, r.clients)
               \/ Goto("authenticate", [ct EXCEPT !.matchingId = m], r.clients)
  <2> DEFINE status == ext_RSPClient_sendHttpsPostWithAuth(r.clients, ct.es2p, server.es2tls, 200)
  <2>1. \/ Stop("fail", ct, r.clients)
        \/ Goto("authenticate",
                [ct EXCEPT !.matchingId = IF status # 200 THEN "" ELSE "m1"], r.clients)
    BY DEF ProvisionProfile
  <2> HIDE DEF status, r
  <2> QED  BY <2>1
<1>4. CASE Goto("authenticate", [ct EXCEPT !.matchingId = m], r.clients)
  <2>1. /\ pc' = "authenticate" /\ ct' = [ct EXCEPT !.matchingId = m] /\ clients' = r.clients
        /\ UNCHANGED <<server, verdict>>
    BY <1>4 DEF Goto
  <2>2. SameTest(ct') /\ ct'.curve = ct.curve /\ ct'.es9p = ct.es9p /\ ct'.otpks = ct.otpks
    BY <1>2, <2>1 DEF SameTest, CtFields
  <2>3. Holds(clients', ct'.es9p, ct'.curve, NoOtKey)
    <3>1. Holds(clients, ct.es9p, ct.curve, NoOtKey)
      BY <1>1, <1>2 DEF Phase
    <3>2. Holds(r.clients, ct.es9p, ct.curve, NoOtKey)
      BY <3>1, SettersHold
    <3> QED  BY <2>1, <2>2, <3>2
  <2>4. Answered'
    <3>1. Answered
      BY <1>1, <1>2 DEF Phase
    <3> QED  BY <1>2, <2>1, <3>1 DEF Answered, CtFields
  <2>5. Phase'
    BY <1>1, <1>2, <2>1, <2>2, <2>3, <2>4 DEF Phase
  <2> QED  BY <1>1, <2>1, <2>2, <2>5, GoesOn
<1> HIDE DEF r
<1> QED  BY <1>1, <1>2, <1>3, <1>4, Stops

\* AuthenticateClient: whoever goes on has shown two certificates with the two roles.
LEMMA AuthenticateStep == FlowInv /\ AuthenticateClient => FlowInv'
<1> SUFFICES ASSUME FlowInv, AuthenticateClient PROVE FlowInv'
  OBVIOUS
<1> DEFINE sig == ext_RSPClient_signDataWithEUICC(clients, ct.es9p, EuiccSigned1(ct))
           ok  == AuthenticateClientOk(ct.matchingId, sig)
           c   == [ct EXCEPT !.auok = ok]
           coded == WithCode(clients, ct.es9p, ct.transactionId, "12345678")
           wrong == WithCode(clients, ct.es9p, ct.transactionId, "00000000")
           registry == IF ok.smdpSigned2.ccRequiredFlag THEN coded ELSE clients
<1>1. pc = "authenticate" /\ UNCHANGED bspVars
  BY DEF AuthenticateClient
<1>2. /\ DOMAIN ct = CtFields /\ SameTest(ct)
      /\ ct.test = "complete_flow" => Phase
  BY TestFacts
<1>3. SameTest(c) /\ c.auok = ok /\ c.es9p = ct.es9p /\ c.otpks = ct.otpks
  BY <1>2 DEF SameTest, CtFields
<1>4. \/ Stop("error", ct, clients)
      \/ f_rsp_client_cleanup("fail", c, registry)
      \/ Stop("fail", c, clients)
      \/ f_rsp_client_cleanup("fail", c, clients)
      \/ ct.test = "full_flow" /\ Goto("package", c, registry)
      \/ ct.test = "cc_retry" /\ Goto("wrongCode", c, wrong)
      \/ /\ ct.test = "complete_flow" /\ Goto("package", c, registry)
         /\ f_validate_certificate_roles(ct.serverCert, ok.smdpCertificate)
  <2>1. ct.test \in {"complete_flow", "full_flow", "cc_retry"}
    BY DEF FlowInv
  <2> QED  BY <2>1 DEF AuthenticateClient, f_fail_and_cleanup
<1>5. ok.smdpCertificate = server.pb
  BY DEF AuthenticateClientOk
<1>6. ct.test = "complete_flow" => Holds(registry, ct.es9p, ct.curve, NoOtKey)
  <2> SUFFICES ASSUME Holds(clients, ct.es9p, ct.curve, NoOtKey)
               PROVE  Holds(coded, ct.es9p, ct.curve, NoOtKey)
    BY <1>1, <1>2 DEF Phase
  <2> DEFINE set == ext_RSPClient_setTransactionId(clients, ct.es9p, ct.transactionId).clients
  <2>1. Holds(set, ct.es9p, ct.curve, NoOtKey)
    BY SettersHold
  <2> HIDE DEF set
  <2>2. Holds(ext_RSPClient_setConfirmationCode(set, ct.es9p, "12345678").clients,
              ct.es9p, ct.curve, NoOtKey)
    BY <2>1, SettersHold
  <2> QED  BY <2>2 DEF WithCode, set
<1> HIDE DEF ok, c, registry, wrong
<1>7. CASE ct.test = "full_flow" /\ Goto("package", c, registry)
  BY <1>1, <1>3, <1>7, GoesOn DEF Goto
<1>8. CASE ct.test = "cc_retry" /\ Goto("wrongCode", c, wrong)
  BY <1>1, <1>3, <1>8, GoesOn DEF Goto
<1>9. CASE /\ ct.test = "complete_flow" /\ Goto("package", c, registry)
           /\ f_validate_certificate_roles(ct.serverCert, ok.smdpCertificate)
  <2>1. pc' = "package" /\ ct' = c /\ clients' = registry /\ UNCHANGED <<server, verdict>>
    BY <1>9 DEF Goto
  <2>2. Answered /\ ct.otpks = 0
    BY <1>1, <1>2, <1>9 DEF Phase
  <2>3. Answered'
    BY <1>2, <2>1, <2>2 DEF Answered, CtFields, c
  <2>4. Authenticated'
    BY <1>3, <1>5, <1>9, <2>1, <2>2
    DEF Authenticated, Answered, f_validate_certificate_roles, hasRSPRole
  <2>5. ct'.otpks = 0 /\ Holds(clients', ct'.es9p, ct'.curve, NoOtKey)
    BY <1>3, <1>6, <1>9, <2>1, <2>2 DEF SameTest
  <2>6. Phase'
    BY <2>1, <2>3, <2>4, <2>5 DEF Phase
  <2> QED  BY <1>1, <1>3, <1>9, <2>1, <2>6, GoesOn
<1> QED  BY <1>1, <1>2, <1>3, <1>4, <1>7, <1>8, <1>9, Stops

\* GetBoundProfilePackage: the package is asked for with the first one-time key.
LEMMA GetPackageStep == FlowInv /\ GetBoundProfilePackage => FlowInv'
<1> SUFFICES ASSUME FlowInv, GetBoundProfilePackage PROVE FlowInv'
  OBVIOUS
<1> DEFINE request == PackageRequest(NewOtpk)
           answer  == InitialiseSecureChannel(request.euiccOtpk)
           held    == [isc |-> answer.isc, smdpSign |-> answer.smdpSign]
           c == [ct EXCEPT !.otpks = @ + 1, !.request = request, !.isc = held]
<1>1. pc = "package" /\ UNCHANGED bspVars
  BY DEF GetBoundProfilePackage
<1>2. /\ DOMAIN ct = CtFields /\ ct.curve \in Curves
      /\ ct.test = "complete_flow" => Phase
  BY TestFacts
<1>3. /\ SameTest(c) /\ c.es9p = ct.es9p /\ c.otpks = ct.otpks + 1
      /\ c.request = request /\ c.isc = held
      /\ c.euiccChallenge = ct.euiccChallenge /\ c.transactionId = ct.transactionId
      /\ c.serverChallenge = ct.serverChallenge /\ c.serverCert = ct.serverCert
      /\ c.auok = ct.auok
  <2> HIDE DEF request, held
  <2> QED  BY <1>2 DEF SameTest, CtFields
<1>4. /\ held.isc.hostId = "host"
      /\ \E curve : held.isc.smdpOtpk = OtKey("DP", curve, 1)
  BY DEF InitialiseSecureChannel
<1>5. request.euiccOtpk = ext_RSPClient_getEUICCOtpk(NewOtpk, ct.es9p)
  BY DEF PackageRequest
<1>6. \/ \E v : v # "pass" /\ Stop(v, c, NewOtpk)
      \/ ct.test = "complete_flow" /\ Goto("ecdh", c, NewOtpk)
      \/ ct.test # "complete_flow" /\ f_rsp_client_cleanup("pass", c, NewOtpk)
  <2>1. \/ Stop("error", c, NewOtpk)
        \/ Stop("fail", c, NewOtpk)
        \/ ct.test = "complete_flow" /\ Goto("ecdh", c, NewOtpk)
        \/ ct.test # "complete_flow" /\ f_rsp_client_cleanup("pass", c, NewOtpk)
    BY DEF GetBoundProfilePackage
  <2> HIDE DEF c
  <2> QED  BY <2>1
<1> HIDE DEF c, request, held
<1>7. CASE ct.test = "complete_flow" /\ Goto("ecdh", c, NewOtpk)
  <2>1. pc' = "ecdh" /\ ct' = c /\ clients' = NewOtpk /\ UNCHANGED <<server, verdict>>
    BY <1>7 DEF Goto
  <2>2. /\ Answered /\ Authenticated /\ ct.otpks = 0
        /\ Holds(clients, ct.es9p, ct.curve, NoOtKey)
    BY <1>1, <1>2, <1>7 DEF Phase
  <2>3. Answered' /\ Authenticated'
    BY <1>3, <2>1, <2>2 DEF Answered, Authenticated
  <2>4. PICK otpk \in {NoOtKey, OtKey("eUICC", ct.curve, 1)} :
          /\ Holds(NewOtpk, ct.es9p, ct.curve, otpk)
          /\ otpk = ext_RSPClient_getEUICCOtpk(NewOtpk, ct.es9p)
    <3>1. NewOtpk = ext_RSPClient_generateEUICCOtpk(clients, ct.es9p, 1).clients
      BY <2>2 DEF NewOtpk
    <3>2. \E otpk \in {NoOtKey, OtKey("eUICC", ct.curve, 1)} :
             /\ Holds(ext_RSPClient_generateEUICCOtpk(clients, ct.es9p, 1).clients,
                      ct.es9p, ct.curve, otpk)
             /\ otpk = ext_RSPClient_getEUICCOtpk(
                         ext_RSPClient_generateEUICCOtpk(clients, ct.es9p, 1).clients, ct.es9p)
      BY <1>2, <2>2, OtpkHolds
    <3> QED  BY <3>1, <3>2
  <2>5. ct'.otpks = 1 /\ ct'.curve = ct.curve /\ ct'.request.euiccOtpk = otpk
        /\ ct'.es9p = ct.es9p /\ ct'.isc = held
    BY <1>3, <1>5, <2>1, <2>2, <2>4 DEF SameTest
  <2>6. Requested'
    BY <1>4, <2>1, <2>4, <2>5 DEF Requested, FirstOtpk
  <2>7. Phase'
    BY <2>1, <2>3, <2>6 DEF Phase
  <2> QED  BY <1>1, <1>3, <1>7, <2>1, <2>7, GoesOn
<1> QED  BY <1>1, <1>3, <1>6, <1>7, Stops

\* From the package to the session keys: both sides' keys are inputs of the KDF.
LEMMA ValidateStep == FlowInv /\ ValidatePackage => FlowInv'
<1> SUFFICES ASSUME FlowInv, ValidatePackage PROVE FlowInv'
  OBVIOUS
<1> DEFINE isc    == ct.isc.isc
           secret == ext_RSPClient_computeSharedSecret(clients, ct.es9p, isc.smdpOtpk)
           sender == ServerKey(ct.request.euiccOtpk, isc)
           receiver == [secret |-> secret, hostId |-> isc.hostId, eid |-> getEID(EuiccDer)]
<1>1. PICK ci \in ext_RSPClient_getCICertificate(clients, ct.es9p) :
        \/ f_fail_and_cleanup(ct) /\ UNCHANGED bspVars
        \/ /\ DpChainValid(ct.auok.smdpCertificate, ci)
           /\ getCurveOID(EuiccDer) = getCurveOID(ct.auok.smdpCertificate)
           /\ secret # {}
           /\ Start(sender, receiver) /\ Goto("bsp", ct, clients)
  BY DEF ValidatePackage
<1>2. pc = "ecdh" /\ ct.test = "complete_flow"
  BY DEF ValidatePackage, FlowInv
<1>3. DOMAIN ct = CtFields /\ SameTest(ct) /\ ct.curve \in Curves /\ Phase
  BY <1>2, TestFacts
<1>4. CASE f_fail_and_cleanup(ct) /\ UNCHANGED bspVars
  BY <1>3, <1>4, Stops DEF f_fail_and_cleanup
<1>5. CASE /\ DpChainValid(ct.auok.smdpCertificate, ci)
           /\ getCurveOID(EuiccDer) = getCurveOID(ct.auok.smdpCertificate)
           /\ secret # {}
           /\ Start(sender, receiver) /\ Goto("bsp", ct, clients)
  <2>1. Answered /\ Authenticated /\ Requested
    BY <1>2, <1>3 DEF Phase
  <2> DEFINE client == clients[ct.es9p]
  <2>2. /\ ct.es9p \in DOMAIN clients /\ client.euiccCert = Euicc(ct.curve)
        /\ Euicc(ct.curve) # NoCert /\ client.euiccOtpk = ct.request.euiccOtpk
    BY <2>1 DEF Requested, Holds
  <2>3. EuiccDer = Euicc(ct.curve)
    BY <2>2 DEF EuiccDer, ext_RSPClient_getEUICCCertificate, with_client, getClient
  <2>4. Euicc(ct.curve).key.curve = ct.curve /\ getEID(EuiccDer) = EIDs[1]
    BY <1>3, <2>2, <2>3, LayoutAssumption DEF Euicc, getCurveOID
  <2>5. /\ secret = {client.euiccOtpk, isc.smdpOtpk} /\ client.euiccOtpk # NoOtKey
        /\ isc.smdpOtpk.curve = ct.curve
    <3> DEFINE nid == getCertificateCurveNID(client.euiccCert)
    <3>1. secret = IF /\ client.euiccOtpk # NoOtKey /\ nid # "" /\ isc.smdpOtpk.curve = nid
                      /\ client.euiccOtpk.curve = nid
                   THEN {client.euiccOtpk, isc.smdpOtpk} ELSE {}
      BY <2>2 DEF ext_RSPClient_computeSharedSecret, with_client, getClient,
                  computeECDHSharedSecret
    <3>2. nid # "" => nid = ct.curve
      BY <2>2, <2>4 DEF getCertificateCurveNID
    <3> HIDE DEF nid
    <3> QED  BY <1>5, <3>1, <3>2
  <2>6. ct.request.euiccOtpk = OtKey("eUICC", ct.curve, 1)
    BY <2>1, <2>2, <2>5 DEF Requested, FirstOtpk
  <2>7. isc.smdpOtpk = OtKey("DP", ct.curve, 1)
    <3>1. PICK curve : isc.smdpOtpk = OtKey("DP", curve, 1)
      BY <2>1 DEF Requested
    <3>2. curve = ct.curve
      BY <2>5, <3>1 DEF OtKey
    <3> QED  BY <3>1, <3>2
  <2> DEFINE both == {OtKey("eUICC", ct.curve, 1), OtKey("DP", ct.curve, 1)}
  <2>8. secret = both
    BY <2>2, <2>5, <2>6, <2>7
  <2>9. receiver = [secret |-> both, hostId |-> "host", eid |-> EIDs[1]]
    <3>1. isc.hostId = "host"
      BY <2>1 DEF Requested
    <3> HIDE DEF secret, both
    <3> QED  BY <2>4, <2>8, <3>1
  <2>10. \E i \in {1, 2} : sender = [secret |-> both, hostId |-> "host", eid |-> EIDs[i]]
    <3>1. isc.hostId = "host"
      BY <2>1 DEF Requested
    <3>2. sender = [secret |-> {ct.request.euiccOtpk, isc.smdpOtpk}, hostId |-> isc.hostId,
                    eid |-> IF server.fault = "eid" THEN EIDs[2] ELSE EIDs[1]]
      BY DEF ServerKey
    <3> HIDE DEF isc, sender
    <3> QED  BY <2>6, <2>7, <3>1, <3>2
  <2>11. sender \in Keys /\ receiver \in Keys /\ sender.secret = both
    <3> HIDE DEF sender, receiver
    <3>1. receiver \in Keys
      BY <1>3, <2>9, SessionKeysAssumption
    <3>2. PICK i \in {1, 2} :
            sender = [secret |-> both, hostId |-> "host", eid |-> EIDs[i]]
      BY <2>10
    <3>3. sender.secret = both
      BY <3>2
    <3>4. sender \in Keys
      BY <1>3, <3>2, SessionKeysAssumption
    <3> QED  BY <3>1, <3>3, <3>4
  <2>12. AcceptInv' /\ at' = "build" /\ tx'.session.key = sender
    <3>1. AcceptInv
      BY DEF FlowInv
    <3>2. AcceptInv'
      <4> HIDE DEF sender, receiver
      <4> QED  BY <1>5, <2>11, <3>1, StepAccept
    <3>3. at' = "build" /\ tx'.session = from_kdf(sender)
      BY <1>5 DEF Start
    <3> QED  BY <3>2, <3>3 DEF from_kdf, BspCrypto
  <2>13. /\ pc' = "bsp" /\ UNCHANGED <<ct, clients, server, verdict>>
    BY <1>5 DEF Goto
  <2>14. server.pb.key.curve = ct.curve
    BY <1>5, <2>1, <2>3, <2>4 DEF Authenticated, getCurveOID
  <2>15. Agreed'
    <3>1. ct.otpks = 1
      BY <2>1 DEF Requested
    <3> HIDE DEF sender
    <3> QED  BY <2>7, <2>11, <2>12, <2>13, <2>14, <3>1 DEF Agreed
  <2>16. Answered' /\ Authenticated' /\ Requested'
    BY <2>1, <2>13 DEF Answered, Authenticated, Requested, FirstOtpk
  <2>17. Phase'
    BY <2>13, <2>15, <2>16 DEF Phase
  <2>18. OnlyRightServer' /\ verdict' # "pass"
    BY <1>2, <2>13 DEF FlowInv, OnlyRightServer
  <2> QED  BY <1>2, <2>12, <2>13, <2>17, <2>18 DEF FlowInv
<1> HIDE DEF isc, secret, sender, receiver
<1> QED  BY <1>1, <1>4, <1>5

\* A segment of the package: the keys of the sender's session stay what was agreed.
LEMMA SegmentStep == FlowInv /\ ProcessBoundProfilePackage => FlowInv'
<1> SUFFICES ASSUME FlowInv, ProcessBoundProfilePackage PROVE FlowInv'
  OBVIOUS
<1>1. pc = "bsp" /\ BspStep /\ UNCHANGED flowVars
  BY DEF ProcessBoundProfilePackage
<1>2. UNCHANGED <<server, clients, ct, pc, verdict>>
  BY <1>1 DEF flowVars
<1>3. AcceptInv' /\ (at = "error" => res = NoResult)' /\ tx'.session.key = tx.session.key
  BY <1>1, PackageKeys DEF FlowInv
<1>4. ct.test = "complete_flow" /\ Phase /\ verdict # "pass"
  BY <1>1 DEF FlowInv
<1>5. Phase'
  <2>1. Answered /\ Authenticated /\ Requested /\ Agreed
    BY <1>1, <1>4 DEF Phase
  <2>2. Answered' /\ Authenticated' /\ Requested'
    BY <1>2, <2>1 DEF Answered, Authenticated, Requested, FirstOtpk
  <2>3. Agreed'
    BY <1>2, <1>3, <2>1 DEF Agreed
  <2> QED  BY <1>1, <1>2, <2>2, <2>3 DEF Phase
<1>6. OnlyRightServer'
  BY <1>2, <1>4 DEF OnlyRightServer
<1> QED  BY <1>2, <1>3, <1>5, <1>6 DEF FlowInv

\* The verdict: what the last checks add is that the CI vouches for both certificates.
LEMMA ProcessedStep == FlowInv /\ Processed => FlowInv'
<1> SUFFICES ASSUME FlowInv, Processed PROVE FlowInv'
  OBVIOUS
<1>1. PICK ci \in ext_RSPClient_getCICertificate(clients, ct.es9p) :
        \/ f_rsp_client_cleanup("fail", ct, clients)
        \/ /\ res.configureIsdp # <<>> /\ res.storeMetadata # <<>> /\ res.profileData # <<>>
           /\ DpChainValid(ct.serverCert, ci) /\ DpChainValid(ct.auok.smdpCertificate, ci)
           /\ f_rsp_client_cleanup("pass", ct, clients)
  BY DEF Processed, f_fail_and_cleanup
<1>2. pc = "bsp" /\ at \in {"done", "error"} /\ UNCHANGED bspVars
  BY DEF Processed
<1>3. DOMAIN ct = CtFields /\ SameTest(ct) /\ server \in Servers
  BY TestFacts
<1>4. CASE f_rsp_client_cleanup("fail", ct, clients)
  BY <1>2, <1>3, <1>4, Stops
<1>5. CASE /\ res.configureIsdp # <<>> /\ res.storeMetadata # <<>> /\ res.profileData # <<>>
           /\ DpChainValid(ct.serverCert, ci) /\ DpChainValid(ct.auok.smdpCertificate, ci)
           /\ f_rsp_client_cleanup("pass", ct, clients)
  <2>1. ct.test = "complete_flow" /\ Answered /\ Authenticated /\ Requested /\ Agreed
    BY <1>2 DEF FlowInv, Phase
  <2>2. Accepted
    <3>1. at # "error"
      BY <1>5 DEF FlowInv, NoResult
    <3> QED  BY <1>2, <1>5, <3>1 DEF Accepted
  <2>3. tx.session.key = rx.session.key
    BY <2>2, AcceptedKeys DEF FlowInv
  <2>4. ct.es9p \in DOMAIN clients /\ Loaded(clients[ct.es9p])
    BY <2>1 DEF Requested, Holds
  <2>5. /\ server.auth.current /\ server.auth.signer = ci.key
        /\ server.auth.signer = [owner |-> "CI", curve |-> server.auth.key.curve]
        /\ server.pb.current /\ server.pb.signer = ci.key
        /\ server.pb.signer = [owner |-> "CI", curve |-> server.pb.key.curve]
    <3>1. DpChainValid(server.auth, ci) /\ DpChainValid(server.pb, ci)
      BY <1>5, <2>1 DEF Answered, Authenticated
    <3> QED  BY <1>3, <2>4, <3>1, AcceptedCert
  <2>6. server.auth.key.curve = server.pb.key.curve
    <3>1. server.auth.signer.curve = server.auth.key.curve
      BY <2>5
    <3>2. server.pb.signer.curve = server.pb.key.curve
      BY <2>5
    <3> QED  BY <2>5, <3>1, <3>2
  <2>7. Vouched(server.auth, dp_auth, ct.curve) /\ Vouched(server.pb, dp_pb, ct.curve)
    BY <2>1, <2>5, <2>6 DEF Agreed, Authenticated, Vouched
  <2> DEFINE c == [ct EXCEPT !.es9p = -1, !.es2p = -1]
  <2>8. /\ pc' = "end" /\ verdict' = "pass" /\ ct' = c /\ UNCHANGED server
    BY <1>5 DEF f_rsp_client_cleanup, Stop
  <2>9. /\ SameTest(c) /\ c.euiccChallenge = ct.euiccChallenge
        /\ c.transactionId = ct.transactionId /\ c.serverChallenge = ct.serverChallenge
        /\ c.otpks = ct.otpks /\ c.isc = ct.isc
    BY <1>3 DEF SameTest, CtFields
  <2> HIDE DEF c
  <2>10. UNCHANGED <<at, tx, rx, res>>
    BY <1>2 DEF bspVars
  <2>11. OnlyRightServer'
    <3>1. ct'.curve = ct.curve
      BY <2>8, <2>9 DEF SameTest
    <3>2. Accepted'
      BY <2>2, <2>10 DEF Accepted
    <3>3. Vouched(server.auth, dp_auth, ct.curve)' /\ Vouched(server.pb, dp_pb, ct.curve)'
      BY <2>7, <2>8, <3>1 DEF Vouched
    <3>4. /\ ct'.euiccChallenge = "c1" /\ ct'.transactionId = "t1"
          /\ ct'.serverChallenge = "s1"
      BY <2>1, <2>8, <2>9 DEF Answered
    <3>5. /\ tx'.session.key = rx'.session.key
          /\ tx'.session.key.secret
               = {OtKey("eUICC", ct'.curve, ct'.otpks), ct'.isc.isc.smdpOtpk}
      BY <2>1, <2>3, <2>8, <2>9, <2>10, <3>1 DEF Agreed
    <3> QED  BY <3>2, <3>3, <3>4, <3>5 DEF OnlyRightServer
  <2>12. AcceptInv' /\ (at = "error" => res = NoResult)'
    BY <1>2, <2>10, StepAccept DEF FlowInv
  <2>13. Phase'
    BY <2>8 DEF Phase
  <2>14. DOMAIN ct' = CtFields /\ ct'.curve \in Curves /\ ct'.test = ct.test
    BY <2>8, <2>9 DEF SameTest, FlowInv
  <2> QED  BY <2>8, <2>11, <2>12, <2>13, <2>14 DEF FlowInv
<1> QED  BY <1>1, <1>4, <1>5

-----------------------------------------------------------------------------
\* A test starts with no answer, no package and no verdict.
LEMMA FlowInit == Init => FlowInv
<1> SUFFICES ASSUME Init PROVE FlowInv
  OBVIOUS
<1>1. AcceptInv /\ at = "idle"
  BY IdleAccept DEF Init, Idle
<1>2. PICK test \in {"complete_flow", "full_flow", "cc_retry"}, curve \in Curves :
        ct = [test |-> test, curve |-> curve, es9p |-> -1, es2p |-> -1,
              euiccChallenge |-> "", transactionId |-> "", serverChallenge |-> "",
              serverCert |-> NoCert, matchingId |-> "", auok |-> NoOk2,
              otpks |-> 0, request |-> NoRequest, isc |-> NoIsc]
  BY DEF Init
<1>3. /\ DOMAIN ct = CtFields /\ ct.curve \in Curves /\ ct.otpks = 0
      /\ ct.test \in {"complete_flow", "full_flow", "cc_retry"}
  BY <1>2 DEF CtFields
<1>4. pc = "init" /\ verdict = "none" /\ server \in Servers
  BY DEF Init
<1>5. Phase /\ OnlyRightServer
  BY <1>3, <1>4 DEF Phase, OnlyRightServer
<1> QED  BY <1>1, <1>3, <1>4, <1>5 DEF FlowInv

\* Every step of a test keeps what its place has established about the server.
LEMMA FlowStep == FlowInv /\ [Next]_<<flowVars, bspVars>> => FlowInv'
<1> SUFFICES ASSUME FlowInv, [Next]_<<flowVars, bspVars>> PROVE FlowInv'
  OBVIOUS
<1>1. CASE UNCHANGED <<flowVars, bspVars>>
  <2>1. UNCHANGED <<server, clients, ct, pc, verdict>> /\ UNCHANGED bspVars
    BY <1>1 DEF flowVars
  <2>2. UNCHANGED <<at, tx, rx, res>>
    BY <2>1 DEF bspVars
  <2>3. AcceptInv'
    BY <2>1, StepAccept DEF FlowInv
  <2>4. Phase' <=> Phase
    BY <2>1, <2>2 DEF Phase, Answered, Authenticated, Requested, FirstOtpk, Agreed
  <2>5. OnlyRightServer'
    BY <2>1, <2>2 DEF FlowInv, OnlyRightServer, Accepted, Vouched
  <2> QED  BY <2>1, <2>2, <2>3, <2>4, <2>5 DEF FlowInv
<1> QED
  BY <1>1, InitStep, OtherTestsSteps, InitiateStep, ProvisionStep, AuthenticateStep,
     GetPackageStep, ValidateStep, SegmentStep, ProcessedStep DEF Next

\* f_TC_rsp_complete_flow passes only with the server the CI vouches for, that answered
\* this challenge and protected the package with keys of this eUICC's one-time key,
\* whatever the servers, the packages and their disturbances are.
THEOREM OnlyRightServerThm == Spec => []OnlyRightServer
<1>1. FlowInv => OnlyRightServer
  BY DEF FlowInv
<1> QED  BY <1>1, FlowInit, FlowStep, PTL DEF Spec

-----------------------------------------------------------------------------
(* An honest server: every check of the flow succeeds.                      *)

Eum(curve) == xx_loadCertificate(<<"sgp26", "EUM">>, "CERT_EUM_" \o curve)

\* What the client's root and pool make of a certificate, directly.
Trusts(c, cert) ==
  /\ c.rootCA \in c.certPool /\ SelfSigned(c.rootCA) /\ c.rootCA.ca /\ c.rootCA.current
  /\ cert.current /\ Issued(c.rootCA, cert)

\* A client that will accept this server, and one for its ES2+ interface.
Ready(c, s) ==
  /\ DOMAIN c = ClientFields
  /\ c.euiccCert = Euicc(s.curve) /\ c.eumCert = Eum(s.curve)
  /\ getCurveOID(c.rootCA) = s.curve
  /\ \A cert \in {s.tls, s.auth, s.pb, Eum(s.curve)} : Trusts(c, cert)
OrderReady(c, s) == DOMAIN c = ClientFields /\ c.useMutualTLS /\ Trusts(c, s.es2tls)

-----------------------------------------------------------------------------
\* A path of one step.
LEMMA ShortPath ==
  ASSUME NEW ci, NEW cert, NEW pool, SelfSigned(ci), ci.ca, ci.current, cert.current,
         Issued(ci, cert)
  PROVE  verifyCertificateChainDynamic(cert, pool, ci)
<1> DEFINE issuers == {c \in {d \in pool : d \notin {cert, ci}} \cup {ci} : c.ca /\ c.current}
<1>1. ci \in issuers
  OBVIOUS
<1>2. PathTo(ci, cert, issuers)
  BY <1>1 DEF PathTo
<1> QED  BY <1>2 DEF verifyCertificateChainDynamic

\* A path through the EUM.
LEMMA EumPath ==
  ASSUME NEW ci, NEW eum, NEW cert, SelfSigned(ci), ci.ca, ci.current, cert.current,
         eum.ca, eum.current, Issued(ci, eum), Issued(eum, cert)
  PROVE  verifyCertificateChainDynamic(cert, {eum}, ci)
<1> DEFINE issuers == {c \in {d \in {eum} : d \notin {cert, ci}} \cup {ci} : c.ca /\ c.current}
<1>1. ci \in issuers
  OBVIOUS
<1>2. ASSUME NEW S \in SUBSET (issuers \cup {cert}), cert \in S,
             \A c \in issuers, d \in S : Issued(c, d) => c \in S
      PROVE  ci \in S
  <2>1. CASE eum = ci \/ eum = cert
    BY <1>1, <1>2, <2>1
  <2>2. CASE eum \notin {ci, cert}
    <3>1. eum \in issuers
      BY <2>2
    <3>2. eum \in S
      BY <1>2, <3>1
    <3> QED  BY <1>1, <1>2, <3>2
  <2> QED  BY <2>1, <2>2
<1>3. PathTo(ci, cert, issuers)
  BY <1>2 DEF PathTo
<1> QED  BY <1>3 DEF verifyCertificateChainDynamic

\* TLS connects to a certificate the client trusts (postJson()).
LEMMA Connects ==
  ASSUME NEW c, NEW cert, Trusts(c, cert), NEW status
  PROVE  sendHttpsPostUnified(c, cert, status) = status
<1>1. verifyCertificateChainDynamic(cert, c.certPool, c.rootCA)
  BY ShortPath DEF Trusts
<1>2. sslCtxFunction(cert, c.certPool)
  BY <1>1 DEF sslCtxFunction, Trusts
<1> QED  BY <1>2 DEF sendHttpsPostUnified, postJson

\* What is signed with a key of 256 bits is verified with it.
LEMMA SignatureHolds ==
  ASSUME NEW data, data # <<>>, NEW cert, cert # NoCert, cert.key.curve \in {"NIST", "BRP"}
  PROVE  verifyServerSignature(data, Sign(data, cert.key), cert)
<1> DEFINE der == [by |-> cert.key, over |-> data, form |-> "der"]
           bsi == [by |-> cert.key, over |-> data, form |-> "bsi"]
<1>1. cert.key # NoKey
  <2>1. NoKey.curve = ""
    BY DEF NoKey
  <2> QED  BY <2>1
<1>2. signDataWithKey(data, cert.key) = der
  BY <1>1 DEF signDataWithKey
<1>3. PointSize(cert.key) = 65
  BY DEF PointSize
<1>4. Sign(data, cert.key) = bsi
  <2>1. [der EXCEPT !.form = "bsi"] = bsi
    OBVIOUS
  <2> QED  BY <1>2, <1>3, <2>1 DEF Sign, convertDER_to_BSI_TR03111
<1>5. convertBSI_TR03111_to_DER(bsi) = der /\ der # NoSignature
  BY DEF convertBSI_TR03111_to_DER, NoSignature
<1> QED  BY <1>4, <1>5 DEF verifyServerSignature, verify_TR031111

-----------------------------------------------------------------------------
\* The assumption about an honest server, without its CI.
LEMMA HonestServer ==
  ASSUME NEW s \in Servers, s.honest
  PROVE  /\ s.fault \in {"none", "ccRequired"} /\ s.curve \in {"NIST", "BRP"}
         /\ \A cert \in {s.auth, s.pb} :
              cert # NoCert /\ getCurveOID(cert) = s.curve /\ cert.key.curve \in {"NIST", "BRP"}
         /\ dp_auth \in s.auth.policies /\ dp_pb \in s.pb.policies
         /\ Euicc(s.curve) # NoCert /\ Euicc(s.curve).current /\ Issued(Eum(s.curve), Euicc(s.curve))
         /\ validateEIDRange(getEID(Euicc(s.curve)), Eum(s.curve))
         /\ Eum(s.curve) # NoCert /\ Eum(s.curve).current /\ Eum(s.curve).ca
  BY HonestAssumption DEF TestEuicc, Euicc, Eum, hasRSPRole, getCurveOID

\* The constructor, over the directories of the CI.
LEMMA RootIsCI ==
  ASSUME NEW dir \in {Issuer, <<"sgp26">>}, NEW curve, NEW ci, TestCI(ci, curve),
         \A d \in {"EUM", "DPtls"} : find_cert_files(<<"sgp26", d>>, {}) # {}
  PROVE  LET made == RSPClient(<<dir, <<"sgp26", "EUM">>, <<"sgp26", "DPtls">>>>, {curve}) IN
         /\ made # {}
         /\ \A c \in made : DOMAIN c = ClientFields /\ c.rootCA = ci /\ ci \in c.certPool
<1> DEFINE paths == <<dir, <<"sgp26", "EUM">>, <<"sgp26", "DPtls">>>>
           filters == {curve}
           loaded(i) == loadCertificatesFromDirectory(paths[i], filters)
           roots(i)  == {l \in loaded(i) : SelfSigned(l.cert)}
           all       == UNION {loaded(i) : i \in DOMAIN paths}
           first     == {i \in DOMAIN paths :
                           roots(i) # {} /\ \A j \in 1..(i - 1) : roots(j) = {}}
           client(root, pool) ==
             [rootCA |-> root, certPool |-> CertsOf(pool),
              euiccCert |-> NoCert, EID |-> <<>>, euiccSKI |-> NoKey,
              euiccPrivateKey |-> NoKey, euiccPublicKeyData |-> NoKey,
              eumCert |-> NoCert, eumPrivateKey |-> NoKey, eumPublicKeyData |-> NoKey,
              euiccOtpk |-> NoOtKey, confirmationCode |-> "",
              confirmationCodeHash |-> NoHash, transactionId |-> "", caCertPath |-> "",
              useCustomTlsCert |-> FALSE, useMutualTLS |-> FALSE]
           made == RSPClient(paths, filters)
<1>1. DOMAIN paths = 1..3 /\ paths[1] = dir /\ paths[2] = <<"sgp26", "EUM">>
      /\ paths[3] = <<"sgp26", "DPtls">>
  OBVIOUS
<1>2. /\ \A l \in loaded(1) : SelfSigned(l.cert) => l.cert = ci
      /\ \E k, l \in loaded(1) : k # l /\ k.cert = ci /\ l.cert = ci
      /\ SelfSigned(ci)
  <2> HIDE DEF paths
  <2> QED  BY <1>1 DEF TestCI
<1>3. PICK k \in loaded(1), l \in loaded(1) : k # l /\ k.cert = ci /\ l.cert = ci
  BY <1>2
<1>4. find_cert_files(dir, {}) # {}
  <2>1. PICK f \in find_cert_files(dir, filters) : TRUE
    BY <1>1, <1>3 DEF loadCertificatesFromDirectory
  <2>2. f \in find_cert_files(dir, {})
    BY <2>1 DEF find_cert_files
  <2> QED  BY <2>2
<1>5. \A i \in DOMAIN paths : find_cert_files(paths[i], {}) # {}
  <2>1. \A i \in 1..3 : i = 1 \/ i = 2 \/ i = 3
    OBVIOUS
  <2> HIDE DEF paths
  <2> QED  BY <1>1, <1>4, <2>1
<1>6. first = {1}
  <2>1. roots(1) # {}
    BY <1>2, <1>3
  <2>2. 1 \in DOMAIN paths /\ \A j \in 1..(1 - 1) : roots(j) = {}
    BY <1>1
  <2>3. ASSUME NEW i \in first PROVE i = 1
    <3>1. i \in 1..3 /\ \A j \in 1..(i - 1) : roots(j) = {}
      BY <1>1
    <3>2. i # 1 => 1 \in 1..(i - 1)
      BY <3>1
    <3> HIDE DEF first, roots
    <3> QED  BY <2>1, <3>1, <3>2
  <2> HIDE DEF roots, paths
  <2> QED  BY <2>1, <2>2, <2>3
<1>7. made = {client(m.cert, all \ {m}) : m \in roots(1)}
  <2>1. made = IF \E i \in DOMAIN paths : find_cert_files(paths[i], {}) = {} THEN {}
               ELSE IF first = {} THEN {client(NoCert, all)}
               ELSE {client(m.cert, all \ {m}) : m \in UNION {roots(i) : i \in first}}
    BY DEF RSPClient
  <2>2. UNION {roots(i) : i \in {1}} = roots(1)
    <3> HIDE DEF roots
    <3> QED  OBVIOUS
  <2> HIDE DEF made, roots, first, client, all, paths
  <2> QED  BY <1>5, <1>6, <2>1, <2>2
<1>8. k \in roots(1) /\ loaded(1) \subseteq all
  <2>1. 1 \in DOMAIN paths
    BY <1>1
  <2> HIDE DEF paths
  <2> QED  BY <1>2, <1>3, <2>1
<1>9. ASSUME NEW m \in roots(1)
      PROVE  LET c == client(m.cert, all \ {m}) IN
             DOMAIN c = ClientFields /\ c.rootCA = ci /\ ci \in c.certPool
  <2>1. m.cert = ci
    BY <1>2
  <2>2. ci \in CertsOf(all \ {m})
    <3>1. k \in all /\ l \in all /\ (k # m \/ l # m)
      <4> HIDE DEF all, loaded
      <4> QED  BY <1>3, <1>8
    <3> HIDE DEF all
    <3> QED  BY <1>3, <3>1 DEF CertsOf
  <2> HIDE DEF all
  <2> QED  BY <2>1, <2>2 DEF ClientFields
<1> HIDE DEF client, all, roots, made
<1>10. made # {} /\ \A c \in made : DOMAIN c = ClientFields /\ c.rootCA = ci /\ ci \in c.certPool
  BY <1>7, <1>8, <1>9
<1> QED  BY <1>10 DEF made, paths, filters

\* The methods of a new client: what each sets, and what it leaves.
Same(c, d) ==
  /\ DOMAIN d = ClientFields /\ d.rootCA = c.rootCA /\ d.certPool = c.certPool
LEMMA LoadersSet ==
  ASSUME NEW c, DOMAIN c = ClientFields, NEW dir, NEW name
  PROVE  /\ LET r == loadEUICCCertificate(c, dir, name) IN
            /\ r.ok <=> xx_loadCertificate(dir, name) # NoCert
            /\ Same(c, r.client) /\ r.client.eumCert = c.eumCert
            /\ r.ok => r.client.euiccCert = xx_loadCertificate(dir, name)
         /\ LET r == loadEUICCKeyPair(c, dir, name) IN
            /\ r.ok <=> xx_loadPrivateKey(dir, name, NoKey).ok
            /\ Same(c, r.client) /\ r.client.eumCert = c.eumCert /\ r.client.euiccCert = c.euiccCert
         /\ LET r == loadEUMCertificate(c, dir, name) IN
            /\ r.ok <=> xx_loadCertificate(dir, name) # NoCert
            /\ Same(c, r.client) /\ r.client.euiccCert = c.euiccCert
            /\ r.ok => r.client.eumCert = xx_loadCertificate(dir, name)
         /\ LET r == loadEUMKeyPair(c, dir, name) IN
            /\ r.ok <=> xx_loadPrivateKey(dir, name, NoKey).ok
            /\ Same(c, r.client) /\ r.client.eumCert = c.eumCert /\ r.client.euiccCert = c.euiccCert
         /\ LET r == setCACertPath(c, name) IN
            /\ Same(c, r.client) /\ r.client.eumCert = c.eumCert /\ r.client.euiccCert = c.euiccCert
<1>1. LET r == loadEUICCCertificate(c, dir, name) IN
      /\ r.ok <=> xx_loadCertificate(dir, name) # NoCert
      /\ Same(c, r.client) /\ r.client.eumCert = c.eumCert
      /\ r.ok => r.client.euiccCert = xx_loadCertificate(dir, name)
  BY DEF loadEUICCCertificate, Same, ClientFields, Result
<1>2. \A old : xx_loadPrivateKey(dir, name, old).ok <=> xx_loadPrivateKey(dir, name, NoKey).ok
  BY DEF xx_loadPrivateKey
<1>3. LET r == loadEUICCKeyPair(c, dir, name) IN
      /\ r.ok <=> xx_loadPrivateKey(dir, name, NoKey).ok
      /\ Same(c, r.client) /\ r.client.eumCert = c.eumCert /\ r.client.euiccCert = c.euiccCert
  BY <1>2 DEF loadEUICCKeyPair, Same, ClientFields, Result
<1>4. LET r == loadEUMCertificate(c, dir, name) IN
      /\ r.ok <=> xx_loadCertificate(dir, name) # NoCert
      /\ Same(c, r.client) /\ r.client.euiccCert = c.euiccCert
      /\ r.ok => r.client.eumCert = xx_loadCertificate(dir, name)
  BY DEF loadEUMCertificate, Same, ClientFields, Result
<1>5. LET r == loadEUMKeyPair(c, dir, name) IN
      /\ r.ok <=> xx_loadPrivateKey(dir, name, NoKey).ok
      /\ Same(c, r.client) /\ r.client.eumCert = c.eumCert /\ r.client.euiccCert = c.euiccCert
  BY <1>2 DEF loadEUMKeyPair, Same, ClientFields, Result
<1>6. LET r == setCACertPath(c, name) IN
      /\ Same(c, r.client) /\ r.client.eumCert = c.eumCert /\ r.client.euiccCert = c.euiccCert
  BY DEF setCACertPath, Same, ClientFields, Result
<1> QED  BY <1>1, <1>3, <1>4, <1>5, <1>6

\* createClient() of a curve with all its files: one client, whose root is the CI.
LEMMA ClientMade ==
  ASSUME NEW registry, NEW handle, NEW dir \in {Issuer, <<"sgp26">>},
         NEW curve \in {"NIST", "BRP"}, NEW ci, TestCI(ci, curve), TestEuicc(ci, curve),
         \A d \in {"EUM", "DPtls"} : find_cert_files(<<"sgp26", d>>, {}) # {},
         NEW made \in createClient(registry, handle, dir, curve)
  PROVE  /\ made.handle = handle /\ DOMAIN made.clients = DOMAIN registry \cup {handle}
         /\ \A h \in DOMAIN registry \ {handle} : made.clients[h] = registry[h]
         /\ LET c == made.clients[handle] IN
            /\ DOMAIN c = ClientFields /\ c.rootCA = ci /\ ci \in c.certPool
            /\ c.euiccCert = Euicc(curve) /\ c.eumCert = Eum(curve)
<1> DEFINE curve0 == IF curve = "BRP" THEN "BRP" ELSE "NIST"
           clients0 == RSPClient(<<dir, <<"sgp26", "EUM">>, <<"sgp26", "DPtls">>>>, {curve})
           r1(c) == loadEUICCCertificate(c, <<"sgp26", "eUICC">>, "CERT_EUICC_" \o curve0)
           r2(c) == loadEUICCKeyPair(r1(c).client, <<"sgp26", "eUICC">>, "SK_EUICC_" \o curve0)
           r3(c) == loadEUMCertificate(r2(c).client, <<"sgp26", "EUM">>, "CERT_EUM_" \o curve0)
           r4(c) == loadEUMKeyPair(r3(c).client, <<"sgp26", "EUM">>, "SK_EUM_" \o curve0)
           r5(c) == setCACertPath(r4(c).client, "ca-certificates.crt")
           loaded(c) == Result(r1(c).ok /\ r2(c).ok /\ r3(c).ok /\ r4(c).ok, r5(c).client)
           good == {loaded(c).client : c \in {d \in clients0 : loaded(d).ok}}
           with(c) == [h \in DOMAIN registry \cup {handle} |-> IF h = handle THEN c ELSE registry[h]]
<1>1. createClient(registry, handle, dir, curve)
        = IF good = {} THEN {[handle |-> -1, clients |-> registry]}
          ELSE {[handle |-> handle, clients |-> with(c)] : c \in good}
  BY DEF createClient
<1>2. curve0 = curve
  OBVIOUS
<1>3. /\ xx_loadCertificate(<<"sgp26", "eUICC">>, "CERT_EUICC_" \o curve0) = Euicc(curve)
      /\ xx_loadCertificate(<<"sgp26", "EUM">>, "CERT_EUM_" \o curve0) = Eum(curve)
      /\ Euicc(curve) # NoCert /\ Eum(curve) # NoCert
      /\ xx_loadPrivateKey(<<"sgp26", "eUICC">>, "SK_EUICC_" \o curve0, NoKey).ok
      /\ xx_loadPrivateKey(<<"sgp26", "EUM">>, "SK_EUM_" \o curve0, NoKey).ok
  <2> HIDE DEF curve0
  <2> QED  BY <1>2 DEF TestEuicc, Euicc, Eum
<1> HIDE DEF curve0
<1>4. /\ clients0 # {}
      /\ \A c \in clients0 : DOMAIN c = ClientFields /\ c.rootCA = ci /\ ci \in c.certPool
  BY RootIsCI
<1>5. ASSUME NEW d \in clients0
      PROVE  /\ r1(d).ok /\ r2(d).ok /\ r3(d).ok /\ r4(d).ok
             /\ Same(d, r5(d).client)
             /\ r5(d).client.euiccCert = Euicc(curve) /\ r5(d).client.eumCert = Eum(curve)
  <2>0. DOMAIN d = ClientFields
    BY <1>4
  <2>1. r1(d).ok /\ Same(d, r1(d).client) /\ r1(d).client.euiccCert = Euicc(curve)
    <3> HIDE DEF clients0
    <3> QED  BY <1>3, <2>0, LoadersSet
  <2>2. r2(d).ok /\ Same(d, r2(d).client) /\ r2(d).client.euiccCert = Euicc(curve)
    <3> DEFINE c == r1(d).client
    <3>1. DOMAIN c = ClientFields
      BY <2>1 DEF Same
    <3>2. r2(d).ok /\ Same(c, r2(d).client) /\ r2(d).client.euiccCert = c.euiccCert
      <4> HIDE DEF c, r1, clients0
      <4> QED  BY <1>3, <3>1, LoadersSet DEF c
    <3> HIDE DEF r1, r2
    <3> QED  BY <2>1, <3>2 DEF Same
  <2>3. r3(d).ok /\ Same(d, r3(d).client) /\ r3(d).client.euiccCert = Euicc(curve)
        /\ r3(d).client.eumCert = Eum(curve)
    <3> DEFINE c == r2(d).client
    <3>1. DOMAIN c = ClientFields
      BY <2>2 DEF Same
    <3>2. r3(d).ok /\ Same(c, r3(d).client) /\ r3(d).client.euiccCert = c.euiccCert
          /\ r3(d).client.eumCert = Eum(curve)
      <4> HIDE DEF c, r2, clients0
      <4> QED  BY <1>3, <3>1, LoadersSet DEF c
    <3> HIDE DEF r2, r3
    <3> QED  BY <2>2, <3>2 DEF Same
  <2>4. r4(d).ok /\ Same(d, r4(d).client) /\ r4(d).client.euiccCert = Euicc(curve)
        /\ r4(d).client.eumCert = Eum(curve)
    <3> DEFINE c == r3(d).client
    <3>1. DOMAIN c = ClientFields
      BY <2>3 DEF Same
    <3>2. r4(d).ok /\ Same(c, r4(d).client) /\ r4(d).client.euiccCert = c.euiccCert
          /\ r4(d).client.eumCert = c.eumCert
      <4> HIDE DEF c, r3, clients0
      <4> QED  BY <1>3, <3>1, LoadersSet DEF c
    <3> HIDE DEF r3, r4
    <3> QED  BY <2>3, <3>2 DEF Same
  <2>5. Same(d, r5(d).client) /\ r5(d).client.euiccCert = Euicc(curve)
        /\ r5(d).client.eumCert = Eum(curve)
    <3> DEFINE c == r4(d).client
    <3>1. DOMAIN c = ClientFields
      BY <2>4 DEF Same
    <3>2. Same(c, r5(d).client) /\ r5(d).client.euiccCert = c.euiccCert
          /\ r5(d).client.eumCert = c.eumCert
      <4> HIDE DEF c, r4, clients0
      <4> QED  BY <3>1, LoadersSet DEF c
    <3> HIDE DEF r4, r5
    <3> QED  BY <2>4, <3>2 DEF Same
  <2> QED  BY <2>1, <2>2, <2>3, <2>4, <2>5
<1> HIDE DEF r1, r2, r3, r4, r5, clients0
<1>6. \A d \in clients0 : loaded(d).ok /\ loaded(d).client = r5(d).client
  BY <1>5 DEF Result
<1>7. /\ good # {}
      /\ \A c \in good : \E d \in clients0 : c = r5(d).client
  BY <1>4, <1>6
<1> HIDE DEF good
<1>8. PICK c \in good : made = [handle |-> handle, clients |-> with(c)]
  <2>1. made \in {[handle |-> handle, clients |-> with(c)] : c \in good}
    <3> HIDE DEF with
    <3> QED  BY <1>1, <1>7
  <2> HIDE DEF with
  <2> QED  BY <2>1
<1>9. PICK d \in clients0 : c = r5(d).client
  BY <1>7
<1>10. /\ DOMAIN c = ClientFields /\ c.rootCA = ci /\ ci \in c.certPool
       /\ c.euiccCert = Euicc(curve) /\ c.eumCert = Eum(curve)
  BY <1>4, <1>5, <1>9 DEF Same
<1>11. /\ made.handle = handle /\ made.clients = with(c) /\ made.clients[handle] = c
  BY <1>8
<1>12. /\ DOMAIN made.clients = DOMAIN registry \cup {handle}
       /\ \A h \in DOMAIN registry \ {handle} : made.clients[h] = registry[h]
  BY <1>11
<1> QED  BY <1>10, <1>11, <1>12

-----------------------------------------------------------------------------
\* The methods called on a client that is ready leave it ready.
LEMMA ReadyKept ==
  ASSUME NEW c, NEW s, Ready(c, s), NEW d, Same(c, d), d.euiccCert = c.euiccCert,
         d.eumCert = c.eumCert
  PROVE  Ready(d, s)
  BY DEF Ready, Same, Trusts

LEMMA SettingsReady ==
  ASSUME NEW c, NEW s, Ready(c, s)
  PROVE  /\ configureHttpClient(c, TRUE).ok /\ Ready(configureHttpClient(c, TRUE).client, s)
         /\ setAuthParams(c, TRUE).ok /\ Ready(setAuthParams(c, TRUE).client, s)
<1>0. DOMAIN c = ClientFields
  BY DEF Ready
<1>1. configureHttpClient(c, TRUE).ok /\ Ready(configureHttpClient(c, TRUE).client, s)
  <2> DEFINE r == configureHttpClient(c, TRUE)
  <2>1. r.ok /\ Same(c, r.client) /\ r.client.eumCert = c.eumCert /\ r.client.euiccCert = c.euiccCert
    BY <1>0 DEF configureHttpClient, Same, ClientFields, Result
  <2> HIDE DEF r
  <2> QED  BY <2>1, ReadyKept DEF r
<1>2. setAuthParams(c, TRUE).ok /\ Ready(setAuthParams(c, TRUE).client, s)
  <2> DEFINE r == setAuthParams(c, TRUE)
  <2>1. r.ok /\ Same(c, r.client) /\ r.client.eumCert = c.eumCert /\ r.client.euiccCert = c.euiccCert
    BY <1>0 DEF setAuthParams, Same, ClientFields, Result
  <2> HIDE DEF r
  <2> QED  BY <2>1, ReadyKept DEF r
<1> QED  BY <1>1, <1>2

\* setConfirmationCode(): the hash of the new code, once the transaction is known.
LEMMA CodeReady ==
  ASSUME NEW c, NEW s, Ready(c, s), NEW transactionId, NEW code
  PROVE  /\ Ready(setTransactionId(c, transactionId).client, s)
         /\ setTransactionId(c, transactionId).client.transactionId = transactionId
         /\ Ready(setConfirmationCode(c, code).client, s)
         /\ c.transactionId # "" =>
              setConfirmationCode(c, code).client.confirmationCodeHash
                = computeConfirmationCodeHash(code, c.transactionId)
         /\ setConfirmationCode(c, code).client.transactionId = c.transactionId
<1>0. DOMAIN c = ClientFields
  BY DEF Ready
<1>1. /\ Ready(setTransactionId(c, transactionId).client, s)
      /\ setTransactionId(c, transactionId).client.transactionId = transactionId
  <2> DEFINE r == setTransactionId(c, transactionId)
  <2>1. Same(c, r.client) /\ r.client.eumCert = c.eumCert /\ r.client.euiccCert = c.euiccCert
        /\ r.client.transactionId = transactionId
    BY <1>0 DEF setTransactionId, Same, ClientFields, Result
  <2> HIDE DEF r
  <2> QED  BY <2>1, ReadyKept DEF r
<1>2. /\ Ready(setConfirmationCode(c, code).client, s)
      /\ c.transactionId # "" =>
              setConfirmationCode(c, code).client.confirmationCodeHash
                = computeConfirmationCodeHash(code, c.transactionId)
      /\ setConfirmationCode(c, code).client.transactionId = c.transactionId
  <2> DEFINE r == setConfirmationCode(c, code)
  <2>1. Same(c, r.client) /\ r.client.eumCert = c.eumCert /\ r.client.euiccCert = c.euiccCert
        /\ r.client.transactionId = c.transactionId
        /\ (c.transactionId # "" =>
              r.client.confirmationCodeHash = computeConfirmationCodeHash(code, c.transactionId))
    BY <1>0 DEF setConfirmationCode, Same, ClientFields, Result
  <2> HIDE DEF r
  <2> QED  BY <2>1, ReadyKept DEF r
<1> QED  BY <1>1, <1>2

\* generateEUICCOtpk() on a curve that has keys.
LEMMA OtpkReady ==
  ASSUME NEW c, NEW s, Ready(c, s), NEW n, s.curve \in {"NIST", "BRP"},
         getCurveOID(Euicc(s.curve)) = s.curve
  PROVE  LET d == generateEUICCOtpk(c, n).client IN
         /\ Ready(d, s) /\ d.euiccOtpk = OtKey("eUICC", s.curve, n)
         /\ d.transactionId = c.transactionId /\ d.confirmationCodeHash = c.confirmationCodeHash
<1> DEFINE d == generateEUICCOtpk(c, n).client
<1>1. DOMAIN c = ClientFields /\ c.euiccCert = Euicc(s.curve)
  BY DEF Ready
<1>2. getCertificateCurveNID(c.euiccCert) = s.curve
  BY <1>1 DEF getCertificateCurveNID, getCurveOID
<1>3. d = [c EXCEPT !.euiccOtpk = OtKey("eUICC", s.curve, n)]
  BY <1>2 DEF generateEUICCOtpk, Result
<1>4. /\ Same(c, d) /\ d.euiccCert = c.euiccCert /\ d.eumCert = c.eumCert
      /\ d.euiccOtpk = OtKey("eUICC", s.curve, n)
      /\ d.transactionId = c.transactionId /\ d.confirmationCodeHash = c.confirmationCodeHash
  <2> HIDE DEF d
  <2> QED  BY <1>1, <1>3 DEF Same, ClientFields
<1> HIDE DEF d
<1>5. Ready(d, s)
  BY <1>4, ReadyKept
<1> QED  BY <1>4, <1>5 DEF d

\* The getters and requests of a client that is there.
LEMMA Getters ==
  ASSUME NEW registry, NEW h \in DOMAIN registry
  PROVE  /\ ext_RSPClient_getConfirmationCodeHash(registry, h) = registry[h].confirmationCodeHash
         /\ ext_RSPClient_getEUICCOtpk(registry, h) = registry[h].euiccOtpk
         /\ ext_RSPClient_getEUICCCertificate(registry, h) = registry[h].euiccCert
         /\ ext_RSPClient_getEUMCertificate(registry, h) = registry[h].eumCert
         /\ ext_RSPClient_getCICertificate(registry, h) = getCICertificate(registry[h])
         /\ \A key : ext_RSPClient_computeSharedSecret(registry, h, key)
                       = computeECDHSharedSecret(registry[h], key)
  BY DEF ext_RSPClient_getConfirmationCodeHash, ext_RSPClient_getEUICCOtpk,
         ext_RSPClient_getEUICCCertificate, ext_RSPClient_getEUMCertificate,
         ext_RSPClient_getCICertificate, ext_RSPClient_computeSharedSecret, with_client, getClient

\* ext_RSPClient_verifyServerSignature() of what a key of its curve signed.
LEMMA ServerVerified ==
  ASSUME NEW registry, NEW h \in DOMAIN registry, NEW data, data # <<>>,
         NEW cert, cert # NoCert, cert.key.curve \in {"NIST", "BRP"}
  PROVE  ext_RSPClient_verifyServerSignature(registry, h, data, Sign(data, cert.key), cert)
<1>1. verifyServerSignature(data, Sign(data, cert.key), cert)
  BY SignatureHolds
<1> QED  BY <1>1 DEF ext_RSPClient_verifyServerSignature, with_client, getClient

\* The two ways to send a request return the status of a server that TLS accepts.
LEMMA Posted ==
  ASSUME NEW registry, NEW h \in DOMAIN registry, NEW cert, Trusts(registry[h], cert), NEW status
  PROVE  /\ ext_RSPClient_sendHttpsPost(registry, h, cert, status) = status
         /\ registry[h].useMutualTLS =>
              ext_RSPClient_sendHttpsPostWithAuth(registry, h, cert, status) = status
<1>1. sendHttpsPostUnified(registry[h], cert, status) = status
  BY Connects
<1> QED  BY <1>1 DEF ext_RSPClient_sendHttpsPost, ext_RSPClient_sendHttpsPostWithAuth,
              sendHttpsPost, sendHttpsPostWithAuth, with_client, getClient

\* The CI of a client that is ready is its root.
LEMMA ReadyCI ==
  ASSUME NEW c, NEW s, Ready(c, s), s.curve \in {"NIST", "BRP"},
         getCurveOID(Euicc(s.curve)) = s.curve
  PROVE  getCICertificate(c) = {c.rootCA}
<1>1. getCertificateCurveNID(c.euiccCert) = s.curve /\ getCertificateCurveNID(c.rootCA) = s.curve
  BY DEF Ready, getCertificateCurveNID, getCurveOID
<1> QED  BY <1>1 DEF getCICertificate

\* f_rsp_client_cleanup() leaves no client.
LEMMA Cleaned ==
  ASSUME NEW registry, NEW two,
         DOMAIN registry = {1} \/ (DOMAIN registry = {1, 2} /\ two = 2)
  PROVE  destroyClient(destroyClient(registry, 1), two) = <<>>
<1> DEFINE none == destroyClient(destroyClient(registry, 1), two)
           one == destroyClient(registry, 1)
<1>1. DOMAIN one = DOMAIN registry \ {1}
  BY DEF destroyClient
<1>2. none = [h \in DOMAIN one \ {two} |-> one[h]]
  BY DEF destroyClient
<1>3. DOMAIN one \ {two} = {}
  <2> HIDE DEF one
  <2> QED  BY <1>1
<1>4. none = [h \in {} |-> one[h]]
  <2> HIDE DEF one, none
  <2> QED  BY <1>2, <1>3
<1>5. 1..0 = {}
  OBVIOUS
<1>6. [h \in 1..0 |-> one[h]] = <<>>
  <2>1. [h \in 1..0 |-> one[h]] \in Seq({one[h] : h \in 1..0})
    <3> HIDE DEF one
    <3> QED  OBVIOUS
  <2> HIDE DEF one
  <2> QED  BY <2>1
<1> HIDE DEF one, none
<1>7. none = <<>>
  BY <1>4, <1>5, <1>6
<1> QED  BY <1>7 DEF none

-----------------------------------------------------------------------------
\* What each place of a test with an honest server on its curve has established.
Honest == server.honest /\ server.curve = ct.curve
Code(code) == computeConfirmationCodeHash(code, "t1")

Connected ==
  /\ ct.es9p = 1 /\ 1 \in DOMAIN clients /\ Ready(clients[1], server)
  /\ \/ DOMAIN clients = {1} /\ ct.es2p = -1
     \/ DOMAIN clients = {1, 2} /\ ct.es2p = 2
Offered ==
  LET otpk == OtKey("eUICC", ct.curve, 1)
      isc  == [transactionId |-> "t1", hostId |-> "host", wellFormed |-> TRUE,
               smdpOtpk |-> OtKey("DP", ct.curve, 1)]
  IN  /\ ct.request.euiccOtpk = otpk /\ clients[1].euiccOtpk = otpk /\ ct.isc.isc = isc
      /\ ct.isc.smdpSign = Sign(InitialiseSecureChannelRequest_ver("t1", isc, otpk), server.pb.key)

HonestPhase ==
  /\ pc = "init" => clients = <<>> /\ nextHandle = 1 /\ ct.es2p = -1
  /\ pc \notin {"init", "end"} => Connected
  /\ pc = "es2plus" => DOMAIN clients = {1} /\ nextHandle = 2
  /\ pc \in {"downloadOrder", "confirmOrder"} => ct.es2p = 2 /\ OrderReady(clients[2], server)
  /\ pc \in {"provision", "authenticate", "wrongCode", "package", "ecdh", "bsp"} =>
       ct.transactionId = "t1" /\ ct.serverCert = server.auth
  /\ pc \in {"wrongCode", "package", "ecdh", "bsp"} => ct.auok.smdpCertificate = server.pb
  /\ pc = "authenticate" /\ ct.test = "cc_retry" => CcRequired(ct.matchingId)
  /\ pc = "wrongCode" =>
       /\ CcRequired(ct.matchingId) /\ clients[1].transactionId = "t1"
       /\ clients[1].confirmationCodeHash = Code("00000000")
  /\ pc = "package" =>
       (CcRequired(ct.matchingId) => clients[1].confirmationCodeHash = Code("12345678"))
  /\ pc = "ecdh" => Offered
  /\ pc = "bsp" => tx.session.key = rx.session.key
  /\ HonestServerPasses

\* The inductive invariant.
HonestInv == FlowInv /\ MirrorInv /\ (Honest => HonestPhase)

-----------------------------------------------------------------------------
\* What every step starts from, with an honest server.
LEMMA HonestFacts ==
  ASSUME HonestInv, Honest
  PROVE  /\ HonestPhase /\ server \in Servers /\ DOMAIN ct = CtFields
         /\ ct.test \in {"complete_flow", "full_flow", "cc_retry"}
         /\ ct.curve = server.curve /\ server.curve \in {"NIST", "BRP"}
         /\ server.fault \in {"none", "ccRequired"} /\ server.honest
         /\ getCurveOID(Euicc(server.curve)) = server.curve
         /\ getEID(Euicc(server.curve)) = EIDs[1]
         /\ \A step \in {"initiate", "authenticate", "package", "downloadOrder", "confirmOrder"} :
              Status(step) = 200
<1>1. /\ HonestPhase /\ server \in Servers /\ DOMAIN ct = CtFields
      /\ ct.test \in {"complete_flow", "full_flow", "cc_retry"}
      /\ ct.curve = server.curve /\ ct.curve \in Curves /\ server.honest
  BY DEF HonestInv, FlowInv, Honest
<1>2. /\ server.curve \in {"NIST", "BRP"} /\ server.fault \in {"none", "ccRequired"}
      /\ Euicc(server.curve) # NoCert
  BY <1>1, HonestServer
<1>3. /\ getCurveOID(Euicc(server.curve)) = server.curve
      /\ getEID(Euicc(server.curve)) = EIDs[1]
  BY <1>1, <1>2, LayoutAssumption DEF Euicc
<1>4. \A step \in {"initiate", "authenticate", "package", "downloadOrder", "confirmOrder"} :
        Status(step) = 200
  BY <1>2 DEF Status
<1> QED  BY <1>1, <1>2, <1>3, <1>4

\* f_init_es9plus() with the files of the server's curve.
LEMMA HonestInit ==
  ASSUME HonestInv, Honest, f_init_es9plus
  PROVE  /\ pc' = IF ct.test = "full_flow" THEN "es2plus" ELSE "initiate"
         /\ ct' = [ct EXCEPT !.es9p = 1] /\ nextHandle' = 2
         /\ DOMAIN clients' = {1} /\ Ready(clients'[1], server)
         /\ UNCHANGED <<server, verdict, bspVars>> /\ pc = "init" /\ ct.es2p = -1
<1>1. pc = "init" /\ UNCHANGED bspVars /\ nextHandle' = nextHandle + 1
  BY DEF f_init_es9plus
<1>2. /\ clients = <<>> /\ nextHandle = 1 /\ ct.es2p = -1
      /\ server \in Servers /\ server.honest /\ ct.curve = server.curve
      /\ server.curve \in {"NIST", "BRP"}
  BY <1>1, HonestFacts DEF HonestPhase
<1> DEFINE s == ct.curve
           name == "CERT_EUICC_" \o s
           key == "SK_EUICC_" \o s
           dir == <<"sgp26", "eUICC">>
<1>3. PICK made \in createClient(clients, nextHandle, Issuer, s) :
       LET h  == made.handle
           r1 == ext_RSPClient_loadEUICCCertificate(made.clients, h, dir, name)
           r2 == ext_RSPClient_loadEUICCKeyPair(r1.clients, h, dir, key)
           r3 == ext_RSPClient_configureHttpClient(r2.clients, h, TRUE)
           c  == [ct EXCEPT !.es9p = h]
       IN  IF h < 0 THEN Stop("fail", c, made.clients)
           ELSE IF r1.rc # 0 \/ r2.rc # 0 \/ r3.rc # 0
           THEN f_rsp_client_cleanup("none", c, r3.clients)
           ELSE Goto(IF ct.test = "full_flow" THEN "es2plus" ELSE "initiate", c, r3.clients)
  BY DEF f_init_es9plus
<1>4. PICK ci : /\ TestCI(ci, s) /\ TestEuicc(ci, s)
                /\ \A cert \in {server.tls, server.auth, server.pb} : cert.current /\ Issued(ci, cert)
  BY <1>2, HonestAssumption
<1>5. \A d \in {"EUM", "DPtls"} : find_cert_files(<<"sgp26", d>>, {}) # {}
  BY <1>2, HonestAssumption
<1>6. /\ made.handle = 1 /\ DOMAIN made.clients = DOMAIN clients \cup {1}
      /\ LET c == made.clients[1] IN
         /\ DOMAIN c = ClientFields /\ c.rootCA = ci /\ ci \in c.certPool
         /\ c.euiccCert = Euicc(s) /\ c.eumCert = Eum(s)
  <2>1. s \in {"NIST", "BRP"} /\ Issuer \in {Issuer, <<"sgp26">>} /\ nextHandle = 1
    BY <1>2
  <2>2. made \in createClient(clients, 1, Issuer, s)
    BY <2>1
  <2> HIDE DEF s
  <2> QED  BY <1>4, <1>5, <2>1, <2>2, ClientMade
<1>7. DOMAIN made.clients = {1}
  BY <1>2, <1>6
<1>8. Ready(made.clients[1], server)
  <2>1. \A cert \in {server.tls, server.auth, server.pb, Eum(s)} : cert.current /\ Issued(ci, cert)
    BY <1>4 DEF TestEuicc, Eum
  <2>2. s = server.curve
    BY <1>2
  <2>3. SelfSigned(ci) /\ ci.ca /\ ci.current /\ getCurveOID(ci) = s
    BY <1>4 DEF TestCI
  <2> HIDE DEF s
  <2> QED  BY <1>6, <2>1, <2>2, <2>3 DEF Ready, Trusts
<1> DEFINE r1 == ext_RSPClient_loadEUICCCertificate(made.clients, 1, dir, name)
           r2 == ext_RSPClient_loadEUICCKeyPair(r1.clients, 1, dir, key)
           r3 == ext_RSPClient_configureHttpClient(r2.clients, 1, TRUE)
           m1 == loadEUICCCertificate(made.clients[1], dir, name)
           m2 == loadEUICCKeyPair(r1.clients[1], dir, key)
           m3 == configureHttpClient(r2.clients[1], TRUE)
<1>9. r1.rc = 0 /\ DOMAIN r1.clients = {1} /\ Ready(r1.clients[1], server)
  <2>1. DOMAIN made.clients[1] = ClientFields /\ made.clients[1].euiccCert = Euicc(s)
    BY <1>2, <1>8 DEF Ready
  <2>2. xx_loadCertificate(dir, name) = Euicc(s) /\ Euicc(s) # NoCert
    BY <1>2, HonestServer DEF Euicc
  <2>3. m1.ok /\ Same(made.clients[1], m1.client) /\ m1.client.euiccCert = Euicc(s)
        /\ m1.client.eumCert = made.clients[1].eumCert
    <3> HIDE DEF dir, name
    <3> QED  BY <2>1, <2>2, LoadersSet
  <2>4. Ready(m1.client, server)
    <3> HIDE DEF m1
    <3> QED  BY <1>8, <2>1, <2>3, ReadyKept
  <2>5. r1 = client_loader(made.clients, 1, m1)
    BY DEF ext_RSPClient_loadEUICCCertificate
  <2> HIDE DEF r1, m1
  <2>6. 1 \in DOMAIN made.clients
    BY <1>7
  <2>7. /\ m1.ok => r1.rc = 0
        /\ DOMAIN r1.clients = DOMAIN made.clients /\ r1.clients[1] = m1.client
    BY <2>5, <2>6 DEF client_loader, getClient
  <2> QED  BY <1>7, <2>3, <2>4, <2>5, <2>7
<1>10. r2.rc = 0 /\ DOMAIN r2.clients = {1} /\ Ready(r2.clients[1], server)
  <2>1. DOMAIN r1.clients[1] = ClientFields
    BY <1>9 DEF Ready
  <2>2. xx_loadPrivateKey(dir, key, NoKey).ok
    BY <1>4 DEF TestEuicc
  <2>3. m2.ok /\ Same(r1.clients[1], m2.client) /\ m2.client.euiccCert = r1.clients[1].euiccCert
        /\ m2.client.eumCert = r1.clients[1].eumCert
    <3> HIDE DEF dir, key, r1
    <3> QED  BY <2>1, <2>2, LoadersSet
  <2>4. Ready(m2.client, server)
    <3> HIDE DEF m2, r1
    <3> QED  BY <1>9, <2>3, ReadyKept
  <2>5. r2 = client_loader(r1.clients, 1, m2)
    BY DEF ext_RSPClient_loadEUICCKeyPair
  <2> HIDE DEF r1, r2, m2
  <2>6. 1 \in DOMAIN r1.clients
    BY <1>9
  <2>7. /\ m2.ok => r2.rc = 0
        /\ DOMAIN r2.clients = DOMAIN r1.clients /\ r2.clients[1] = m2.client
    BY <2>5, <2>6 DEF client_loader, getClient
  <2> QED  BY <1>9, <2>3, <2>4, <2>5, <2>7
<1>11. r3.rc = 0 /\ DOMAIN r3.clients = {1} /\ Ready(r3.clients[1], server)
  <2>1. m3.ok /\ Ready(m3.client, server)
    <3> HIDE DEF r2
    <3> QED  BY <1>10, SettingsReady
  <2>2. r3 = client_loader(r2.clients, 1, m3)
    BY DEF ext_RSPClient_configureHttpClient
  <2> HIDE DEF r2, r3, m3
  <2>6. 1 \in DOMAIN r2.clients
    BY <1>10
  <2>7. /\ m3.ok => r3.rc = 0
        /\ DOMAIN r3.clients = DOMAIN r2.clients /\ r3.clients[1] = m3.client
    BY <2>2, <2>6 DEF client_loader, getClient
  <2> QED  BY <1>10, <2>1, <2>2, <2>7
<1>12. Goto(IF ct.test = "full_flow" THEN "es2plus" ELSE "initiate", [ct EXCEPT !.es9p = 1], r3.clients)
  <2>1. ~(1 < 0)
    OBVIOUS
  <2> DEFINE h  == made.handle
             q1 == ext_RSPClient_loadEUICCCertificate(made.clients, h, dir, name)
             q2 == ext_RSPClient_loadEUICCKeyPair(q1.clients, h, dir, key)
             q3 == ext_RSPClient_configureHttpClient(q2.clients, h, TRUE)
  <2>2. h = 1 /\ q1 = r1 /\ q2 = r2 /\ q3 = r3
    <3> HIDE DEF dir, name, key
    <3> QED  BY <1>6
  <2>3. IF h < 0 THEN Stop("fail", [ct EXCEPT !.es9p = h], made.clients)
        ELSE IF q1.rc # 0 \/ q2.rc # 0 \/ q3.rc # 0
        THEN f_rsp_client_cleanup("none", [ct EXCEPT !.es9p = h], q3.clients)
        ELSE Goto(IF ct.test = "full_flow" THEN "es2plus" ELSE "initiate",
                  [ct EXCEPT !.es9p = h], q3.clients)
    BY <1>3
  <2> HIDE DEF h, q1, q2, q3, r1, r2, r3
  <2> QED  BY <1>9, <1>10, <1>11, <2>1, <2>2, <2>3
<1> HIDE DEF r3
<1> QED  BY <1>1, <1>2, <1>11, <1>12 DEF Goto

\* f_init_es2plus(): a second client, with the files of NIST and the client certificate on.
LEMMA HonestEs2plus ==
  ASSUME HonestInv, Honest, f_init_es2plus
  PROVE  HonestPhase' /\ UNCHANGED server /\ ct'.curve = ct.curve
<1>1. pc = "es2plus" /\ UNCHANGED bspVars
  BY DEF f_init_es2plus
<1>2. /\ HonestPhase /\ server \in Servers /\ server.honest /\ DOMAIN ct = CtFields
      /\ ct.curve = server.curve
  BY HonestFacts
<1>3. ct.es9p = 1 /\ DOMAIN clients = {1} /\ Ready(clients[1], server) /\ nextHandle = 2
  BY <1>1, <1>2 DEF HonestPhase, Connected
<1>4. PICK made \in createClient(clients, nextHandle, <<"sgp26">>, "NIST") :
       LET r == ext_RSPClient_setAuthParams(made.clients, made.handle, TRUE)
           c == [ct EXCEPT !.es2p = made.handle]
       IN  IF made.handle < 0 \/ r.rc # 0 THEN Stop("fail", c, r.clients)
           ELSE Goto("downloadOrder", c, r.clients)
  BY DEF f_init_es2plus
<1>5. PICK ci : TestCI(ci, "NIST") /\ TestEuicc(ci, "NIST") /\ server.es2tls.current
                /\ Issued(ci, server.es2tls)
  BY <1>2, HonestAssumption
<1>6. \A d \in {"EUM", "DPtls"} : find_cert_files(<<"sgp26", d>>, {}) # {}
  BY <1>2, HonestAssumption
<1> DEFINE c2 == made.clients[2]
<1>7. /\ made.handle = 2 /\ DOMAIN made.clients = DOMAIN clients \cup {2}
      /\ \A h \in DOMAIN clients \ {2} : made.clients[h] = clients[h]
      /\ DOMAIN c2 = ClientFields /\ c2.rootCA = ci /\ ci \in c2.certPool
  <2>1. made \in createClient(clients, 2, <<"sgp26">>, "NIST")
    BY <1>3
  <2>2. <<"sgp26">> \in {Issuer, <<"sgp26">>} /\ "NIST" \in {"NIST", "BRP"}
    OBVIOUS
  <2> QED  BY <1>5, <1>6, <2>1, <2>2, ClientMade
<1>8. DOMAIN made.clients = {1, 2} /\ made.clients[1] = clients[1]
  BY <1>3, <1>7
<1> DEFINE r == ext_RSPClient_setAuthParams(made.clients, 2, TRUE)
           d2 == setAuthParams(c2, TRUE).client
<1>9. OrderReady(d2, server)
  <2>1. d2 = [c2 EXCEPT !.useMutualTLS = TRUE]
    BY DEF setAuthParams, Result
  <2>2. DOMAIN d2 = ClientFields /\ d2.useMutualTLS /\ d2.rootCA = ci /\ ci \in d2.certPool
    <3> HIDE DEF c2, d2
    <3> QED  BY <1>7, <2>1 DEF ClientFields
  <2>3. SelfSigned(ci) /\ ci.ca /\ ci.current
    BY <1>5 DEF TestCI
  <2> HIDE DEF d2
  <2> QED  BY <1>5, <2>2, <2>3 DEF OrderReady, Trusts
<1>10. /\ r.rc = 0 /\ DOMAIN r.clients = {1, 2} /\ r.clients[1] = clients[1]
       /\ OrderReady(r.clients[2], server)
  <2>1. r = client_loader(made.clients, 2, setAuthParams(c2, TRUE))
    BY DEF ext_RSPClient_setAuthParams
  <2>2. setAuthParams(c2, TRUE).ok
    BY DEF setAuthParams, Result
  <2>3. 2 \in DOMAIN made.clients
    BY <1>8
  <2>4. r = [rc |-> 0, clients |-> [made.clients EXCEPT ![2] = d2]]
    BY <2>1, <2>2, <2>3 DEF client_loader, getClient
  <2> HIDE DEF r, d2
  <2> QED  BY <1>8, <1>9, <2>4
<1>11. Goto("downloadOrder", [ct EXCEPT !.es2p = 2], r.clients)
  <2> DEFINE q == ext_RSPClient_setAuthParams(made.clients, made.handle, TRUE)
  <2>1. q = r /\ made.handle = 2 /\ ~(made.handle < 0)
    BY <1>7
  <2>2. IF made.handle < 0 \/ q.rc # 0 THEN Stop("fail", [ct EXCEPT !.es2p = made.handle], q.clients)
        ELSE Goto("downloadOrder", [ct EXCEPT !.es2p = made.handle], q.clients)
    BY <1>4
  <2> HIDE DEF q, r
  <2> QED  BY <1>10, <2>1, <2>2
<1> HIDE DEF r
<1>12. /\ pc' = "downloadOrder" /\ clients' = r.clients /\ UNCHANGED <<server, verdict>>
       /\ ct'.es2p = 2 /\ ct'.es9p = 1 /\ ct'.curve = ct.curve
  BY <1>2, <1>3, <1>11 DEF Goto, CtFields
<1> QED  BY <1>3, <1>10, <1>12 DEF HonestPhase, Connected, HonestServerPasses

\* The two requests on ES2+.
LEMMA HonestOrders ==
  ASSUME HonestInv, Honest, DownloadOrder \/ ConfirmOrder
  PROVE  HonestPhase' /\ UNCHANGED server /\ ct'.curve = ct.curve
<1>1. pc \in {"downloadOrder", "confirmOrder"}
  BY DEF DownloadOrder, ConfirmOrder, Order
<1>2. /\ HonestPhase /\ Connected /\ ct.es2p = 2 /\ OrderReady(clients[2], server)
      /\ DOMAIN ct = CtFields
  BY <1>1, HonestFacts DEF HonestPhase
<1>3. \A step \in {"downloadOrder", "confirmOrder"} :
        ext_RSPClient_sendHttpsPostWithAuth(clients, ct.es2p, server.es2tls, Status(step)) = 200
  <2>1. 2 \in DOMAIN clients /\ Trusts(clients[2], server.es2tls) /\ clients[2].useMutualTLS
    BY <1>2 DEF Connected, OrderReady
  <2>2. Status("downloadOrder") = 200 /\ Status("confirmOrder") = 200
    BY HonestFacts DEF Status
  <2>3. ext_RSPClient_sendHttpsPostWithAuth(clients, 2, server.es2tls, 200) = 200
    BY <2>1, Posted
  <2> QED  BY <1>2, <2>2, <2>3
<1>4. \/ pc' = "confirmOrder" /\ ct' = ct
      \/ pc' = "initiate" /\ ct' = [ct EXCEPT !.matchingId = "m1"]
  BY <1>3 DEF DownloadOrder, ConfirmOrder, Order, Goto
<1>5. UNCHANGED <<server, clients, verdict>>
  BY <1>3 DEF DownloadOrder, ConfirmOrder, Order, Goto
<1>6. /\ ct'.es2p = 2 /\ ct'.es9p = ct.es9p /\ ct'.curve = ct.curve
  BY <1>2, <1>4 DEF CtFields
<1> QED  BY <1>2, <1>4, <1>5, <1>6 DEF HonestPhase, Connected, HonestServerPasses

\* The ES9+ client answers, and TLS accepts this server, in every later place.
LEMMA HonestClient ==
  ASSUME HonestInv, Honest, pc \notin {"init", "end"}
  PROVE  /\ HonestPhase /\ Connected /\ ct.es9p = 1 /\ 1 \in DOMAIN clients
         /\ Ready(clients[1], server)
         /\ \A step \in {"initiate", "authenticate", "package"} :
              ext_RSPClient_sendHttpsPost(clients, ct.es9p, server.tls, Status(step)) = 200
<1>1. HonestPhase
  BY HonestFacts
<1>2. Connected /\ ct.es9p = 1 /\ 1 \in DOMAIN clients /\ Ready(clients[1], server)
  BY <1>1 DEF HonestPhase, Connected
<1>3. Trusts(clients[1], server.tls)
  BY <1>2 DEF Ready
<1>4. ext_RSPClient_sendHttpsPost(clients, 1, server.tls, 200) = 200
  BY <1>2, <1>3, Posted
<1>5. \A step \in {"initiate", "authenticate", "package"} : Status(step) = 200
  BY HonestFacts DEF Status
<1> QED  BY <1>1, <1>2, <1>4, <1>5

\* What the server signs with its two keys is verified through the ES9+ client.
LEMMA HonestSigned ==
  ASSUME HonestInv, Honest, pc \notin {"init", "end"}, NEW data, data # <<>>,
         NEW cert \in {server.auth, server.pb}
  PROVE  ext_RSPClient_verifyServerSignature(clients, ct.es9p, data, Sign(data, cert.key), cert)
<1>1. cert # NoCert /\ cert.key.curve \in {"NIST", "BRP"}
  BY HonestFacts, HonestServer
<1>2. ct.es9p = 1 /\ 1 \in DOMAIN clients
  BY HonestClient
<1>3. ext_RSPClient_verifyServerSignature(clients, 1, data, Sign(data, cert.key), cert)
  BY <1>1, <1>2, ServerVerified
<1> QED  BY <1>2, <1>3

\* InitiateAuthentication: the answer is what was asked for.
LEMMA HonestInitiate ==
  ASSUME HonestInv, Honest, InitiateAuthentication
  PROVE  HonestPhase' /\ UNCHANGED server /\ ct'.curve = ct.curve
<1> DEFINE ok == InitiateAuthenticationOk("c1")
           c  == [ct EXCEPT !.euiccChallenge = "c1", !.transactionId = ok.transactionId,
                            !.serverCert = ok.serverCertificate,
                            !.serverChallenge = ok.serverSigned1.serverChallenge]
           d  == IF ct.test = "cc_retry" THEN [c EXCEPT !.matchingId = "CC_REQUIRED_TEST"] ELSE c
<1>1. pc = "initiate" /\ HonestPhase /\ Connected
  BY HonestClient DEF InitiateAuthentication
<1>2. /\ DOMAIN ct = CtFields /\ ct.curve = server.curve
      /\ ct.test \in {"complete_flow", "full_flow", "cc_retry"}
      /\ server.fault \in {"none", "ccRequired"}
  BY HonestFacts
<1>3. /\ ok.transactionId = "t1" /\ ok.serverCertificate = server.auth
      /\ ok.serverSigned1 = [transactionId |-> "t1", serverChallenge |-> "s1",
                             euiccChallenge |-> "c1"]
      /\ ok.serverSignature1 = Sign(ServerSigned1(ok.serverSigned1), server.auth.key)
      /\ ok.euiccCiPKIdToBeUsed = [owner |-> "CI", curve |-> server.curve]
  BY <1>2 DEF InitiateAuthenticationOk, Transaction
<1> HIDE DEF ok
<1>4. /\ c.euiccChallenge = "c1" /\ c.transactionId = "t1" /\ c.serverCert = server.auth
      /\ c.es9p = ct.es9p /\ c.es2p = ct.es2p /\ c.curve = ct.curve /\ c.test = ct.test
      /\ DOMAIN c = CtFields
  BY <1>2, <1>3 DEF CtFields
<1> HIDE DEF c
<1>5. InitiateValid(c, ok)
  <2> DEFINE data == ServerSigned1(ok.serverSigned1)
  <2>1. data # <<>>
    BY DEF ServerSigned1
  <2>2. ext_RSPClient_verifyServerSignature(clients, ct.es9p, data, Sign(data, server.auth.key),
                                            server.auth)
    <3> HIDE DEF data
    <3> QED  BY <1>1, <2>1, HonestSigned
  <2> QED  BY <1>3, <1>4, <2>2 DEF InitiateValid
<1>6. ok.euiccCiPKIdToBeUsed \in f_get_ci_pkids_list(ct.curve)
  BY <1>2, <1>3 DEF f_get_ci_pkids_list
<1>7. ext_RSPClient_sendHttpsPost(clients, ct.es9p, server.tls, Status("initiate")) = 200
  BY <1>1, HonestClient
<1>8. IF ext_RSPClient_sendHttpsPost(clients, ct.es9p, server.tls, Status("initiate")) # 200
      THEN Stop("error", [ct EXCEPT !.euiccChallenge = "c1"], clients)
      ELSE IF ~InitiateValid(c, ok) THEN f_fail_and_cleanup(c)
      ELSE IF ct.test = "complete_flow"
              /\ ok.euiccCiPKIdToBeUsed \notin f_get_ci_pkids_list(ct.curve)
      THEN Stop("fail", c, clients)
      ELSE Goto(IF ct.test = "complete_flow" THEN "provision" ELSE "authenticate", d, clients)
  BY DEF InitiateAuthentication, c, ok
<1>9. Goto(IF ct.test = "complete_flow" THEN "provision" ELSE "authenticate", d, clients)
  <2> HIDE DEF d
  <2> QED  BY <1>5, <1>6, <1>7, <1>8
<1>10. /\ d.transactionId = "t1" /\ d.serverCert = server.auth
       /\ d.es9p = ct.es9p /\ d.es2p = ct.es2p /\ d.curve = ct.curve /\ d.test = ct.test
       /\ ct.test = "cc_retry" => d.matchingId = "CC_REQUIRED_TEST"
  BY <1>4 DEF CtFields
<1> HIDE DEF d
<1>11. /\ pc' \in {"provision", "authenticate"} /\ ct' = d
       /\ UNCHANGED <<server, clients, verdict>>
  BY <1>9 DEF Goto
<1>12. ct.test = "cc_retry" => CcRequired(ct.matchingId)'
  BY <1>10, <1>11 DEF CcRequired
<1> QED  BY <1>1, <1>10, <1>11, <1>12 DEF HonestPhase, Connected, HonestServerPasses

\* f_provision_profile_via_es2plus(): whatever the answer, the test goes on.
LEMMA HonestProvision ==
  ASSUME HonestInv, Honest, ProvisionProfile
  PROVE  HonestPhase' /\ UNCHANGED server /\ ct'.curve = ct.curve
<1> DEFINE r == ext_RSPClient_setAuthParams(clients, ct.es9p, TRUE)
           status == ext_RSPClient_sendHttpsPostWithAuth(r.clients, ct.es2p, server.es2tls, 200)
           d == [ct EXCEPT !.matchingId = IF status # 200 THEN "" ELSE "m1"]
<1>1. /\ pc = "provision" /\ HonestPhase /\ Connected /\ ct.es9p = 1 /\ 1 \in DOMAIN clients
      /\ Ready(clients[1], server) /\ ct.transactionId = "t1" /\ ct.serverCert = server.auth
  BY HonestClient DEF ProvisionProfile, HonestPhase
<1>2. DOMAIN ct = CtFields /\ ct.test = "complete_flow"
  BY <1>1, HonestFacts DEF HonestInv, FlowInv
<1>3. /\ r.rc = 0 /\ DOMAIN r.clients = DOMAIN clients /\ Ready(r.clients[1], server)
  <2> DEFINE s == setAuthParams(clients[1], TRUE)
  <2>1. r = client_loader(clients, 1, s)
    BY <1>1 DEF ext_RSPClient_setAuthParams
  <2>2. s.ok /\ Ready(s.client, server)
    BY <1>1, SettingsReady
  <2> HIDE DEF s
  <2>3. r = [rc |-> 0, clients |-> [clients EXCEPT ![1] = s.client]]
    BY <1>1, <2>1, <2>2 DEF client_loader, getClient
  <2> HIDE DEF r
  <2> QED  BY <1>1, <2>2, <2>3
<1>4. IF r.rc # 0 THEN Stop("fail", ct, r.clients) ELSE Goto("authenticate", d, r.clients)
  BY DEF ProvisionProfile
<1> HIDE DEF r
<1>5. /\ d.transactionId = "t1" /\ d.serverCert = server.auth /\ d.test = ct.test
      /\ d.es9p = ct.es9p /\ d.es2p = ct.es2p /\ d.curve = ct.curve
  BY <1>1, <1>2 DEF CtFields
<1> HIDE DEF d
<1>6. /\ pc' = "authenticate" /\ ct' = d /\ clients' = r.clients /\ UNCHANGED <<server, verdict>>
  BY <1>3, <1>4 DEF Goto
<1> QED  BY <1>1, <1>2, <1>3, <1>5, <1>6 DEF HonestPhase, Connected, HonestServerPasses

\* The confirmation code set for the transaction, whatever was set before.
LEMMA Coded ==
  ASSUME NEW registry, 1 \in DOMAIN registry, NEW s, Ready(registry[1], s), NEW code
  PROVE  LET after == WithCode(registry, 1, "t1", code) IN
         /\ DOMAIN after = DOMAIN registry /\ Ready(after[1], s)
         /\ after[1].transactionId = "t1" /\ after[1].confirmationCodeHash = Code(code)
<1> DEFINE first == setTransactionId(registry[1], "t1")
           set   == [registry EXCEPT ![1] = first.client]
           last  == setConfirmationCode(set[1], code)
           after == WithCode(registry, 1, "t1", code)
<1>1. ext_RSPClient_setTransactionId(registry, 1, "t1").clients = set
  BY DEF ext_RSPClient_setTransactionId, client_loader, getClient
<1>2. Ready(first.client, s) /\ first.client.transactionId = "t1"
  <2> DEFINE c == registry[1]
  <2>1. Ready(c, s)
    OBVIOUS
  <2> HIDE DEF c
  <2>2. /\ Ready(setTransactionId(c, "t1").client, s)
        /\ setTransactionId(c, "t1").client.transactionId = "t1"
    BY <2>1, CodeReady
  <2> QED  BY <2>2 DEF c
<1>3. DOMAIN set = DOMAIN registry /\ set[1] = first.client
  <2> HIDE DEF first
  <2> QED  OBVIOUS
<1> HIDE DEF set, first
<1>4. /\ Ready(last.client, s) /\ last.client.transactionId = "t1"
      /\ last.client.confirmationCodeHash = Code(code)
  <2>1. Ready(set[1], s) /\ set[1].transactionId = "t1" /\ set[1].transactionId # ""
    BY <1>2, <1>3
  <2>2. /\ Ready(setConfirmationCode(set[1], code).client, s)
        /\ set[1].transactionId # "" =>
             setConfirmationCode(set[1], code).client.confirmationCodeHash
               = computeConfirmationCodeHash(code, set[1].transactionId)
        /\ setConfirmationCode(set[1], code).client.transactionId = set[1].transactionId
    BY <2>1, CodeReady
  <2> QED  BY <2>1, <2>2 DEF Code
<1>5. after = [set EXCEPT ![1] = last.client]
  <2>1. after = ext_RSPClient_setConfirmationCode(set, 1, code).clients
    BY <1>1 DEF WithCode
  <2>2. 1 \in DOMAIN set
    BY <1>3
  <2> HIDE DEF after
  <2> QED  BY <2>1, <2>2 DEF ext_RSPClient_setConfirmationCode, client_loader, getClient
<1> HIDE DEF after, last
<1>6. /\ DOMAIN after = DOMAIN registry /\ Ready(after[1], s)
      /\ after[1].transactionId = "t1" /\ after[1].confirmationCodeHash = Code(code)
  BY <1>3, <1>4, <1>5
<1> QED  BY <1>6 DEF after

\* AuthenticateClient: the code is set for the transaction if the server wants one.
LEMMA HonestAuthenticate ==
  ASSUME HonestInv, Honest, AuthenticateClient
  PROVE  HonestPhase' /\ UNCHANGED server /\ ct'.curve = ct.curve
<1> DEFINE sig == ext_RSPClient_signDataWithEUICC(clients, ct.es9p, EuiccSigned1(ct))
           ok  == AuthenticateClientOk(ct.matchingId, sig)
           c   == [ct EXCEPT !.auok = ok]
           coded == WithCode(clients, ct.es9p, ct.transactionId, "12345678")
           wrong == WithCode(clients, ct.es9p, ct.transactionId, "00000000")
           cc == CcRequired(ct.matchingId)
           registry == IF cc THEN coded ELSE clients
<1>1. /\ pc = "authenticate" /\ HonestPhase /\ Connected /\ ct.es9p = 1 /\ 1 \in DOMAIN clients
      /\ Ready(clients[1], server) /\ ct.transactionId = "t1" /\ ct.serverCert = server.auth
      /\ ct.test = "cc_retry" => cc
  BY HonestClient DEF AuthenticateClient, HonestPhase
<1>2. /\ DOMAIN ct = CtFields /\ ct.curve = server.curve /\ server \in Servers /\ server.honest
      /\ ct.test \in {"complete_flow", "full_flow", "cc_retry"}
      /\ server.fault \in {"none", "ccRequired"}
  BY HonestFacts
<1>3. /\ ok.transactionId = "t1" /\ ok.smdpSigned2 = [transactionId |-> "t1", ccRequiredFlag |-> cc]
      /\ ok.smdpSignature2 = Sign(SmdpSigned2(ok.smdpSigned2, sig), server.pb.key)
      /\ ok.smdpCertificate = server.pb
  <2> HIDE DEF sig
  <2> QED  BY <1>2 DEF AuthenticateClientOk
<1>4. ok.smdpSigned2.transactionId = "t1" /\ (ok.smdpSigned2.ccRequiredFlag <=> cc)
  <2> HIDE DEF ok
  <2>1. ok.smdpSigned2.transactionId = "t1"
    BY <1>3
  <2>2. ok.smdpSigned2.ccRequiredFlag = cc
    BY <1>3
  <2> QED  BY <2>1, <2>2
<1>5. AuthenticateClientValid(ok, sig)
  <2> DEFINE data == SmdpSigned2(ok.smdpSigned2, sig)
  <2>1. data # <<>>
    BY DEF SmdpSigned2
  <2> HIDE DEF data, ok, sig
  <2>2. ext_RSPClient_verifyServerSignature(clients, ct.es9p, data, Sign(data, server.pb.key),
                                            server.pb)
    BY <1>1, <2>1, HonestSigned
  <2> QED  BY <1>1, <1>3, <1>4, <2>2 DEF AuthenticateClientValid, data
<1>6. validateEIDRange(getEID(EuiccDer), EumDer)
  <2>1. EuiccDer = Euicc(server.curve) /\ EumDer = Eum(server.curve)
    BY <1>1, Getters DEF EuiccDer, EumDer, Ready
  <2> QED  BY <1>2, <2>1, HonestServer
<1>7. f_validate_certificate_roles(ct.serverCert, ok.smdpCertificate)
  BY <1>1, <1>2, <1>3, HonestServer DEF f_validate_certificate_roles, hasRSPRole
<1>8. ext_RSPClient_sendHttpsPost(clients, ct.es9p, server.tls, Status("authenticate")) = 200
  BY <1>1, HonestClient
<1>9. \/ ct.test # "cc_retry" /\ Goto("package", c, registry)
      \/ ct.test = "cc_retry" /\ Goto("wrongCode", c, wrong)
  <2>1. CASE ct.test = "complete_flow"
    BY <1>4, <1>5, <1>6, <1>7, <1>8, <2>1 DEF AuthenticateClient
  <2>2. CASE ct.test = "full_flow"
    BY <1>1, <1>3, <1>4, <1>8, <2>2 DEF AuthenticateClient
  <2>3. CASE ct.test = "cc_retry"
    BY <1>1, <1>4, <1>8, <2>3 DEF AuthenticateClient
  <2> QED  BY <1>2, <2>1, <2>2, <2>3
<1>10. /\ DOMAIN registry = DOMAIN clients /\ Ready(registry[1], server)
       /\ cc => registry[1].confirmationCodeHash = Code("12345678")
  <2>1. DOMAIN coded = DOMAIN clients /\ Ready(coded[1], server)
        /\ coded[1].confirmationCodeHash = Code("12345678")
    BY <1>1, Coded
  <2> HIDE DEF coded
  <2> QED  BY <1>1, <2>1
<1>11. /\ DOMAIN wrong = DOMAIN clients /\ Ready(wrong[1], server)
       /\ wrong[1].transactionId = "t1" /\ wrong[1].confirmationCodeHash = Code("00000000")
  BY <1>1, Coded
<1>12. /\ c.auok = ok /\ c.transactionId = "t1" /\ c.serverCert = server.auth
       /\ c.es9p = 1 /\ c.es2p = ct.es2p /\ c.curve = ct.curve /\ c.test = ct.test
       /\ c.matchingId = ct.matchingId
  <2> HIDE DEF ok
  <2> QED  BY <1>1, <1>2 DEF CtFields
<1> HIDE DEF ok, c, registry, wrong, coded
<1>13. /\ pc' \in {"package", "wrongCode"} /\ ct' = c /\ UNCHANGED <<server, verdict>>
       /\ pc' = "package" => clients' = registry
       /\ pc' = "wrongCode" => clients' = wrong /\ cc
  BY <1>1, <1>9 DEF Goto
<1>14. cc' <=> cc
  BY <1>12, <1>13 DEF CcRequired
<1>15. Connected'
  BY <1>1, <1>10, <1>11, <1>12, <1>13 DEF Connected
<1>16. ct'.transactionId = "t1" /\ ct'.serverCert = server.auth /\ ct'.auok.smdpCertificate = server.pb
  BY <1>3, <1>12, <1>13
<1> QED  BY <1>10, <1>11, <1>12, <1>13, <1>14, <1>15, <1>16 DEF HonestPhase, HonestServerPasses

\* The request for the package: a new one-time key, and the hash of the code.
LEMMA HonestRequest ==
  ASSUME HonestInv, Honest, pc \notin {"init", "end"}
  PROVE  LET otpk == OtKey("eUICC", server.curve, ct.otpks + 1) IN
         /\ DOMAIN NewOtpk = DOMAIN clients /\ Ready(NewOtpk[1], server)
         /\ NewOtpk[1].euiccOtpk = otpk
         /\ NewOtpk[1].transactionId = clients[1].transactionId
         /\ PackageRequest(NewOtpk).euiccOtpk = otpk
         /\ PackageRequest(NewOtpk).hashCc = clients[1].confirmationCodeHash
<1>1. ct.es9p = 1 /\ 1 \in DOMAIN clients /\ Ready(clients[1], server)
  BY HonestClient
<1>2. server.curve \in {"NIST", "BRP"} /\ getCurveOID(Euicc(server.curve)) = server.curve
  BY HonestFacts
<1> DEFINE n == ct.otpks + 1
           otpk == OtKey("eUICC", server.curve, n)
           called == generateEUICCOtpk(clients[1], n)
<1>3. NewOtpk = [clients EXCEPT ![1] = called.client]
  BY <1>1 DEF NewOtpk, ext_RSPClient_generateEUICCOtpk, client_loader, getClient
<1>4. /\ Ready(called.client, server) /\ called.client.euiccOtpk = otpk
      /\ called.client.transactionId = clients[1].transactionId
      /\ called.client.confirmationCodeHash = clients[1].confirmationCodeHash
  <2> DEFINE c == clients[1]
  <2>1. Ready(c, server)
    BY <1>1
  <2> HIDE DEF c, n
  <2> QED  BY <1>2, <2>1, OtpkReady DEF c
<1> HIDE DEF called, otpk, n
<1>5. /\ DOMAIN NewOtpk = DOMAIN clients /\ NewOtpk[1] = called.client
  BY <1>1, <1>3
<1>6. /\ PackageRequest(NewOtpk).euiccOtpk = ext_RSPClient_getEUICCOtpk(NewOtpk, 1)
      /\ PackageRequest(NewOtpk).hashCc = ext_RSPClient_getConfirmationCodeHash(NewOtpk, 1)
  BY <1>1 DEF PackageRequest
<1>7. /\ ext_RSPClient_getEUICCOtpk(NewOtpk, 1) = NewOtpk[1].euiccOtpk
      /\ ext_RSPClient_getConfirmationCodeHash(NewOtpk, 1) = NewOtpk[1].confirmationCodeHash
  BY <1>1, <1>5, Getters
<1> QED  BY <1>4, <1>5, <1>6, <1>7 DEF otpk, n

\* The wrong code is refused, and the right one takes its place.
LEMMA HonestWrongCode ==
  ASSUME HonestInv, Honest, WrongCode
  PROVE  HonestPhase' /\ UNCHANGED server /\ ct'.curve = ct.curve
<1> DEFINE request == PackageRequest(NewOtpk)
           c == [ct EXCEPT !.otpks = @ + 1, !.request = request]
           new == ext_RSPClient_setConfirmationCode(NewOtpk, ct.es9p, "12345678").clients
<1>1. /\ pc = "wrongCode" /\ HonestPhase /\ Connected /\ ct.es9p = 1 /\ 1 \in DOMAIN clients
      /\ ct.transactionId = "t1" /\ ct.serverCert = server.auth
      /\ ct.auok.smdpCertificate = server.pb
      /\ CcRequired(ct.matchingId) /\ clients[1].transactionId = "t1"
      /\ clients[1].confirmationCodeHash = Code("00000000")
  BY HonestClient DEF WrongCode, HonestPhase
<1>2. DOMAIN ct = CtFields
  BY HonestFacts
<1>3. /\ DOMAIN NewOtpk = DOMAIN clients /\ Ready(NewOtpk[1], server)
      /\ NewOtpk[1].transactionId = "t1" /\ request.hashCc = Code("00000000")
  BY <1>1, HonestRequest
<1>4. ~CodeAccepted(request)
  <2> HIDE DEF request
  <2>1. Code("00000000").code = "00000000"
    BY DEF Code, computeConfirmationCodeHash
  <2>2. computeConfirmationCodeHash("12345678", "t1").code = "12345678"
    BY DEF computeConfirmationCodeHash
  <2> QED  BY <1>1, <1>3, <2>1, <2>2 DEF CodeAccepted
<1>5. ext_RSPClient_sendHttpsPost(clients, ct.es9p, server.tls, Status("package")) = 200
  BY <1>1, HonestClient
<1>6. /\ DOMAIN new = DOMAIN clients /\ Ready(new[1], server)
      /\ new[1].confirmationCodeHash = Code("12345678")
  <2> DEFINE d == NewOtpk[1]
             called == setConfirmationCode(d, "12345678")
  <2>1. new = [NewOtpk EXCEPT ![1] = called.client]
    BY <1>1, <1>3 DEF ext_RSPClient_setConfirmationCode, client_loader, getClient
  <2>2. Ready(d, server) /\ d.transactionId = "t1" /\ d.transactionId # ""
    BY <1>3
  <2> HIDE DEF d
  <2>3. /\ Ready(called.client, server)
        /\ d.transactionId # "" => called.client.confirmationCodeHash
                                    = computeConfirmationCodeHash("12345678", d.transactionId)
    BY <2>2, CodeReady
  <2> HIDE DEF called, new
  <2> QED  BY <1>1, <1>3, <2>1, <2>2, <2>3 DEF Code
<1>7. /\ DOMAIN c = CtFields /\ c.transactionId = "t1" /\ c.serverCert = server.auth
      /\ c.auok = ct.auok /\ c.es9p = 1 /\ c.es2p = ct.es2p /\ c.curve = ct.curve
  <2> HIDE DEF request
  <2> QED  BY <1>1, <1>2 DEF CtFields
<1>8. pc' = "package" /\ ct' = c /\ clients' = new /\ UNCHANGED <<server, verdict>>
  BY <1>4, <1>5 DEF WrongCode, Goto
<1> HIDE DEF c, new, request
<1> QED  BY <1>1, <1>6, <1>7, <1>8 DEF HonestPhase, Connected, HonestServerPasses

\* GetBoundProfilePackage: the package is for this key, and the two other tests pass.
LEMMA HonestPackage ==
  ASSUME HonestInv, Honest, GetBoundProfilePackage
  PROVE  HonestPhase' /\ UNCHANGED server /\ ct'.curve = ct.curve
<1> DEFINE request == PackageRequest(NewOtpk)
           answer  == InitialiseSecureChannel(request.euiccOtpk)
           held    == [isc |-> answer.isc, smdpSign |-> answer.smdpSign]
           c == [ct EXCEPT !.otpks = @ + 1, !.request = request, !.isc = held]
<1>1. /\ pc = "package" /\ HonestPhase /\ Connected /\ ct.es9p = 1 /\ 1 \in DOMAIN clients
      /\ ct.transactionId = "t1" /\ ct.serverCert = server.auth
      /\ ct.auok.smdpCertificate = server.pb
      /\ CcRequired(ct.matchingId) => clients[1].confirmationCodeHash = Code("12345678")
  BY HonestClient DEF GetBoundProfilePackage, HonestPhase
<1>2. /\ DOMAIN ct = CtFields /\ ct.curve = server.curve
      /\ server.fault \in {"none", "ccRequired"}
  BY HonestFacts
<1>3. /\ DOMAIN NewOtpk = DOMAIN clients /\ Ready(NewOtpk[1], server)
      /\ NewOtpk[1].euiccOtpk = OtKey("eUICC", server.curve, ct.otpks + 1)
      /\ request.euiccOtpk = OtKey("eUICC", server.curve, ct.otpks + 1)
      /\ request.hashCc = clients[1].confirmationCodeHash
  BY <1>1, HonestRequest
<1> HIDE DEF request
<1>4. CodeAccepted(request)
  BY <1>1, <1>3 DEF CodeAccepted, Code
<1>5. ext_RSPClient_sendHttpsPost(clients, ct.es9p, server.tls, Status("package")) = 200
  BY <1>1, HonestClient
<1>6. IF ct.test = "complete_flow" THEN Goto("ecdh", c, NewOtpk)
      ELSE f_rsp_client_cleanup("pass", c, NewOtpk)
  BY <1>4, <1>5 DEF GetBoundProfilePackage, request
<1>7. /\ DOMAIN c = CtFields /\ c.transactionId = "t1" /\ c.serverCert = server.auth
      /\ c.auok = ct.auok /\ c.es9p = 1 /\ c.es2p = ct.es2p /\ c.curve = ct.curve
      /\ c.request = request /\ c.isc = held
  <2> HIDE DEF held
  <2> QED  BY <1>1, <1>2 DEF CtFields
<1> HIDE DEF c
<1>8. CASE ct.test = "complete_flow"
  <2>1. pc' = "ecdh" /\ ct' = c /\ clients' = NewOtpk /\ UNCHANGED <<server, verdict>>
    BY <1>6, <1>8 DEF Goto
  <2> DEFINE otpk == OtKey("eUICC", server.curve, 1)
             isc  == [transactionId |-> "t1", hostId |-> "host", wellFormed |-> TRUE,
                      smdpOtpk |-> OtKey("DP", server.curve, 1)]
  <2>2. request.euiccOtpk = otpk /\ NewOtpk[1].euiccOtpk = otpk
    <3>1. ct.otpks = 0
      BY <1>1, <1>8 DEF HonestInv, FlowInv, Phase
    <3> QED  BY <1>3, <3>1
  <2>3. /\ held.isc = isc
        /\ held.smdpSign = Sign(InitialiseSecureChannelRequest_ver("t1", isc, otpk), server.pb.key)
    <3>1. otpk.curve = server.curve
      BY DEF OtKey
    <3> HIDE DEF otpk
    <3>2. answer.isc = isc
      BY <1>2, <2>2, <3>1 DEF InitialiseSecureChannel
    <3>3. answer.smdpSign
            = Sign(InitialiseSecureChannelRequest_ver("t1", answer.isc, otpk), server.pb.key)
      BY <1>2, <2>2 DEF InitialiseSecureChannel
    <3> HIDE DEF answer, isc
    <3> QED  BY <3>2, <3>3
  <2> HIDE DEF held
  <2>4. ct'.curve = server.curve /\ server' = server
    BY <1>2, <1>7, <2>1
  <2>5. Offered'
    <3> HIDE DEF otpk, isc
    <3>1. /\ ct'.request.euiccOtpk = otpk /\ clients'[1].euiccOtpk = otpk /\ ct'.isc.isc = isc
          /\ ct'.isc.smdpSign
               = Sign(InitialiseSecureChannelRequest_ver("t1", isc, otpk), server.pb.key)
      BY <1>7, <2>1, <2>2, <2>3
    <3> QED  BY <2>4, <3>1 DEF Offered, otpk, isc
  <2> QED  BY <1>1, <1>3, <1>7, <2>1, <2>4, <2>5 DEF HonestPhase, Connected, HonestServerPasses
<1>9. CASE ct.test # "complete_flow"
  <2>1. /\ pc' = "end" /\ verdict' = "pass" /\ UNCHANGED server
        /\ ct' = [c EXCEPT !.es9p = -1, !.es2p = -1]
        /\ clients' = destroyClient(destroyClient(NewOtpk, c.es9p), c.es2p)
    BY <1>6, <1>9 DEF f_rsp_client_cleanup, Stop
  <2>2. ct'.curve = ct.curve
    BY <1>7, <2>1 DEF CtFields
  <2>3. clients' = <<>>
    <3>1. DOMAIN NewOtpk = {1} \/ (DOMAIN NewOtpk = {1, 2} /\ ct.es2p = 2)
      BY <1>1, <1>3 DEF Connected
    <3>2. destroyClient(destroyClient(NewOtpk, 1), ct.es2p) = <<>>
      BY <3>1, Cleaned
    <3> QED  BY <1>7, <2>1, <3>2
  <2> QED  BY <2>1, <2>2, <2>3 DEF HonestPhase, HonestServerPasses
<1> QED  BY <1>8, <1>9

\* The last checks: both chains of an honest server, and the eUICC's own.
LEMMA HonestChains ==
  ASSUME HonestInv, Honest, pc \notin {"init", "end"},
         NEW ci \in ext_RSPClient_getCICertificate(clients, ct.es9p)
  PROVE  /\ EuiccDer = Euicc(server.curve) /\ EumDer = Eum(server.curve)
         /\ EuiccChainValid(ci) /\ DpChainValid(server.auth, ci) /\ DpChainValid(server.pb, ci)
<1> DEFINE c == clients[1]
<1>1. ct.es9p = 1 /\ 1 \in DOMAIN clients /\ Ready(c, server)
  BY HonestClient
<1>2. /\ server \in Servers /\ server.honest /\ server.curve \in {"NIST", "BRP"}
      /\ getCurveOID(Euicc(server.curve)) = server.curve
  BY HonestFacts
<1>3. /\ EuiccDer = Euicc(server.curve) /\ EumDer = Eum(server.curve)
      /\ ci \in getCICertificate(c)
  BY <1>1, Getters DEF EuiccDer, EumDer, Ready
<1>4. ci = c.rootCA
  <2> HIDE DEF c
  <2> QED  BY <1>1, <1>2, <1>3, ReadyCI
<1>5. /\ SelfSigned(ci) /\ ci.ca /\ ci.current
      /\ \A cert \in {server.auth, server.pb, Eum(server.curve)} : cert.current /\ Issued(ci, cert)
  <2> HIDE DEF c
  <2> QED  BY <1>1, <1>4 DEF Ready, Trusts
<1>6. ci # NoCert
  <2>1. ~NoCert.ca
    BY DEF NoCert
  <2> QED  BY <1>5, <2>1
<1>7. /\ server.auth # NoCert /\ server.pb # NoCert /\ Euicc(server.curve) # NoCert
      /\ Euicc(server.curve).current /\ Issued(Eum(server.curve), Euicc(server.curve))
      /\ Eum(server.curve) # NoCert /\ Eum(server.curve).ca
  BY <1>2, HonestServer
<1>8. EuiccChainValid(ci)
  <2>1. verifyCertificateChainDynamic(Euicc(server.curve), {Eum(server.curve)}, ci)
    BY <1>5, <1>7, EumPath
  <2> QED  BY <1>3, <1>6, <1>7, <2>1
           DEF EuiccChainValid, ext_CertificateUtil_verifyCertificateChainWithIntermediate
<1>9. \A cert \in {server.auth, server.pb} : DpChainValid(cert, ci)
  <2> SUFFICES ASSUME NEW cert \in {server.auth, server.pb} PROVE DpChainValid(cert, ci)
    OBVIOUS
  <2>1. verifyCertificateChainDynamic(
          cert, CertsOf(loadCertificatesFromDirectory(Issuer, {})), ci)
    BY <1>5, ShortPath
  <2> QED  BY <1>6, <1>7, <2>1
           DEF DpChainValid, ext_CertificateUtil_verifyCertificateChainDynamic
<1> QED  BY <1>3, <1>8, <1>9

\* ValidatePackage: every check holds, and both sides give the KDF the same.
LEMMA HonestValidate ==
  ASSUME HonestInv, Honest, ValidatePackage
  PROVE  HonestPhase' /\ UNCHANGED server /\ ct'.curve = ct.curve
<1> DEFINE isc    == ct.isc.isc
           secret == ext_RSPClient_computeSharedSecret(clients, ct.es9p, isc.smdpOtpk)
           sender == ServerKey(ct.request.euiccOtpk, isc)
           receiver == [secret |-> secret, hostId |-> isc.hostId, eid |-> getEID(EuiccDer)]
           otpk == OtKey("eUICC", ct.curve, 1)
           dpOtpk == OtKey("DP", ct.curve, 1)
<1>1. /\ pc = "ecdh" /\ HonestPhase /\ Connected /\ ct.es9p = 1 /\ 1 \in DOMAIN clients
      /\ Ready(clients[1], server) /\ ct.transactionId = "t1" /\ ct.serverCert = server.auth
      /\ ct.auok.smdpCertificate = server.pb /\ Offered
  BY HonestClient DEF ValidatePackage, HonestPhase
<1>2. /\ server.curve \in {"NIST", "BRP"} /\ ct.curve = server.curve /\ server \in Servers
      /\ server.honest /\ server.fault \in {"none", "ccRequired"}
      /\ getCurveOID(Euicc(server.curve)) = server.curve /\ getEID(Euicc(server.curve)) = EIDs[1]
  BY HonestFacts
<1>3. PICK ci \in ext_RSPClient_getCICertificate(clients, ct.es9p) :
       IF /\ isc.transactionId = ct.transactionId /\ isc.wellFormed
          /\ f_validate_ecdh_and_signature
          /\ validateEIDRange(getEID(EuiccDer), EumDer)
          /\ EuiccChainValid(ci) /\ DpChainValid(ct.auok.smdpCertificate, ci)
          /\ getCurveOID(EuiccDer) = getCurveOID(ct.auok.smdpCertificate)
          /\ secret # {}
       THEN Start(sender, receiver) /\ Goto("bsp", ct, clients)
       ELSE f_fail_and_cleanup(ct) /\ UNCHANGED bspVars
  BY DEF ValidatePackage
<1>4. /\ isc = [transactionId |-> "t1", hostId |-> "host", wellFormed |-> TRUE, smdpOtpk |-> dpOtpk]
      /\ ct.request.euiccOtpk = otpk /\ clients[1].euiccOtpk = otpk
      /\ ct.isc.smdpSign = Sign(InitialiseSecureChannelRequest_ver("t1", isc, otpk), server.pb.key)
  BY <1>1 DEF Offered
<1>5. /\ isc.transactionId = "t1" /\ isc.hostId = "host" /\ isc.wellFormed
      /\ isc.smdpOtpk = dpOtpk
  <2> HIDE DEF isc, dpOtpk
  <2> QED  BY <1>4
<1>6. otpk.curve = server.curve /\ dpOtpk.curve = server.curve /\ otpk # NoOtKey
  BY <1>2 DEF OtKey, NoOtKey
<1> HIDE DEF isc, otpk, dpOtpk
<1>7. /\ EuiccDer = Euicc(server.curve) /\ EumDer = Eum(server.curve)
      /\ EuiccChainValid(ci) /\ DpChainValid(server.pb, ci)
  BY <1>1, HonestChains
<1>8. f_validate_ecdh_and_signature
  <2>1. ext_RSPClient_getEUICCOtpk(clients, ct.es9p) = otpk
    BY <1>1, <1>4, Getters
  <2>2. verifyECDHCompatible(otpk, dpOtpk)
    BY <1>2, <1>6 DEF verifyECDHCompatible, PointSize
  <2> DEFINE data == InitialiseSecureChannelRequest_ver("t1", isc, otpk)
  <2>3. data # <<>>
    BY DEF InitialiseSecureChannelRequest_ver
  <2> HIDE DEF data
  <2>4. ext_RSPClient_verifyServerSignature(clients, ct.es9p, data, Sign(data, server.pb.key),
                                            server.pb)
    BY <1>1, <2>3, HonestSigned
  <2> QED  BY <1>1, <1>4, <1>5, <2>1, <2>2, <2>4 DEF f_validate_ecdh_and_signature, data, isc
<1>9. validateEIDRange(getEID(EuiccDer), EumDer)
  BY <1>2, <1>7, HonestServer
<1>10. getCurveOID(EuiccDer) = getCurveOID(ct.auok.smdpCertificate)
  BY <1>1, <1>2, <1>7, HonestServer
<1>11. secret = {otpk, dpOtpk}
  <2> DEFINE c == clients[1]
  <2>1. secret = computeECDHSharedSecret(c, dpOtpk)
    BY <1>1, <1>5, Getters
  <2>2. c.euiccCert = Euicc(server.curve) /\ c.euiccOtpk = otpk
    BY <1>1, <1>4 DEF Ready
  <2>3. getCertificateCurveNID(c.euiccCert) = server.curve /\ server.curve # ""
    BY <1>2, <2>2 DEF getCertificateCurveNID, getCurveOID
  <2> HIDE DEF c, secret
  <2> QED  BY <1>6, <2>1, <2>2, <2>3 DEF computeECDHSharedSecret
<1>12. sender = receiver
  <2>1. sender = [secret |-> {otpk, dpOtpk}, hostId |-> "host", eid |-> EIDs[1]]
    BY <1>2, <1>4, <1>5 DEF ServerKey
  <2>2. getEID(EuiccDer) = EIDs[1]
    BY <1>2, <1>7
  <2> HIDE DEF secret, sender
  <2> QED  BY <1>5, <1>11, <2>1, <2>2
<1>13. Start(sender, receiver) /\ Goto("bsp", ct, clients)
  <2>1. secret # {}
    <3> HIDE DEF secret
    <3> QED  BY <1>11
  <2> HIDE DEF sender, receiver, secret
  <2> QED  BY <1>1, <1>3, <1>5, <1>7, <1>8, <1>9, <1>10, <2>1
<1>14. tx'.session.key = rx'.session.key
  <2> HIDE DEF sender, receiver
  <2>1. tx'.session = from_kdf(sender) /\ rx'.session = from_kdf(sender)
    BY <1>12, <1>13 DEF Start
  <2> QED  BY <2>1
<1>15. pc' = "bsp" /\ UNCHANGED <<ct, clients, server, verdict>>
  BY <1>13 DEF Goto
<1> QED  BY <1>1, <1>14, <1>15 DEF HonestPhase, Connected, HonestServerPasses

\* No segment changes the keys of either side's session.
LEMMA ReceiverKeys ==
  ASSUME MirrorInv, BspStep
  PROVE  rx'.session.key = rx.session.key
<1>1. CASE Sender
  BY <1>1 DEF Sender, ProtectConfigureIsdp, ProtectMetadata, ProtectReplaceSessionKeys,
              ProtectProfile, Send
<1>2. CASE Channel
  BY <1>2 DEF Channel, Misdeliver, Alter, LoseReplaceSessionKeys, Damage, Disturbed
<1>3. CASE process_bound_profile_package
  BY <1>3, DecodeInStep, ConfigureIsdpInStep, StoreMetadataInStep, MetadataDoneInStep,
     ReplaceInStep, ProfileDataInStep, ProfileDoneInStep DEF process_bound_profile_package
<1> QED  BY <1>1, <1>2, <1>3 DEF BspStep

\* ProcessBoundProfilePackage: the sessions keep their keys, and the client stays.
LEMMA HonestProcess ==
  ASSUME HonestInv, Honest, ProcessBoundProfilePackage
  PROVE  HonestPhase' /\ UNCHANGED server /\ ct'.curve = ct.curve
<1>1. pc = "bsp" /\ BspStep /\ UNCHANGED <<server, clients, ct, pc, verdict>>
  BY DEF ProcessBoundProfilePackage, flowVars
<1>2. HonestPhase /\ Connected
  BY <1>1, HonestClient
<1>3. tx'.session.key = tx.session.key
  BY <1>1, PackageKeys DEF HonestInv, FlowInv
<1>4. rx'.session.key = rx.session.key
  BY <1>1, ReceiverKeys DEF HonestInv
<1> QED  BY <1>1, <1>2, <1>3, <1>4 DEF HonestPhase, Connected, HonestServerPasses

\* Processed: an undisturbed package was accepted, and the chains hold.
LEMMA HonestProcessed ==
  ASSUME HonestInv, Honest, Processed
  PROVE  HonestPhase' /\ UNCHANGED server /\ ct'.curve = ct.curve
<1>1. /\ pc = "bsp" /\ HonestPhase /\ Connected /\ ct.serverCert = server.auth
      /\ ct.auok.smdpCertificate = server.pb /\ tx.session.key = rx.session.key
      /\ at \in {"done", "error"} /\ UNCHANGED bspVars
  BY HonestClient DEF Processed, HonestPhase
<1>2. DOMAIN ct = CtFields /\ ct.es9p = 1
  BY <1>1, HonestFacts DEF Connected
<1>3. PICK ci \in ext_RSPClient_getCICertificate(clients, ct.es9p) :
       IF /\ res.configureIsdp # <<>> /\ res.storeMetadata # <<>> /\ res.profileData # <<>>
          /\ EuiccChainValid(ci) /\ DpChainValid(ct.serverCert, ci)
          /\ DpChainValid(ct.auok.smdpCertificate, ci)
       THEN f_rsp_client_cleanup("pass", ct, clients)
       ELSE f_fail_and_cleanup(ct)
  BY DEF Processed
<1>4. EuiccChainValid(ci) /\ DpChainValid(server.auth, ci) /\ DpChainValid(server.pb, ci)
  BY <1>1, HonestChains
<1>5. \E v : f_rsp_client_cleanup(v, ct, clients)
  BY <1>3 DEF f_fail_and_cleanup
<1>6. /\ pc' = "end" /\ UNCHANGED server /\ ct' = [ct EXCEPT !.es9p = -1, !.es2p = -1]
      /\ clients' = destroyClient(destroyClient(clients, 1), ct.es2p)
  BY <1>2, <1>5 DEF f_rsp_client_cleanup, Stop
<1>7. ct'.curve = ct.curve
  BY <1>2, <1>6 DEF CtFields
<1>8. clients' = <<>>
  <2>1. DOMAIN clients = {1} \/ (DOMAIN clients = {1, 2} /\ ct.es2p = 2)
    BY <1>1 DEF Connected
  <2> QED  BY <1>6, <2>1, Cleaned
<1>9. ASSUME UnderSameKeys PROVE verdict' = "pass"
  <2>1. Accepted
    <3>1. UndisturbedAccepted
      BY MirrorImplies DEF HonestInv
    <3> QED  BY <1>1, <1>9, <3>1 DEF UndisturbedAccepted, UnderSameKeys
  <2>2. f_rsp_client_cleanup("pass", ct, clients)
    BY <1>1, <1>3, <1>4, <2>1 DEF Accepted
  <2> QED  BY <2>2 DEF f_rsp_client_cleanup, Stop
<1>10. faults' = faults /\ tx' = tx /\ bpp' = bpp
  BY <1>1 DEF bspVars
<1>11. HonestServerPasses'
  BY <1>1, <1>8, <1>9, <1>10 DEF HonestServerPasses, UnderSameKeys
<1> QED  BY <1>6, <1>7, <1>11 DEF HonestPhase

-----------------------------------------------------------------------------
\* The package's part of the invariant, in every step of a test.
LEMMA FlowMirror ==
  ASSUME FlowInv, MirrorInv, [Next]_<<flowVars, bspVars>>
  PROVE  MirrorInv'
<1>1. AcceptInv'
  BY FlowStep DEF FlowInv
<1>2. CASE UNCHANGED bspVars
  BY <1>2, StepMirror
<1>3. CASE ProcessBoundProfilePackage
  BY <1>3, StepMirror DEF ProcessBoundProfilePackage
<1>4. CASE ValidatePackage
  <2>1. CASE \E s, r : Start(s, r)
    <3>1. PICK s, r : Start(s, r)
      BY <2>1
    <3>2. tx' = Side(s) /\ bpp' = NoPackage /\ at' = "build" /\ faults' = 0
      BY <3>1 DEF Start, Side, from_kdf
    <3>3. New'
      BY <3>2 DEF New
    <3>4. (Intact /\ InStep)'
      BY <3>3, NewState, PTL
    <3> QED  BY <1>1, <3>2, <3>4 DEF MirrorInv
  <2>2. CASE UNCHANGED bspVars
    BY <1>2, <2>2
  <2> QED  BY <1>4, <2>1, <2>2 DEF ValidatePackage
<1>5. \/ UNCHANGED <<flowVars, bspVars>> \/ f_init_es9plus \/ f_init_es2plus \/ DownloadOrder
      \/ ConfirmOrder \/ InitiateAuthentication \/ ProvisionProfile \/ AuthenticateClient
      \/ WrongCode \/ GetBoundProfilePackage \/ Processed
      => UNCHANGED bspVars
  BY DEF f_init_es9plus, f_init_es2plus, DownloadOrder, ConfirmOrder, Order,
         InitiateAuthentication, ProvisionProfile, AuthenticateClient, WrongCode,
         GetBoundProfilePackage, Processed
<1> QED  BY <1>2, <1>3, <1>4, <1>5 DEF Next

\* No step changes the server or the curve of a test.
LEMMA SameCurve ==
  ASSUME FlowInv, [Next]_<<flowVars, bspVars>>
  PROVE  UNCHANGED server /\ ct'.curve = ct.curve
<1>1. DOMAIN ct = CtFields /\ SameTest(ct)
  BY TestFacts
<1>2. \A v, c, registry : SameTest(c) /\ Stop(v, c, registry) => server' = server /\ ct'.curve = ct.curve
  BY DEF Stop, SameTest
<1>3. \A v, c, registry : SameTest(c) /\ f_rsp_client_cleanup(v, c, registry) => server' = server /\ ct'.curve = ct.curve
  <2> SUFFICES ASSUME NEW v, NEW c, NEW registry, SameTest(c), f_rsp_client_cleanup(v, c, registry)
               PROVE  server' = server /\ ct'.curve = ct.curve
    OBVIOUS
  <2>1. UNCHANGED server /\ ct' = [c EXCEPT !.es9p = -1, !.es2p = -1]
    BY DEF f_rsp_client_cleanup, Stop
  <2> QED  BY <2>1 DEF SameTest, CtFields
<1>4. \A where, c, registry : SameTest(c) /\ Goto(where, c, registry) => server' = server /\ ct'.curve = ct.curve
  BY DEF Goto, SameTest
<1>5. CASE UNCHANGED <<flowVars, bspVars>>
  BY <1>5 DEF flowVars
<1>6. CASE f_init_es9plus
  <2> DEFINE dir == <<"sgp26", "eUICC">>
  <2>1. PICK made \in createClient(clients, nextHandle, Issuer, ct.curve) :
         LET h  == made.handle
             r1 == ext_RSPClient_loadEUICCCertificate(made.clients, h, dir, "CERT_EUICC_" \o ct.curve)
             r2 == ext_RSPClient_loadEUICCKeyPair(r1.clients, h, dir, "SK_EUICC_" \o ct.curve)
             r3 == ext_RSPClient_configureHttpClient(r2.clients, h, TRUE)
             c  == [ct EXCEPT !.es9p = h]
         IN  IF h < 0 THEN Stop("fail", c, made.clients)
             ELSE IF r1.rc # 0 \/ r2.rc # 0 \/ r3.rc # 0
             THEN f_rsp_client_cleanup("none", c, r3.clients)
             ELSE Goto(IF ct.test = "full_flow" THEN "es2plus" ELSE "initiate", c, r3.clients)
    BY <1>6 DEF f_init_es9plus
  <2> DEFINE r1 == ext_RSPClient_loadEUICCCertificate(made.clients, made.handle, dir,
                                                      "CERT_EUICC_" \o ct.curve)
             r2 == ext_RSPClient_loadEUICCKeyPair(r1.clients, made.handle, dir,
                                                  "SK_EUICC_" \o ct.curve)
             r3 == ext_RSPClient_configureHttpClient(r2.clients, made.handle, TRUE)
             c  == [ct EXCEPT !.es9p = made.handle]
  <2>2. \/ Stop("fail", c, made.clients)
        \/ f_rsp_client_cleanup("none", c, r3.clients)
        \/ Goto(IF ct.test = "full_flow" THEN "es2plus" ELSE "initiate", c, r3.clients)
    BY <2>1
  <2>3. SameTest(c)
    BY <1>1 DEF SameTest, CtFields
  <2> HIDE DEF c, r3
  <2> QED  BY <1>2, <1>3, <1>4, <2>2, <2>3
<1>7. CASE f_init_es2plus
  <2>1. PICK made \in createClient(clients, nextHandle, <<"sgp26">>, "NIST") :
          LET r == ext_RSPClient_setAuthParams(made.clients, made.handle, TRUE)
              c == [ct EXCEPT !.es2p = made.handle]
          IN  IF made.handle < 0 \/ r.rc # 0 THEN Stop("fail", c, r.clients)
              ELSE Goto("downloadOrder", c, r.clients)
    BY <1>7 DEF f_init_es2plus
  <2> DEFINE r == ext_RSPClient_setAuthParams(made.clients, made.handle, TRUE)
             c == [ct EXCEPT !.es2p = made.handle]
  <2>2. Stop("fail", c, r.clients) \/ Goto("downloadOrder", c, r.clients)
    BY <2>1
  <2>3. SameTest(c)
    BY <1>1 DEF SameTest, CtFields
  <2> HIDE DEF c, r
  <2> QED  BY <1>2, <1>4, <2>2, <2>3
<1>8. CASE DownloadOrder \/ ConfirmOrder
  <2> DEFINE c == [ct EXCEPT !.matchingId = "m1"]
  <2>1. \/ f_rsp_client_cleanup("fail", ct, clients)
        \/ Goto("confirmOrder", ct, clients) \/ Goto("initiate", c, clients)
    BY <1>8 DEF DownloadOrder, ConfirmOrder, Order, f_fail_and_cleanup
  <2>2. SameTest(c)
    BY <1>1 DEF SameTest, CtFields
  <2> HIDE DEF c
  <2> QED  BY <1>1, <1>3, <1>4, <2>1, <2>2
<1>9. CASE InitiateAuthentication
  <2> DEFINE ok == InitiateAuthenticationOk("c1")
             c  == [ct EXCEPT !.euiccChallenge = "c1", !.transactionId = ok.transactionId,
                              !.serverCert = ok.serverCertificate,
                              !.serverChallenge = ok.serverSigned1.serverChallenge]
             refused == [ct EXCEPT !.euiccChallenge = "c1"]
             retry == [c EXCEPT !.matchingId = "CC_REQUIRED_TEST"]
             where == IF ct.test = "complete_flow" THEN "provision" ELSE "authenticate"
  <2>1. SameTest(c) /\ SameTest(refused) /\ SameTest(retry)
    BY <1>1 DEF SameTest, CtFields
  <2>2. \/ Stop("error", refused, clients) \/ f_rsp_client_cleanup("fail", c, clients)
        \/ Stop("fail", c, clients) \/ Goto(where, retry, clients) \/ Goto(where, c, clients)
    BY <1>9 DEF InitiateAuthentication, f_fail_and_cleanup
  <2> HIDE DEF c, refused, retry, where
  <2> QED  BY <1>2, <1>3, <1>4, <2>1, <2>2
<1>10. CASE ProvisionProfile
  <2> DEFINE r == ext_RSPClient_setAuthParams(clients, ct.es9p, TRUE)
             status == ext_RSPClient_sendHttpsPostWithAuth(r.clients, ct.es2p, server.es2tls, 200)
             c == [ct EXCEPT !.matchingId = IF status # 200 THEN "" ELSE "m1"]
  <2>1. Stop("fail", ct, r.clients) \/ Goto("authenticate", c, r.clients)
    BY <1>10 DEF ProvisionProfile
  <2>2. SameTest(c)
    <3> HIDE DEF status
    <3> QED  BY <1>1 DEF SameTest, CtFields
  <2> HIDE DEF c, r
  <2> QED  BY <1>1, <1>2, <1>4, <2>1, <2>2
<1>11. CASE AuthenticateClient
  <2> DEFINE sig == ext_RSPClient_signDataWithEUICC(clients, ct.es9p, EuiccSigned1(ct))
             ok  == AuthenticateClientOk(ct.matchingId, sig)
             c   == [ct EXCEPT !.auok = ok]
             wrong == WithCode(clients, ct.es9p, ct.transactionId, "00000000")
             registry == IF ok.smdpSigned2.ccRequiredFlag
                         THEN WithCode(clients, ct.es9p, ct.transactionId, "12345678") ELSE clients
  <2>1. ct.test \in {"complete_flow", "full_flow", "cc_retry"}
    BY DEF FlowInv
  <2>2. \/ Stop("error", ct, clients) \/ f_rsp_client_cleanup("fail", c, registry)
        \/ Stop("fail", c, clients) \/ f_rsp_client_cleanup("fail", c, clients)
        \/ Goto("package", c, registry) \/ Goto("wrongCode", c, wrong)
    BY <1>11, <2>1 DEF AuthenticateClient, f_fail_and_cleanup
  <2>3. SameTest(c)
    <3> HIDE DEF ok
    <3> QED  BY <1>1 DEF SameTest, CtFields
  <2> HIDE DEF c, registry, wrong
  <2> QED  BY <1>1, <1>2, <1>3, <1>4, <2>2, <2>3
<1>12. CASE WrongCode
  <2> DEFINE request == PackageRequest(NewOtpk)
             c == [ct EXCEPT !.otpks = @ + 1, !.request = request]
             new == ext_RSPClient_setConfirmationCode(NewOtpk, ct.es9p, "12345678").clients
  <2>1. \/ Stop("error", c, NewOtpk) \/ f_rsp_client_cleanup("fail", c, NewOtpk)
        \/ Goto("package", c, new)
    BY <1>12 DEF WrongCode
  <2>2. SameTest(c)
    <3> HIDE DEF request
    <3> QED  BY <1>1 DEF SameTest, CtFields
  <2> HIDE DEF c, new
  <2> QED  BY <1>2, <1>3, <1>4, <2>1, <2>2
<1>13. CASE GetBoundProfilePackage
  <2> DEFINE request == PackageRequest(NewOtpk)
             answer  == InitialiseSecureChannel(request.euiccOtpk)
             held    == [isc |-> answer.isc, smdpSign |-> answer.smdpSign]
             c == [ct EXCEPT !.otpks = @ + 1, !.request = request, !.isc = held]
  <2>1. \/ Stop("error", c, NewOtpk) \/ Stop("fail", c, NewOtpk)
        \/ Goto("ecdh", c, NewOtpk) \/ f_rsp_client_cleanup("pass", c, NewOtpk)
    BY <1>13 DEF GetBoundProfilePackage
  <2>2. SameTest(c)
    <3> HIDE DEF request, held
    <3> QED  BY <1>1 DEF SameTest, CtFields
  <2> HIDE DEF c
  <2> QED  BY <1>2, <1>3, <1>4, <2>1, <2>2
<1>14. CASE ValidatePackage
  <2>1. Goto("bsp", ct, clients) \/ f_rsp_client_cleanup("fail", ct, clients)
    BY <1>14 DEF ValidatePackage, f_fail_and_cleanup
  <2> QED  BY <1>1, <1>3, <1>4, <2>1
<1>15. CASE ProcessBoundProfilePackage
  BY <1>15 DEF ProcessBoundProfilePackage, flowVars
<1>16. CASE Processed
  <2>1. f_rsp_client_cleanup("pass", ct, clients) \/ f_rsp_client_cleanup("fail", ct, clients)
    BY <1>16 DEF Processed, f_fail_and_cleanup
  <2> QED  BY <1>1, <1>3, <2>1
<1> QED
  BY <1>5, <1>6, <1>7, <1>8, <1>9, <1>10, <1>11, <1>12, <1>13, <1>14, <1>15, <1>16 DEF Next

\* Every step of a test with an honest server keeps the inductive invariant.
LEMMA HonestStep ==
  ASSUME HonestInv, [Next]_<<flowVars, bspVars>>
  PROVE  HonestInv'
<1>1. FlowInv' /\ MirrorInv'
  BY FlowStep, FlowMirror DEF HonestInv
<1>2. ASSUME Honest' PROVE HonestPhase'
  <2>1. Honest
    BY <1>2, SameCurve DEF Honest, HonestInv
  <2>2. CASE UNCHANGED <<flowVars, bspVars>>
    <3>1. UNCHANGED <<server, clients, nextHandle, ct, pc, verdict>>
          /\ UNCHANGED <<tx, rx, bpp, faults>>
      BY <2>2 DEF flowVars, bspVars
    <3>2. HonestPhase
      BY <2>1 DEF HonestInv
    <3> QED
      BY <3>1, <3>2 DEF HonestPhase, Connected, Offered, CcRequired, HonestServerPasses
  <2>3. CASE f_init_es9plus
    <3>1. /\ pc' \in {"es2plus", "initiate"} /\ ct' = [ct EXCEPT !.es9p = 1] /\ nextHandle' = 2
          /\ DOMAIN clients' = {1} /\ Ready(clients'[1], server)
          /\ UNCHANGED <<server, verdict>> /\ ct.es2p = -1
      BY <2>1, <2>3, HonestInit
    <3>2. DOMAIN ct = CtFields
      BY <2>1, HonestFacts
    <3>3. ct'.es9p = 1 /\ ct'.es2p = -1
      BY <3>1, <3>2 DEF CtFields
    <3> QED  BY <3>1, <3>3 DEF HonestPhase, Connected, HonestServerPasses
  <2> QED
    BY <2>1, <2>2, <2>3, HonestEs2plus, HonestOrders, HonestInitiate, HonestProvision,
       HonestAuthenticate, HonestWrongCode, HonestPackage, HonestValidate, HonestProcess,
       HonestProcessed DEF Next
<1> QED  BY <1>1, <1>2 DEF HonestInv

\* An honest server passes: when the server shows the certificates of its CI and does what was
\* asked for, and the package was not disturbed, f_TC_rsp_complete_flow, the full flow and the
\* retried confirmation code all end with the verdict "pass" and with no client left - whatever
\* other servers and files there are. No check of the client may refuse what is right, and
\* setConfirmationCode() must compute the hash anew for the right code after a wrong one.
THEOREM HonestServerPassesThm == Spec => []HonestServerPasses
<1>1. Init => HonestInv
  <2> SUFFICES ASSUME Init PROVE HonestInv
    OBVIOUS
  <2>1. FlowInv
    BY FlowInit
  <2>2. MirrorInv
    BY IdleMirror DEF Init
  <2>3. pc = "init" /\ clients = <<>> /\ nextHandle = 1 /\ ct.es2p = -1
    <3>1. PICK test \in {"complete_flow", "full_flow", "cc_retry"}, curve \in Curves :
            ct = [test |-> test, curve |-> curve, es9p |-> -1, es2p |-> -1,
                  euiccChallenge |-> "", transactionId |-> "", serverChallenge |-> "",
                  serverCert |-> NoCert, matchingId |-> "", auok |-> NoOk2,
                  otpks |-> 0, request |-> NoRequest, isc |-> NoIsc]
      BY DEF Init
    <3>2. ct.es2p = -1
      BY <3>1
    <3> QED  BY <3>2 DEF Init
  <2>4. HonestPhase
    BY <2>3 DEF HonestPhase, HonestServerPasses
  <2> QED  BY <2>1, <2>2, <2>4 DEF HonestInv
<1>2. HonestInv /\ [Next]_<<flowVars, bspVars>> => HonestInv'
  BY HonestStep
<1>3. HonestInv => HonestServerPasses
  BY DEF HonestInv, Honest, HonestPhase, HonestServerPasses
<1> QED  BY <1>1, <1>2, <1>3, PTL DEF Spec
=============================================================================
