--------------------------------- MODULE BSP ---------------------------------
(***************************************************************************)
(* Protection of a Bound Profile Package (smdpp/bsp_crypto.cc): segments   *)
(* with a chained MAC, an ICV counted by blocks, and the switch to the     *)
(* profile protection keys (PPK).  The sender is the SM-DP+, which uses    *)
(* what BspCrypto offers for it; the package may be disturbed on its way;  *)
(* the receiver is process_bound_profile_package(), one step a segment.    *)
(* A key is what the KDF was given, a full MAC is the key with everything  *)
(* that went into the chain, a ciphertext is the key, the block, the data. *)
(***************************************************************************)
EXTENDS Naturals, Sequences

CONSTANTS Keys,        \* inputs of the KDF: secret, host id, EID
          PPK,         \* the profile protection keys and their initial chaining value
          Datas,       \* plaintexts of segments
          Garbage,     \* what is neither: a failed decryption, keys in another encoding
          MaxMetadata, MaxProfile,  \* segments of these parts
          MaxFaults    \* disturbances of one package

ASSUME KeysAssumption ==
  /\ PPK \notin Keys /\ PPK \notin Datas /\ Garbage \notin Datas \cup {PPK}
  /\ MaxMetadata \in Nat /\ MaxProfile \in Nat /\ MaxFaults \in Nat

VARIABLES at,      \* how far the package is
          tx, rx,  \* BspCrypto instances of either side: session, PPK, PPK in use
          bpp,     \* the package
          next,    \* index of the receiver's loop
          res,     \* BppProcessingResult
          faults   \* disturbances so far

bspVars == <<at, tx, rx, bpp, next, res, faults>>

-----------------------------------------------------------------------------
\* BspCrypto.  Every instance starts with its chaining value and block 1.
BspCrypto(key) == [key |-> key, mac_chain |-> <<>>, block_number |-> 1]

from_kdf(kdf) == BspCrypto(kdf)
from_replace_session_keys(rsk) == BspCrypto(rsk)

\* The MAC over the chain starts anew with each segment.
compute_mac_Mistake(b, tag, payload) ==
  [key |-> b.key, log |-> <<[tag |-> tag, payload |-> payload]>>]

\* The full MAC, the next chaining value.
compute_mac(b, tag, payload) ==
  [key |-> b.key, log |-> Append(b.mac_chain, [tag |-> tag, payload |-> payload])]

\* The instance after a segment with that MAC: generate_icv() or block_number++.
Advanced(b, mac) ==
  [key |-> b.key, mac_chain |-> mac.log, block_number |-> b.block_number + 1]

aes_encrypt(b, data) ==
  [encrypted |-> TRUE, key |-> b.key, block |-> b.block_number, data |-> data]
Plain(b, data) == [encrypted |-> FALSE, key |-> b.key, block |-> 0, data |-> data]

aes_decrypt_with_icv(b, payload) ==
  IF payload.encrypted /\ payload.key = b.key /\ payload.block = b.block_number
  THEN payload.data ELSE Garbage

Segment(tag, payload, mac) == [tag |-> tag, payload |-> payload, mac |-> mac]

\* encrypt_and_mac_one(): the segment, and the instance after it.
encrypt_and_mac_one(b, tag, data) ==
  LET payload == aes_encrypt(b, data)
      mac     == compute_mac(b, tag, payload)
  IN  [bsp |-> Advanced(b, mac), segment |-> Segment(tag, payload, mac)]

mac_only_one(b, tag, data) ==
  LET payload == Plain(b, data)
      mac     == compute_mac(b, tag, payload)
  IN  [bsp |-> Advanced(b, mac), segment |-> Segment(tag, payload, mac)]

\* The block is not counted for a segment that is only verified.
verify_and_decrypt_helper_Mistake(b, segment, decrypt) ==
  LET mac == compute_mac(b, segment.tag, segment.payload)
  IN  [ok   |-> segment.mac = mac,
       bsp  |-> IF decrypt THEN Advanced(b, mac) ELSE [b EXCEPT !.mac_chain = mac.log],
       data |-> IF decrypt THEN aes_decrypt_with_icv(b, segment.payload)
                ELSE segment.payload.data]

\* verify_and_decrypt_helper(): nothing changes when the MAC is wrong.
verify_and_decrypt_helper(b, segment, decrypt) ==
  LET mac == compute_mac(b, segment.tag, segment.payload)
  IN  [ok   |-> segment.mac = mac,
       bsp  |-> Advanced(b, mac),
       data |-> IF decrypt THEN aes_decrypt_with_icv(b, segment.payload)
                ELSE segment.payload.data]

\* parse_replace_session_keys(): only the ASN.1 form has the three fields.
parse_replace_session_keys(data) == [ok |-> data = PPK, rsk |-> PPK]
\* generate_replace_session_keys_data(): the bare concatenation of the keys.
generate_replace_session_keys_data == Garbage

-----------------------------------------------------------------------------
NoPackage == [configureIsdp |-> <<>>, storeMetadata |-> <<>>, replaceSessionKeys |-> <<>>,
              hasReplaceSessionKeys |-> FALSE, profileData |-> <<>>, der |-> TRUE]
NoResult == [configureIsdp |-> <<>>, storeMetadata |-> <<>>,
             hasReplaceSessionKeys |-> FALSE, profileData |-> <<>>]

Side(key) == [session |-> BspCrypto(key), ppk |-> BspCrypto(PPK), replaced |-> FALSE]

Idle ==
  /\ at = "idle"
  /\ tx \in {Side(k) : k \in Keys} /\ rx \in {Side(k) : k \in Keys}
  /\ bpp = NoPackage /\ next = 1 /\ res = NoResult /\ faults = 0

\* A new package under the keys of the two sides.
Start(sender, receiver) ==
  /\ at \in {"idle", "done", "error"}
  /\ at' = "build"
  /\ tx' = [session |-> from_kdf(sender), ppk |-> BspCrypto(PPK), replaced |-> FALSE]
  /\ rx' = [session |-> from_kdf(receiver), ppk |-> BspCrypto(PPK), replaced |-> FALSE]
  /\ bpp' = NoPackage /\ next' = 1 /\ res' = NoResult /\ faults' = 0

\* The sender's segments, in the order of the package.
ProtectConfigureIsdp ==
  /\ at = "build" /\ bpp.configureIsdp = <<>>
  /\ \E d \in Datas : LET e == encrypt_and_mac_one(tx.session, 87, d) IN
       /\ tx' = [tx EXCEPT !.session = e.bsp]
       /\ bpp' = [bpp EXCEPT !.configureIsdp = <<e.segment>>]
  /\ UNCHANGED <<at, rx, next, res, faults>>

ProtectMetadata ==
  /\ at = "build" /\ bpp.configureIsdp # <<>>
  /\ ~bpp.hasReplaceSessionKeys /\ bpp.profileData = <<>>
  /\ Len(bpp.storeMetadata) < MaxMetadata
  /\ \E d \in Datas : LET e == mac_only_one(tx.session, 88, d) IN
       /\ tx' = [tx EXCEPT !.session = e.bsp]
       /\ bpp' = [bpp EXCEPT !.storeMetadata = Append(@, e.segment)]
  /\ UNCHANGED <<at, rx, next, res, faults>>

\* ReplaceSessionKeys under the session keys; the profile goes under the PPK.
ProtectReplaceSessionKeys ==
  /\ at = "build" /\ bpp.storeMetadata # <<>>
  /\ ~bpp.hasReplaceSessionKeys /\ bpp.profileData = <<>>
  /\ \E keys \in {PPK, generate_replace_session_keys_data} :
       LET e == encrypt_and_mac_one(tx.session, 87, keys) IN
       /\ tx' = [tx EXCEPT !.session = e.bsp, !.replaced = TRUE]
       /\ bpp' = [bpp EXCEPT !.replaceSessionKeys = <<e.segment>>,
                             !.hasReplaceSessionKeys = TRUE]
  /\ UNCHANGED <<at, rx, next, res, faults>>

ProtectProfile ==
  /\ at = "build" /\ bpp.storeMetadata # <<>> /\ Len(bpp.profileData) < MaxProfile
  /\ \E d \in Datas :
       LET e == encrypt_and_mac_one(IF tx.replaced THEN tx.ppk ELSE tx.session, 86, d) IN
       /\ tx' = IF tx.replaced THEN [tx EXCEPT !.ppk = e.bsp]
                               ELSE [tx EXCEPT !.session = e.bsp]
       /\ bpp' = [bpp EXCEPT !.profileData = Append(@, e.segment)]
  /\ UNCHANGED <<at, rx, next, res, faults>>

Send ==
  /\ at = "build" /\ bpp.profileData # <<>>
  /\ at' = "transit"
  /\ UNCHANGED <<tx, rx, bpp, next, res, faults>>

-----------------------------------------------------------------------------
\* The package on its way: of a list, segments are lost, repeated, swapped, or
\* taken from another list with the same tag; a segment is altered; the optional
\* list is lost; the encoding is damaged.
Elements(list) == {list[i] : i \in 1..Len(list)}
UpTo(S, n) == UNION {[1..m -> S] : m \in 0..n}

Parts == {"configureIsdp", "storeMetadata", "replaceSessionKeys", "profileData"}
PoolOf(part) ==
  IF part \in {"configureIsdp", "replaceSessionKeys"}
  THEN Elements(bpp.configureIsdp) \cup Elements(bpp.replaceSessionKeys)
  ELSE Elements(bpp[part])

Disturbed(disturbance) ==
  /\ at = "transit" /\ faults < MaxFaults
  /\ faults' = faults + 1
  /\ bpp' = disturbance
  /\ UNCHANGED <<at, tx, rx, next, res>>

Misdeliver ==
  \E part \in Parts :
    \E list \in UpTo(PoolOf(part), Len(bpp[part]) + 1) :
       Disturbed([bpp EXCEPT ![part] = list])

Alter ==
  \E part \in Parts : \E i \in 1..Len(bpp[part]), d \in Datas \cup {PPK} :
    Disturbed([bpp EXCEPT ![part][i].payload.data = d])

LoseReplaceSessionKeys == Disturbed([bpp EXCEPT !.hasReplaceSessionKeys = FALSE])
Damage == Disturbed([bpp EXCEPT !.der = FALSE])

-----------------------------------------------------------------------------
\* An exception: the results so far are lost (makeErrorResult).
Throw ==
  /\ at' = "error" /\ res' = NoResult
  /\ UNCHANGED <<tx, rx, bpp, next, faults>>

\* decrypt_and_verify() of an element of a list; without the element the segment is
\* too small.
decrypt_and_verify(b, list, i, decrypt) ==
  IF i > Len(list) THEN [ok |-> FALSE, bsp |-> b, data |-> Garbage]
  ELSE verify_and_decrypt_helper(b, list[i], decrypt)

\* process_bound_profile_package(): d2i.  Without a package the result is handed
\* out with a hasReplaceSessionKeys nobody has set.
Decode ==
  /\ at = "transit"
  /\ IF bpp.der
     THEN /\ at' = "isdp"
          /\ res' = [res EXCEPT !.hasReplaceSessionKeys = bpp.hasReplaceSessionKeys]
     ELSE /\ at' = "done"
          /\ \E b \in BOOLEAN : res' = [res EXCEPT !.hasReplaceSessionKeys = b]
  /\ UNCHANGED <<tx, rx, bpp, next, faults>>

\* Step 1: the first element only.
ConfigureIsdp ==
  /\ at = "isdp"
  /\ LET v == decrypt_and_verify(rx.session, bpp.configureIsdp, 1, TRUE)
     IN  IF ~v.ok THEN Throw
         ELSE /\ rx' = [rx EXCEPT !.session = v.bsp]
              /\ res' = [res EXCEPT !.configureIsdp = <<v.data>>]
              /\ at' = "metadata" /\ next' = 1
              /\ UNCHANGED <<tx, bpp, faults>>

\* Step 2: all elements, MAC only.
StoreMetadata ==
  /\ at = "metadata" /\ next <= Len(bpp.storeMetadata)
  /\ LET v == decrypt_and_verify(rx.session, bpp.storeMetadata, next, FALSE)
     IN  IF ~v.ok THEN Throw
         ELSE /\ rx' = [rx EXCEPT !.session = v.bsp]
              /\ res' = [res EXCEPT !.storeMetadata = Append(@, v.data)]
              /\ next' = next + 1
              /\ UNCHANGED <<at, tx, bpp, faults>>

MetadataDone ==
  /\ at = "metadata" /\ next > Len(bpp.storeMetadata)
  /\ at' = IF res.hasReplaceSessionKeys THEN "replace" ELSE "profile"
  /\ next' = 1
  /\ UNCHANGED <<tx, rx, bpp, res, faults>>

\* Steps 3 and 4: the keys are parsed, a new instance is made of them.
ReplaceSessionKeys ==
  /\ at = "replace"
  /\ LET v == decrypt_and_verify(rx.session, bpp.replaceSessionKeys, 1, TRUE)
         k == parse_replace_session_keys(v.data)
     IN  IF ~v.ok \/ ~k.ok THEN Throw
         ELSE /\ rx' = [session |-> v.bsp, replaced |-> TRUE,
                        ppk |-> from_replace_session_keys(k.rsk)]
              /\ at' = "profile" /\ next' = 1
              /\ UNCHANGED <<tx, bpp, res, faults>>

\* Step 5 (step 3 without ReplaceSessionKeys): all elements, under the PPK if
\* there is one, else under the session keys.
ProfileData ==
  /\ at = "profile" /\ next <= Len(bpp.profileData)
  /\ LET b == IF rx.replaced THEN rx.ppk ELSE rx.session
         v == decrypt_and_verify(b, bpp.profileData, next, TRUE)
     IN  IF ~v.ok THEN Throw
         ELSE /\ rx' = IF rx.replaced THEN [rx EXCEPT !.ppk = v.bsp]
                                      ELSE [rx EXCEPT !.session = v.bsp]
              /\ res' = [res EXCEPT !.profileData = Append(@, v.data)]
              /\ next' = next + 1
              /\ UNCHANGED <<at, tx, bpp, faults>>

ProfileDone ==
  /\ at = "profile" /\ next > Len(bpp.profileData)
  /\ at' = "done"
  /\ UNCHANGED <<tx, rx, bpp, next, res, faults>>

-----------------------------------------------------------------------------
Sender == ProtectConfigureIsdp \/ ProtectMetadata \/ ProtectReplaceSessionKeys
          \/ ProtectProfile \/ Send
Channel == Misdeliver \/ Alter \/ LoseReplaceSessionKeys \/ Damage
process_bound_profile_package ==
  Decode \/ ConfigureIsdp \/ StoreMetadata \/ MetadataDone \/ ReplaceSessionKeys
  \/ ProfileData \/ ProfileDone

BspStep == Sender \/ Channel \/ process_bound_profile_package

BspSpec == Idle /\ [][(\E s, r \in Keys : Start(s, r)) \/ BspStep]_bspVars

-----------------------------------------------------------------------------
IsPrefixOf(s, t) == Len(s) <= Len(t) /\ \A i \in 1..Len(s) : s[i] = t[i]

\* Whatever happens on the way, an instance of the receiver has at any time
\* verified exactly the first segments that the sender's instance with the same
\* key has protected, each with its tag and payload and in that order; with
\* another key it has verified none (the chaining in bsp_crypto.cc).
VerifiedInOrder ==
  \A instance \in {"session", "ppk"} :
    LET r == rx[instance]
        t == tx[instance]
    IN  r.mac_chain # <<>> => r.key = t.key /\ IsPrefixOf(r.mac_chain, t.mac_chain)

\* The places of the entries of a chain with a tag, and of what a list holds when
\* it begins after the first entries.
Tagged(chain, tag) == {i \in 1..Len(chain) : chain[i].tag = tag}
Places(first, list) == (first + 1)..(first + Len(list))
DataAt(first, list, chain) ==
  \A i \in 1..Len(list) : list[i] = chain[first + i].payload.data

\* The list holds the data of all entries with the tag, or of the first of them.
AllHanded(list, chain, tag) ==
  \E first \in 0..Len(chain) :
    Places(first, list) = Tagged(chain, tag) /\ DataAt(first, list, chain)
FirstHanded(list, chain, tag) ==
  \E first \in 0..Len(chain) :
    /\ Places(first, list) \subseteq Tagged(chain, tag) /\ DataAt(first, list, chain)
    /\ \A p \in Tagged(chain, tag) : p > first

Accepted ==
  /\ at = "done" /\ res.configureIsdp # <<>>
  /\ res.storeMetadata # <<>> /\ res.profileData # <<>>

\* A package the test goes on with (none of the three fields is empty) carries the
\* ConfigureISDP and all the metadata of the sender, the profile up to some
\* segment, and says truly whether the keys were replaced.
AcceptedAsSent ==
  Accepted =>
    /\ res.configureIsdp = <<tx.session.mac_chain[1].payload.data>>
    /\ AllHanded(res.storeMetadata, tx.session.mac_chain, 88)
    /\ FirstHanded(res.profileData,
                   IF tx.replaced THEN tx.ppk.mac_chain ELSE tx.session.mac_chain, 86)
    /\ res.hasReplaceSessionKeys = tx.replaced

\* A package that arrives as it was sent, under the same keys, is accepted with the
\* whole profile, unless its keys are encoded as generate_replace_session_keys_data()
\* does: the two sides count their blocks alike and change keys at the same segment.
UndisturbedAccepted ==
  (/\ at \in {"done", "error"} /\ faults = 0 /\ tx.session.key = rx.session.key
   /\ tx.replaced => bpp.replaceSessionKeys[1].payload.data = PPK)
  => Accepted /\ Len(res.profileData) = Len(bpp.profileData)
=============================================================================
