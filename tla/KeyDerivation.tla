---------------------------- MODULE KeyDerivation ----------------------------
(***************************************************************************)
(* The key derivation functions of 4G (library/lte_crypto) and 5G          *)
(* (library/ng_crypto): HMAC-SHA-256 of a key over FC, parameters and      *)
(* their lengths.  HMAC is ideal: equal for equal inputs only.  A key is   *)
(* the set of its atoms, as in Milenage.                                   *)
(***************************************************************************)
EXTENDS Milenage, Sequences

gnutls_hmac_fast(key, s) == {<<"hmac", key, s>>}

\* The octets 16 to 31 of a derived key.
Upper(key) == {<<"upper", a>> : a \in key}

\* CK || IK
Concat(ck, ik) == {<<"concat", ck, ik>>}

\* A parameter of length octets, followed by its length.
Param(p, length) == <<p, length>>

kdf_kausf(ck, ik, ssn, autn) ==
  gnutls_hmac_fast(Concat(ck, ik), <<106>> \o Param(ssn.name, ssn.len) \o Param(autn.sqn_ak, 6))

kdf_xres_star(ssn, ck, ik, rand, xres) ==
  Upper(gnutls_hmac_fast(Concat(ck, ik), <<107>> \o Param(ssn.name, ssn.len) \o Param(rand, 16)
                                     \o Param(xres, 8)))

kdf_kseaf(kausf, ssn) == gnutls_hmac_fast(kausf, <<108>> \o Param(ssn.name, ssn.len))

kdf_kamf(kseaf, supi, abba) ==
  gnutls_hmac_fast(kseaf, <<109>> \o Param(supi.name, supi.len) \o Param(abba, 2))

kdf_ng_nas_algo(kamf, algo_type, algo_id) ==
  gnutls_hmac_fast(kamf, <<105>> \o Param(algo_type, 1) \o Param(algo_id, 1))

\* Algorithm type distinguishers.
NasEnc == 1
NasInt == 2

hss_auc_kasme(ck, ik, plmn_id, sqn, ak) ==
  gnutls_hmac_fast(Concat(ck, ik), <<16>> \o Param(plmn_id, 3) \o Param(Xor(sqn, ak), 6))

mme_kdf_nas(algorithm_type, algorithm_identity, kasme) ==
  Upper(gnutls_hmac_fast(kasme, <<21>> \o Param(algorithm_type, 1) \o Param(algorithm_identity, 1)))

mme_kdf_enb(kasme, ul_count) == gnutls_hmac_fast(kasme, <<17>> \o Param(ul_count, 4))

mme_kdf_nh(kasme, sync_input) == gnutls_hmac_fast(kasme, <<18>> \o Param(sync_input, 32))

\* With the function code of the eNB key.
mme_kdf_nas_token_Mistake(kasme, ul_count) ==
  gnutls_hmac_fast(kasme, <<17>> \o Param(ul_count, 4))

mme_kdf_nas_token(kasme, ul_count) == gnutls_hmac_fast(kasme, <<23>> \o Param(ul_count, 4))

\* The functions of LTE_CryptoFunctionDefs.cc that choose the key type.
f__kdf__nas__int(alg_id, kasme) == mme_kdf_nas(NasInt, alg_id, kasme)
f__kdf__nas__enc(alg_id, kasme) == mme_kdf_nas(NasEnc, alg_id, kasme)
=============================================================================
