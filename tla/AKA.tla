--------------------------------- MODULE AKA ---------------------------------
(***************************************************************************)
(* Authentication and key agreement of the emulated UE (5gc/ConnHdlr.ttcn, *)
(* as_ngap_handle_auth) with a network, on top of MILENAGE and the key     *)
(* derivation functions.  The network is what the tests need it to be: an  *)
(* authentication centre that counts SQN, checks AUTS with milenage_auts   *)
(* and RES* against its own; it may be provisioned with another key, and   *)
(* it may send one AUTN with a flipped bit.  A message names the challenge *)
(* it is about; operators give the octets it carries.                      *)
(***************************************************************************)
EXTENDS KeyDerivation

CONSTANTS FirstSqns,   \* sequence numbers the network may start with
          MaxSqn,      \* bound on the network's sequence number
          MaxRands,    \* bound on the number of challenges
          MaxRegs,     \* how often the UE registers
          Flips        \* bits of AUTN that may be flipped: pairs <<part, bit>>

ASSUME AKAAssumption ==
  /\ MaxSqn \in Nat /\ MaxRands \in Nat /\ MaxRegs \in Nat
  /\ FirstSqns \subseteq 0..MaxSqn
  /\ Flips \subseteq {"sqn_ak", "amf", "mac"} \X (0..15)

VARIABLES ue,        \* the ConnHdlr: where f_register is, resync allowed, its challenge
          net,       \* the network: its verdict, next sqn, challenge, challenges so far
          dl, ul,    \* the message under way to the UE, to the network
          regs,      \* registrations so far
          altered,   \* an AUTN has been altered
          ke         \* the key the network holds

vars == <<ue, net, dl, ul, regs, altered, ke>>

Kinds == {"usim", "other"}
NoFlip == <<"none", 0>>
Challenges == [rand : 1..MaxRands, sqn : 0..MaxSqn, flip : Flips \cup {NoFlip}]
NoChallenge == [rand |-> 0, sqn |-> 0, flip |-> NoFlip]
Message(type, c) == [type |-> type, of |-> c]
Nothing == Message("none", NoChallenge)

\* The UE hands its key over as OPc and its OPc as key: a network agrees with it
\* when it is provisioned the same way.
usim_key == Block("usim_key")
usim_opc == Block("usim_opc")
Ki(kind) == IF kind = "usim" THEN usim_opc ELSE Block("other_opc")

Amf  == Number(32768)
ssn  == [name |-> "serving network", len |-> 32]
imsi == [name |-> "imsi", len |-> 15]
abba == 0
my_sqn == Number(0)

\* The network's vector for a challenge, and the AUTN the UE gets.
Vector(kind, c) == milenage_generate(usim_key, Amf, Ki(kind), Number(c.sqn), Random(c.rand))
Autn(kind, c) ==
  LET autn == Vector(kind, c).autn
  IN  IF c.flip = NoFlip THEN autn
      ELSE [autn EXCEPT ![c.flip[1]] = Xor(@, {Bit(c.flip[2])})]

\* The 5G keys and RES*.
g_keys(ck, ik, res, rand, autn) ==
  LET kausf == kdf_kausf(ck, ik, ssn, autn)
      kseaf == kdf_kseaf(kausf, ssn)
      kamf  == kdf_kamf(kseaf, imsi, abba)
  IN  [kausf |-> kausf, kseaf |-> kseaf, kamf |-> kamf,
       k_nas_int |-> kdf_ng_nas_algo(kamf, NasInt, 1),
       k_nas_enc |-> kdf_ng_nas_algo(kamf, NasEnc, 0),
       res_star |-> kdf_xres_star(ssn, ck, ik, rand, res)]

\* What each side makes of each challenge: the keys of the network, and every
\* result the UE can get.  (Sets, for TLC to compute once.)
Expected ==
  {[kind |-> kind, of |-> c,
    keys |-> LET v == Vector(kind, c) IN g_keys(v.ck, v.ik, v.res, Random(c.rand), v.autn)] :
     kind \in Kinds, c \in Challenges}

Checked(kind, c) ==
  f__milenage__check(usim_key, usim_opc, my_sqn, Random(c.rand), Autn(kind, c))

\* CK and IK in each other's place.
Handled_Mistake ==
  UNION {{[kind |-> kind, of |-> c, rc |-> r.rc, auts |-> r.auts,
           keys |-> g_keys(r.ik, r.ck, r.res, Random(c.rand), Autn(kind, c))] :
            r \in Checked(kind, c)} : kind \in Kinds, c \in Challenges}

Handled ==
  UNION {{[kind |-> kind, of |-> c, rc |-> r.rc, auts |-> r.auts,
           keys |-> g_keys(r.ck, r.ik, r.res, Random(c.rand), Autn(kind, c))] :
            r \in Checked(kind, c)} : kind \in Kinds, c \in Challenges}

\* The keys of either side, and the AUTS of a message of the UE.
NetworkKeys(kind, c) == (CHOOSE v \in Expected : v.kind = kind /\ v.of = c).keys
UeKeys(kind, c) == (CHOOSE r \in Handled : r.kind = kind /\ r.of = c).keys
UeAuts(kind, c) == (CHOOSE r \in Handled : r.kind = kind /\ r.of = c /\ r.rc = -2).auts

-----------------------------------------------------------------------------
Init ==
  /\ ue  = [at |-> "idle", allow_resync |-> TRUE, of |-> NoChallenge]
  /\ net \in [at : {"idle"}, sqn : FirstSqns, of : {NoChallenge}, rands : {0}]
  /\ dl = Nothing /\ ul = Nothing
  /\ regs = 0 /\ altered = FALSE
  /\ ke \in Kinds

\* f_register() up to as_ngap_handle_auth().
f_register ==
  /\ ue.at \in {"idle", "registered"} /\ regs < MaxRegs
  /\ ul = Nothing /\ dl = Nothing
  /\ ul' = Message("registration request", NoChallenge)
  /\ ue' = [ue EXCEPT !.at = "auth", !.allow_resync = TRUE]
  /\ regs' = regs + 1
  /\ UNCHANGED <<net, dl, altered, ke>>

\* A challenge from the network with the sequence number sqn, altered or not.
Challenge(sqn) ==
  /\ sqn < MaxSqn /\ net.rands < MaxRands
  /\ LET c == [rand |-> net.rands + 1, sqn |-> sqn, flip |-> NoFlip]
     IN  /\ net' = [at |-> "challenged", sqn |-> sqn + 1, of |-> c, rands |-> c.rand]
         /\ \/ dl' = Message("authentication request", c) /\ UNCHANGED altered
            \/ /\ ~altered /\ altered' = TRUE
               /\ \E f \in Flips : dl' = Message("authentication request", [c EXCEPT !.flip = f])

NetRegistration ==
  /\ ul.type = "registration request"
  /\ Challenge(net.sqn)
  /\ ul' = Nothing
  /\ UNCHANGED <<ue, regs, ke>>

\* AUTHENTICATION FAILURE: the network takes the sequence number from a valid
\* AUTS and challenges again; otherwise it gives up.
NetResync ==
  /\ ul.type = "authentication failure"
  /\ LET a == milenage_auts(usim_key, Ki(ke), Random(net.of.rand), UeAuts(ke, ul.of))
     IN  \/ a.rc = 0 /\ Challenge(Value(a.sqn) + 1)
         \/ /\ a.rc # 0
            /\ net' = [net EXCEPT !.at = "rejected"]
            /\ UNCHANGED <<dl, altered>>
  /\ ul' = Nothing
  /\ UNCHANGED <<ue, regs, ke>>

\* AUTHENTICATION RESPONSE: the network goes on with the security mode when RES*
\* is the expected one.
NetResponse ==
  /\ ul.type = "authentication response"
  /\ LET ok == UeKeys(ke, ul.of).res_star = NetworkKeys(ke, net.of).res_star
     IN  /\ net' = [net EXCEPT !.at = IF ok THEN "accepted" ELSE "rejected"]
         /\ dl' = IF ok THEN Message("security mode command", NoChallenge) ELSE dl
  /\ ul' = Nothing
  /\ UNCHANGED <<ue, regs, altered, ke>>

\* as_ngap_handle_auth(): the test fails for a wrong MAC, and for a sequence
\* number that is still too old after AUTS.
as_ngap_handle_auth ==
  /\ ue.at = "auth" /\ dl.type = "authentication request"
  /\ dl' = Nothing
  /\ \E r \in {r \in Handled : r.kind = ke /\ r.of = dl.of} :
       \/ /\ r.rc = -2 /\ ue.allow_resync
          /\ ul' = Message("authentication failure", dl.of)
          /\ ue' = [ue EXCEPT !.allow_resync = FALSE]
       \/ /\ r.rc = -1 \/ (r.rc = -2 /\ ~ue.allow_resync)
          /\ ue' = [ue EXCEPT !.at = "failed"]
          /\ UNCHANGED ul
       \/ /\ r.rc = 0
          /\ ue' = [ue EXCEPT !.at = "secmode", !.of = dl.of]
          /\ ul' = Message("authentication response", dl.of)
  /\ UNCHANGED <<net, regs, altered, ke>>

\* as_ngap_handle_sec_mode() and the rest of f_register().
as_ngap_handle_sec_mode ==
  /\ ue.at = "secmode" /\ dl.type = "security mode command"
  /\ ue' = [ue EXCEPT !.at = "registered"]
  /\ dl' = Nothing
  /\ UNCHANGED <<net, ul, regs, altered, ke>>

UE == f_register \/ as_ngap_handle_auth \/ as_ngap_handle_sec_mode
Network == NetRegistration \/ NetResync \/ NetResponse
Next == UE \/ Network

Spec == Init /\ [][Next]_vars
FairSpec == Spec /\ WF_vars(as_ngap_handle_auth) /\ WF_vars(as_ngap_handle_sec_mode)
                 /\ WF_vars(Network)

-----------------------------------------------------------------------------
TypeOK ==
  /\ ue \in [at : {"idle", "auth", "secmode", "registered", "failed"},
             allow_resync : BOOLEAN, of : Challenges \cup {NoChallenge}]
  /\ net \in [at : {"idle", "challenged", "accepted", "rejected"}, sqn : 0..MaxSqn,
              of : Challenges \cup {NoChallenge}, rands : 0..MaxRands]
  /\ regs \in 0..MaxRegs /\ altered \in BOOLEAN /\ ke \in Kinds

\* The UE answers a challenge only when it comes unaltered from a network that
\* holds its key and with a sequence number above its own; once the network has
\* accepted the answer both hold the same keys.  (milenage_check,
\* as_ngap_handle_auth, kdf_kausf..kdf_ng_nas_algo.)
KeysAgree ==
  ue.at \in {"secmode", "registered"} =>
    /\ ke = "usim" /\ ue.of = net.of /\ ue.of.sqn > 0
    /\ net.at # "rejected" /\ UeKeys(ke, ue.of) = NetworkKeys(ke, net.of)

\* Everything derived from one challenge, 2G, 4G and 5G, under the code's names.
AllKeys(kind, c) ==
  LET f     == milenage_f2345(usim_key, Ki(kind), Random(c.rand))
      gsm   == gsm_milenage(usim_key, Ki(kind), Random(c.rand))
      kasme == hss_auc_kasme(f.ck, f.ik, "plmn", Number(c.sqn), f.ak)
      k     == NetworkKeys(kind, c)
  IN  <<f.ck, f.ik, f.res, f.ak, f.akstar, gsm.kc, gsm.sres, k.kausf, k.kseaf, k.kamf,
        k.k_nas_int, k.k_nas_enc, k.res_star, kasme, f__kdf__nas__int(1, kasme),
        f__kdf__nas__enc(1, kasme), mme_kdf_enb(kasme, 0), mme_kdf_enb(kasme, 1),
        mme_kdf_nh(kasme, mme_kdf_enb(kasme, 0)),
        mme_kdf_nas_token(kasme, 0), mme_kdf_nas_token(kasme, 1)>>

\* No two keys of one authentication are the same: the rotations and constants
\* of MILENAGE and the function codes keep apart what is derived from the same
\* key.  (milenage_f2345, gsm_milenage, kdf_kausf..kdf_ng_nas_algo,
\* mme_kdf_nas..mme_kdf_nas_token, hss_auc_kasme.)
KeysSeparated ==
  ue.at = "secmode" => IsInjective(AllKeys(ke, net.of))

\* Every registration with a network that holds the key ends, and with the UE
\* registered, or with a failed test after an altered AUTN: an old sequence number
\* is resynchronised with one AUTS, which the network accepts.  (The -2 branch of
\* milenage_check and as_ngap_handle_auth, milenage_auts.)
RegistrationEnds ==
  ue.at = "auth" /\ ke = "usim" ~> ue.at = "registered" \/ (altered /\ ue.at = "failed")
=============================================================================
