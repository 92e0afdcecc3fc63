-------------------------------- MODULE SMDPP --------------------------------
(***************************************************************************)
(* The eUICC side of a profile download as smdpp/smdpp_Tests.ttcn plays it *)
(* with RSPClient and BspCrypto, against an SM-DP+ that may be at fault:   *)
(*   "complete_flow"  f_TC_rsp_complete_flow                               *)
(*   "full_flow"      f_TC_ES2Plus_ES9Plus_FullFlow                        *)
(*   "cc_retry"       the wrong, then the right confirmation code          *)
(* A request and its answer are one step: the client waits for it.         *)
(***************************************************************************)
EXTENDS BSP, RSPClient, Integers

CONSTANTS Servers,   \* [fault, honest, tls, es2tls, auth, pb, curve]
          Curves,    \* cert_name_filter of a test
          EIDs       \* the EID in the eUICC certificate, and another

VARIABLES server, clients, nextHandle,
          ct,        \* the variables of smdpp_ConnHdlr and of the test function
          pc, verdict

flowVars == <<server, clients, nextHandle, ct, pc, verdict>>

Issuer == <<"sgp26", "CertificateIssuer">>  \* g_pars_smdpp.cert_path
dp_auth == "2.23.146.1.2.1.4"               \* c_oid_rspRole_dp_auth
dp_pb   == "2.23.146.1.2.1.5"               \* c_oid_rspRole_dp_pb

\* The certificates of smdpp/sgp26 and of the servers: whatever signs itself is a key of
\* the CI, nothing else is in the CI's directory, the eUICC's certificate for a curve has
\* a key on it and the EID, and the CI signs keys on the curve of its own.
ASSUME LayoutAssumption ==
  /\ \A f \in CertFiles : \A i \in 1..Len(loadCertificateChain(f)) :
       LET cert == loadCertificateChain(f)[i] IN
       SelfSigned(cert) => cert.key = [owner |-> "CI", curve |-> getCurveOID(cert)]
  /\ \A l \in loadCertificatesFromDirectory(Issuer, {}) : SelfSigned(l.cert)
  /\ \A curve \in Curves :
       LET cert == xx_loadCertificate(<<"sgp26", "eUICC">>, "CERT_EUICC_" \o curve) IN
       cert # NoCert => getCurveOID(cert) = curve /\ getEID(cert) = EIDs[1]
  /\ \A s \in Servers : \A cert \in {s.auth, s.pb} :
       getAuthorityKeyIdentifier(cert).owner = "CI" =>
         getCurveOID(cert) = getAuthorityKeyIdentifier(cert).curve

\* What the first one-time keys of both sides give the KDF.
ASSUME SessionKeysAssumption ==
  \A curve \in Curves, i \in {1, 2} :
    [secret |-> {OtKey("eUICC", curve, 1), OtKey("DP", curve, 1)},
     hostId |-> "host", eid |-> EIDs[i]] \in Keys

\* The CI of a curve: the one self-signed certificate, in two files (DER and PEM).
TestCI(ci, curve) ==
  /\ SelfSigned(ci) /\ ci.ca /\ ci.current /\ getCurveOID(ci) = curve
  /\ \A dir \in {Issuer, <<"sgp26">>} :
       LET loaded == loadCertificatesFromDirectory(dir, {curve}) IN
       /\ \A l \in loaded : SelfSigned(l.cert) => l.cert = ci
       /\ \E k, l \in loaded : k # l /\ k.cert = ci /\ l.cert = ci

\* The eUICC and the EUM of a curve, with their private keys.
TestEuicc(ci, curve) ==
  LET euicc == xx_loadCertificate(<<"sgp26", "eUICC">>, "CERT_EUICC_" \o curve)
      eum   == xx_loadCertificate(<<"sgp26", "EUM">>, "CERT_EUM_" \o curve)
  IN  /\ euicc # NoCert /\ euicc.current /\ Issued(eum, euicc) /\ validateEIDRange(getEID(euicc), eum)
      /\ eum # NoCert /\ eum.current /\ eum.ca /\ Issued(ci, eum)
      /\ xx_loadPrivateKey(<<"sgp26", "eUICC">>, "SK_EUICC_" \o curve, NoKey).ok
      /\ xx_loadPrivateKey(<<"sgp26", "EUM">>, "SK_EUM_" \o curve, NoKey).ok

\* What an honest server shows and does: certificates of the CI that smdpp/sgp26 has the
\* eUICC's files for, of the two roles and on its curve, and no fault.
ASSUME HonestAssumption ==
  \A s \in Servers : s.honest =>
    /\ s.fault \in {"none", "ccRequired"} /\ s.curve \in {"NIST", "BRP"}
    /\ \A dir \in {"EUM", "DPtls"} : find_cert_files(<<"sgp26", dir>>, {}) # {}
    /\ \E ci \in CertsOf(loadCertificatesFromDirectory(Issuer, {s.curve})) :
         /\ TestCI(ci, s.curve) /\ TestEuicc(ci, s.curve)
         /\ \A cert \in {s.tls, s.auth, s.pb} : cert.current /\ Issued(ci, cert)
    /\ \A cert \in {s.auth, s.pb} : cert # NoCert /\ getCurveOID(cert) = s.curve
    /\ hasRSPRole(s.auth, dp_auth) /\ hasRSPRole(s.pb, dp_pb)
    /\ \E ci \in CertsOf(loadCertificatesFromDirectory(Issuer, {"NIST"})) :
         TestCI(ci, "NIST") /\ TestEuicc(ci, "NIST") /\ s.es2tls.current /\ Issued(ci, s.es2tls)

f_get_ci_pkids_list(curve) ==
  {[owner |-> "CI", curve |-> curve]}
  \cup (IF curve = "BRP" THEN {} ELSE {[owner |-> "CI2", curve |-> "NIST"]})

Sign(data, key) == convertDER_to_BSI_TR03111(signDataWithKey(data, key))

ServerSigned1(s) == <<"serverSigned1", s.transactionId, s.euiccChallenge, s.serverChallenge>>
SmdpSigned2(s, sig) == <<"smdpSigned2", s.transactionId, s.ccRequiredFlag, sig>>
EuiccSigned1(s) == <<"euiccSigned1", s.transactionId, s.serverChallenge, s.matchingId>>
EuiccSigned2(s, sig) == <<"euiccSigned2", s.transactionId, s.euiccOtpk, s.hashCc, sig>>
InitialiseSecureChannelRequest_ver(tid, isc, otpk) ==
  <<"initialiseSecureChannel", tid, isc.hostId, isc.smdpOtpk, otpk>>

-----------------------------------------------------------------------------
\* The SM-DP+ under test, one fault each.
Transaction == IF server.fault = "transaction" THEN "t0" ELSE "t1"
Status(step) == IF server.fault = step THEN 500 ELSE 200

InitiateAuthenticationOk(challenge) ==
  LET s == [transactionId |-> "t1", serverChallenge |-> "s1",
            euiccChallenge |-> IF server.fault = "challenge" THEN "c0" ELSE challenge]
      signed == IF server.fault = "signature1" THEN [s EXCEPT !.serverChallenge = "s0"] ELSE s
  IN  [transactionId |-> Transaction, serverSigned1 |-> s,
       serverSignature1 |-> Sign(ServerSigned1(signed), server.auth.key),
       serverCertificate |-> server.auth,
       euiccCiPKIdToBeUsed |-> [owner |-> IF server.fault = "pkid" THEN "CI3" ELSE "CI",
                                curve |-> server.curve]]

CcRequired(matchingId) == server.fault = "ccRequired" \/ matchingId = "CC_REQUIRED_TEST"

AuthenticateClientOk(matchingId, euiccSignature1) ==
  LET s == [transactionId |-> IF server.fault = "transaction2" THEN "t0" ELSE "t1",
            ccRequiredFlag |-> CcRequired(matchingId)]
      of == IF server.fault = "signature2" THEN NoSignature ELSE euiccSignature1
  IN  [transactionId |-> "t1", smdpSigned2 |-> s,
       smdpSignature2 |-> Sign(SmdpSigned2(s, of), server.pb.key),
       smdpCertificate |-> server.pb]

InitialiseSecureChannel(otpk) ==
  LET isc == [transactionId |-> IF server.fault = "transaction3" THEN "t0" ELSE "t1",
              hostId |-> "host", wellFormed |-> server.fault # "malformed",
              smdpOtpk |-> OtKey("DP", CASE server.fault = "otpkSize" -> "P384"
                                         [] server.fault = "otpkCurve" ->
                                              (IF otpk.curve = "NIST" THEN "BRP" ELSE "NIST")
                                         [] OTHER -> otpk.curve, 1)]
      of  == IF server.fault = "staleOtpk" THEN OtKey("eUICC", otpk.curve, 0) ELSE otpk
  IN  [isc |-> isc,
       smdpSign |-> Sign(InitialiseSecureChannelRequest_ver("t1", isc, of), server.pb.key)]

\* What the server puts into its KDF.
ServerKey(otpk, isc) ==
  [secret |-> {otpk, isc.smdpOtpk}, hostId |-> isc.hostId,
   eid |-> IF server.fault = "eid" THEN EIDs[2] ELSE EIDs[1]]

CodeAccepted(request) ==
  CcRequired(ct.matchingId) => request.hashCc = computeConfirmationCodeHash("12345678", "t1")

-----------------------------------------------------------------------------
NoOk2 == [smdpSigned2 |-> [ccRequiredFlag |-> FALSE], smdpSignature2 |-> NoSignature,
          smdpCertificate |-> NoCert]
NoRequest == [euiccOtpk |-> NoOtKey, hashCc |-> NoHash]
NoIsc == [isc |-> [smdpOtpk |-> NoOtKey], smdpSign |-> NoSignature]

Init ==
  /\ server \in Servers /\ clients = <<>> /\ nextHandle = 1
  /\ \E test \in {"complete_flow", "full_flow", "cc_retry"}, curve \in Curves :
       ct = [test |-> test, curve |-> curve, es9p |-> -1, es2p |-> -1,
             euiccChallenge |-> "", transactionId |-> "", serverChallenge |-> "",
             serverCert |-> NoCert, matchingId |-> "", auok |-> NoOk2,
             otpks |-> 0, request |-> NoRequest, isc |-> NoIsc]
  /\ pc = "init" /\ verdict = "none"
  /\ Idle /\ tx = Side(CHOOSE k \in Keys : TRUE) /\ rx = tx

Goto(where, c, registry) ==
  pc' = where /\ ct' = c /\ clients' = registry /\ UNCHANGED <<server, verdict>>

\* The test ends where it is: f_shutdown(), mtc.stop, a bare return, or ("error") the
\* answer that is missing after an HTTP failure is used.
Stop(v, c, registry) ==
  pc' = "end" /\ verdict' = v /\ ct' = c /\ clients' = registry /\ UNCHANGED server

f_rsp_client_cleanup(v, c, registry) ==
  Stop(v, [c EXCEPT !.es9p = -1, !.es2p = -1],
       destroyClient(destroyClient(registry, c.es9p), c.es2p))

f_fail_and_cleanup(c) == f_rsp_client_cleanup("fail", c, clients)

f_init_es9plus ==
  /\ pc = "init"
  /\ \E made \in createClient(clients, nextHandle, Issuer, ct.curve) :
       LET h  == made.handle
           r1 == ext_RSPClient_loadEUICCCertificate(made.clients, h, <<"sgp26", "eUICC">>,
                                                    "CERT_EUICC_" \o ct.curve)
           r2 == ext_RSPClient_loadEUICCKeyPair(r1.clients, h, <<"sgp26", "eUICC">>,
                                                "SK_EUICC_" \o ct.curve)
           r3 == ext_RSPClient_configureHttpClient(r2.clients, h, TRUE)
           c  == [ct EXCEPT !.es9p = h]
       IN  IF h < 0 THEN Stop("fail", c, made.clients)
           ELSE IF r1.rc # 0 \/ r2.rc # 0 \/ r3.rc # 0
           THEN f_rsp_client_cleanup("none", c, r3.clients)
           ELSE Goto(IF ct.test = "full_flow" THEN "es2plus" ELSE "initiate", c, r3.clients)
  /\ nextHandle' = nextHandle + 1
  /\ UNCHANGED bspVars

f_init_es2plus ==
  /\ pc = "es2plus"
  /\ \E made \in createClient(clients, nextHandle, <<"sgp26">>, "NIST") :
       LET r == ext_RSPClient_setAuthParams(made.clients, made.handle, TRUE)
           c == [ct EXCEPT !.es2p = made.handle]
       IN  IF made.handle < 0 \/ r.rc # 0 THEN Stop("fail", c, r.clients)
           ELSE Goto("downloadOrder", c, r.clients)
  /\ nextHandle' = nextHandle + 1
  /\ UNCHANGED bspVars

\* One ES2+ request.
Order(step, next_step, c) ==
  /\ pc = step
  /\ IF ext_RSPClient_sendHttpsPostWithAuth(clients, ct.es2p, server.es2tls, Status(step)) # 200
     THEN f_fail_and_cleanup(ct)
     ELSE Goto(next_step, c, clients)
  /\ UNCHANGED <<nextHandle, bspVars>>

DownloadOrder == Order("downloadOrder", "confirmOrder", ct)
ConfirmOrder  == Order("confirmOrder", "initiate", [ct EXCEPT !.matchingId = "m1"])

\* f_validate_initiate_authentication_response() of the answer stored in c.
InitiateValid(c, ok) ==
  /\ ok.serverSigned1.transactionId = c.transactionId
  /\ ok.serverSigned1.euiccChallenge = c.euiccChallenge
  /\ ext_RSPClient_verifyServerSignature(clients, c.es9p, ServerSigned1(ok.serverSigned1),
                                         ok.serverSignature1, c.serverCert)

InitiateAuthentication ==
  /\ pc = "initiate"
  /\ LET ok == InitiateAuthenticationOk("c1")
         c  == [ct EXCEPT !.euiccChallenge = "c1", !.transactionId = ok.transactionId,
                          !.serverCert = ok.serverCertificate,
                          !.serverChallenge = ok.serverSigned1.serverChallenge]
     IN  IF ext_RSPClient_sendHttpsPost(clients, ct.es9p, server.tls, Status("initiate")) # 200
         THEN Stop("error", [ct EXCEPT !.euiccChallenge = "c1"], clients)
         ELSE IF ~InitiateValid(c, ok) THEN f_fail_and_cleanup(c)
         ELSE IF ct.test = "complete_flow"
                 /\ ok.euiccCiPKIdToBeUsed \notin f_get_ci_pkids_list(ct.curve)
         THEN Stop("fail", c, clients)
         ELSE Goto(IF ct.test = "complete_flow" THEN "provision" ELSE "authenticate",
                   IF ct.test = "cc_retry" THEN [c EXCEPT !.matchingId = "CC_REQUIRED_TEST"]
                   ELSE c, clients)
  /\ UNCHANGED <<nextHandle, bspVars>>

\* f_provision_profile_via_es2plus(): the parameters go to the ES9+ client, the
\* request to the ES2+ client, which this test does not have: no matching id.
ProvisionProfile ==
  /\ pc = "provision"
  /\ LET r == ext_RSPClient_setAuthParams(clients, ct.es9p, TRUE)
         status == ext_RSPClient_sendHttpsPostWithAuth(r.clients, ct.es2p, server.es2tls, 200)
     IN  IF r.rc # 0 THEN Stop("fail", ct, r.clients)
         ELSE Goto("authenticate",
                   [ct EXCEPT !.matchingId = IF status # 200 THEN "" ELSE "m1"], r.clients)
  /\ UNCHANGED <<nextHandle, bspVars>>

\* complete_flow checks both transactions and the signature, full_flow the outer
\* transaction, cc_retry nothing.
AuthenticateClientValid(ok, euiccSignature1) ==
  /\ ok.transactionId = ct.transactionId
  /\ ok.smdpSigned2.transactionId = ct.transactionId
  /\ ext_RSPClient_verifyServerSignature(
       clients, ct.es9p, SmdpSigned2(ok.smdpSigned2, euiccSignature1),
       ok.smdpSignature2, ok.smdpCertificate)

f_validate_certificate_roles(authCert, pbCert) ==
  hasRSPRole(authCert, dp_auth) /\ hasRSPRole(pbCert, dp_pb)

\* The registry after the transaction and the confirmation code are set.
WithCode(registry, handle, transactionId, code) ==
  ext_RSPClient_setConfirmationCode(
    ext_RSPClient_setTransactionId(registry, handle, transactionId).clients, handle, code).clients

EuiccDer == ext_RSPClient_getEUICCCertificate(clients, ct.es9p)
EumDer   == ext_RSPClient_getEUMCertificate(clients, ct.es9p)

AuthenticateClient ==
  /\ pc = "authenticate"
  /\ LET sig == ext_RSPClient_signDataWithEUICC(clients, ct.es9p, EuiccSigned1(ct))
         ok  == AuthenticateClientOk(ct.matchingId, sig)
         c   == [ct EXCEPT !.auok = ok]
         cc  == ok.smdpSigned2.ccRequiredFlag
         registry == IF cc THEN WithCode(clients, ct.es9p, ct.transactionId, "12345678")
                     ELSE clients
     IN  IF ext_RSPClient_sendHttpsPost(clients, ct.es9p, server.tls, Status("authenticate")) # 200
         THEN Stop("error", ct, clients)
         ELSE CASE ct.test = "complete_flow" ->
                     IF /\ AuthenticateClientValid(ok, sig)
                        /\ validateEIDRange(getEID(EuiccDer), EumDer)
                        /\ f_validate_certificate_roles(ct.serverCert, ok.smdpCertificate)
                     THEN Goto("package", c, registry)
                     ELSE f_rsp_client_cleanup("fail", c, registry)
                [] ct.test = "full_flow" ->
                     IF ok.transactionId = ct.transactionId THEN Goto("package", c, registry)
                     ELSE Stop("fail", c, clients)
                [] ct.test = "cc_retry" ->
                     IF cc THEN Goto("wrongCode", c,
                                     WithCode(clients, ct.es9p, ct.transactionId, "00000000"))
                     ELSE f_fail_and_cleanup(c)
  /\ UNCHANGED <<nextHandle, bspVars>>

\* f_create_get_bound_profile_package_request(), f_create_prepare_download_response():
\* a new one-time key each time, the hash if there is one.
NewOtpk == ext_RSPClient_generateEUICCOtpk(clients, ct.es9p, ct.otpks + 1).clients
PackageRequest(registry) ==
  LET otpk == ext_RSPClient_getEUICCOtpk(registry, ct.es9p)
      hash == ext_RSPClient_getConfirmationCodeHash(registry, ct.es9p)
  IN  [euiccOtpk |-> otpk, hashCc |-> hash,
       euiccSignature2 |-> ext_RSPClient_signDataWithEUICC(
          registry, ct.es9p,
          EuiccSigned2([transactionId |-> ct.transactionId, euiccOtpk |-> otpk, hashCc |-> hash],
                       ct.auok.smdpSignature2))]

\* cc_retry: the wrong code must be refused, then the right one is set.
WrongCode ==
  /\ pc = "wrongCode"
  /\ LET request == PackageRequest(NewOtpk)
         c == [ct EXCEPT !.otpks = @ + 1, !.request = request]
     IN  IF ext_RSPClient_sendHttpsPost(clients, ct.es9p, server.tls, Status("package")) # 200
         THEN Stop("error", c, NewOtpk)
         ELSE IF CodeAccepted(request) THEN f_rsp_client_cleanup("fail", c, NewOtpk)
         ELSE Goto("package", c,
                   ext_RSPClient_setConfirmationCode(NewOtpk, ct.es9p, "12345678").clients)
  /\ UNCHANGED <<nextHandle, bspVars>>

\* The two other tests pass with any package; that of f_TC_ES2Plus_ES9Plus_FullFlow
\* is validated, the outcome is not looked at.
GetBoundProfilePackage ==
  /\ pc = "package"
  /\ LET request == PackageRequest(NewOtpk)
         answer  == InitialiseSecureChannel(request.euiccOtpk)
         c == [ct EXCEPT !.otpks = @ + 1, !.request = request,
                         !.isc = [isc |-> answer.isc, smdpSign |-> answer.smdpSign]]
     IN  IF ext_RSPClient_sendHttpsPost(clients, ct.es9p, server.tls, Status("package")) # 200
         THEN Stop("error", c, NewOtpk)
         ELSE IF ~CodeAccepted(request)
         THEN Stop(IF ct.test = "complete_flow" THEN "error" ELSE "fail", c, NewOtpk)
         ELSE IF ct.test = "complete_flow" THEN Goto("ecdh", c, NewOtpk)
         ELSE f_rsp_client_cleanup("pass", c, NewOtpk)
  /\ UNCHANGED <<nextHandle, bspVars>>

f_validate_ecdh_and_signature ==
  /\ verifyECDHCompatible(ext_RSPClient_getEUICCOtpk(clients, ct.es9p), ct.isc.isc.smdpOtpk)
  /\ ext_RSPClient_verifyServerSignature(
       clients, ct.es9p,
       InitialiseSecureChannelRequest_ver(ct.transactionId, ct.isc.isc, ct.request.euiccOtpk),
       ct.isc.smdpSign, ct.auok.smdpCertificate)

EuiccChainValid(ci) ==
  ext_CertificateUtil_verifyCertificateChainWithIntermediate(EuiccDer, EumDer, ci)
DpChainValid(cert, ci) == ext_CertificateUtil_verifyCertificateChainDynamic(cert, Issuer, ci)

\* From f_validate_get_bound_profile_package_response() to the shared secret.
ValidatePackage ==
  /\ pc = "ecdh"
  /\ \E ci \in ext_RSPClient_getCICertificate(clients, ct.es9p) :
       LET isc    == ct.isc.isc
           secret == ext_RSPClient_computeSharedSecret(clients, ct.es9p, isc.smdpOtpk)
       IN  IF /\ isc.transactionId = ct.transactionId /\ isc.wellFormed
              /\ f_validate_ecdh_and_signature
              /\ validateEIDRange(getEID(EuiccDer), EumDer)
              /\ EuiccChainValid(ci) /\ DpChainValid(ct.auok.smdpCertificate, ci)
              /\ getCurveOID(EuiccDer) = getCurveOID(ct.auok.smdpCertificate)
              /\ secret # {}
           THEN /\ Start(ServerKey(ct.request.euiccOtpk, isc),
                         [secret |-> secret, hostId |-> isc.hostId, eid |-> getEID(EuiccDer)])
                /\ Goto("bsp", ct, clients)
           ELSE f_fail_and_cleanup(ct) /\ UNCHANGED bspVars
  /\ UNCHANGED nextHandle

\* ext_BSP_processBoundProfilePackage() of the package of the server.
ProcessBoundProfilePackage == pc = "bsp" /\ BspStep /\ UNCHANGED flowVars

Processed ==
  /\ pc = "bsp" /\ at \in {"done", "error"}
  /\ \E ci \in ext_RSPClient_getCICertificate(clients, ct.es9p) :
       IF /\ res.configureIsdp # <<>> /\ res.storeMetadata # <<>> /\ res.profileData # <<>>
          /\ EuiccChainValid(ci) /\ DpChainValid(ct.serverCert, ci)
          /\ DpChainValid(ct.auok.smdpCertificate, ci)
       THEN f_rsp_client_cleanup("pass", ct, clients)
       ELSE f_fail_and_cleanup(ct)
  /\ UNCHANGED <<nextHandle, bspVars>>

Next ==
  \/ f_init_es9plus \/ f_init_es2plus \/ DownloadOrder \/ ConfirmOrder
  \/ InitiateAuthentication \/ ProvisionProfile \/ AuthenticateClient \/ WrongCode
  \/ GetBoundProfilePackage \/ ValidatePackage \/ ProcessBoundProfilePackage \/ Processed

Spec == Init /\ [][Next]_<<flowVars, bspVars>>

-----------------------------------------------------------------------------
\* The certificate of a server the CI of that curve vouches for, in that role.
Vouched(cert, role, curve) ==
  /\ cert.signer = [owner |-> "CI", curve |-> curve]
  /\ cert.current /\ cert.key.curve = curve /\ role \in cert.policies

\* f_TC_rsp_complete_flow passes only with a server whose two certificates are the
\* CI's for these roles, that answered this challenge in this transaction, drew its
\* session keys from this eUICC's one-time key, EID and host, and whose package was
\* unpacked with them.  Neither a check of the code nor a test has more than one of
\* these in view.
OnlyRightServer ==
  (verdict = "pass" /\ ct.test = "complete_flow") =>
    /\ Vouched(server.auth, dp_auth, ct.curve) /\ Vouched(server.pb, dp_pb, ct.curve)
    /\ ct.euiccChallenge = "c1" /\ ct.transactionId = "t1" /\ ct.serverChallenge = "s1"
    /\ tx.session.key = rx.session.key
    /\ tx.session.key.secret = {OtKey("eUICC", ct.curve, ct.otpks), ct.isc.isc.smdpOtpk}
    /\ Accepted

\* With a server that does everything right and a package nobody disturbs, every one
\* of the three tests passes and leaves no client behind, a confirmation code that is
\* corrected on the second try included (PrepareDownload must carry the new hash).
HonestServerPasses ==
  (/\ pc = "end" /\ server.honest /\ server.curve = ct.curve /\ faults = 0
   /\ tx.replaced => bpp.replaceSessionKeys[1].payload.data = PPK)
  => verdict = "pass" /\ clients = <<>>
=============================================================================
