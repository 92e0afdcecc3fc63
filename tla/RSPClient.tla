------------------------------ MODULE RSPClient ------------------------------
(***************************************************************************)
(* RSPClient (smdpp/rsp_client.cc) and the registry of clients behind the  *)
(* external functions (smdpp/smdpp_Tests_Functions.cc).  A method is an    *)
(* operator of the client: [ok, client] with the client after it, ok FALSE *)
(* if it throws.  "clients" is the registry's map from handles.            *)
(***************************************************************************)
EXTENDS Certificates

Result(ok, client) == [ok |-> ok, client |-> client]

NoHash == [code |-> "", transactionId |-> ""]

\* The one-time key pair n of a party, on a curve.
OtKey(owner, curve, n) == [owner |-> <<owner, n>>, curve |-> curve]
NoOtKey == OtKey("", "", 0)

-----------------------------------------------------------------------------
\* The constructor: of the first directory with a self-signed certificate one of them,
\* whichever is read first, becomes the root; all others go to the pool, the copy of
\* the root from another file with them.  A path that does not exist throws.
RSPClient(certPaths, name_filters) ==
  LET loaded(i) == loadCertificatesFromDirectory(certPaths[i], name_filters)
      roots(i)  == {l \in loaded(i) : SelfSigned(l.cert)}
      all       == UNION {loaded(i) : i \in DOMAIN certPaths}
      first     == {i \in DOMAIN certPaths :
                      roots(i) # {} /\ \A j \in 1..(i - 1) : roots(j) = {}}
      client(root, pool) ==
        [rootCA |-> root, certPool |-> CertsOf(pool),
         euiccCert |-> NoCert, EID |-> <<>>, euiccSKI |-> NoKey,
         euiccPrivateKey |-> NoKey, euiccPublicKeyData |-> NoKey,
         eumCert |-> NoCert, eumPrivateKey |-> NoKey, eumPublicKeyData |-> NoKey,
         euiccOtpk |-> NoOtKey, confirmationCode |-> "",
         confirmationCodeHash |-> NoHash, transactionId |-> "", caCertPath |-> "",
         useCustomTlsCert |-> FALSE, useMutualTLS |-> FALSE]
  IN  IF \E i \in DOMAIN certPaths : find_cert_files(certPaths[i], {}) = {} THEN {}
      ELSE IF first = {} THEN {client(NoCert, all)}
      ELSE {client(l.cert, all \ {l}) : l \in UNION {roots(i) : i \in first}}

loadEUICCCertificate(c, dir, name) ==
  LET cert == xx_loadCertificate(dir, name)
  IN  Result(cert # NoCert,
             IF cert = NoCert THEN c
             ELSE [c EXCEPT !.euiccCert = cert, !.EID = getEID(cert),
                            !.euiccSKI = getSubjectKeyIdentifier(cert)])

\* loadKeyPair() without a file of the public key: it is taken from the private key.
loadEUICCKeyPair(c, dir, name) ==
  LET k == xx_loadPrivateKey(dir, name, c.euiccPrivateKey)
  IN  Result(k.ok, IF k.ok THEN [c EXCEPT !.euiccPrivateKey = k.key, !.euiccPublicKeyData = k.key]
                   ELSE [c EXCEPT !.euiccPrivateKey = k.key])

loadEUMCertificate(c, dir, name) ==
  LET cert == xx_loadCertificate(dir, name)
  IN  Result(cert # NoCert, IF cert = NoCert THEN c ELSE [c EXCEPT !.eumCert = cert])

loadEUMKeyPair(c, dir, name) ==
  LET k == xx_loadPrivateKey(dir, name, c.eumPrivateKey)
  IN  Result(k.ok, IF k.ok THEN [c EXCEPT !.eumPrivateKey = k.key, !.eumPublicKeyData = k.key]
                   ELSE [c EXCEPT !.eumPrivateKey = k.key])

setCACertPath(c, path) == Result(TRUE, [c EXCEPT !.caCertPath = path])

-----------------------------------------------------------------------------
\* getCertificateCurveNID(): the two curves of 256 bits, or it throws.
getCertificateCurveNID(cert) == IF cert.key.curve \in {"NIST", "BRP"} THEN cert.key.curve ELSE ""

\* The n-th one-time key pair, on the curve of the eUICC's certificate.
generateEUICCOtpk(c, n) ==
  LET curve == getCertificateCurveNID(c.euiccCert)
  IN  Result(curve # "", IF curve = "" THEN c
                         ELSE [c EXCEPT !.euiccOtpk = OtKey("eUICC", curve, n)])

\* computeECDHSharedSecret(): the other key must be a point of the eUICC's curve;
\* {} if it throws.
computeECDHSharedSecret(c, otherPublicKey) ==
  LET curve == getCertificateCurveNID(c.euiccCert)
  IN  IF c.euiccOtpk # NoOtKey /\ curve # "" /\ otherPublicKey.curve = curve
         /\ c.euiccOtpk.curve = curve
      THEN {c.euiccOtpk, otherPublicKey} ELSE {}

signDataWithEUICC(c, data) == convertDER_to_BSI_TR03111(signDataWithKey(data, c.euiccPrivateKey))

\* SHA256(SHA256(code) | transaction).
computeConfirmationCodeHash(code, transactionId) ==
  [code |-> code, transactionId |-> transactionId]

\* The hash is kept when there is one.
setConfirmationCode_Mistake(c, code) ==
  Result(TRUE, [c EXCEPT !.confirmationCode = code,
                         !.confirmationCodeHash =
                            IF c.transactionId # "" /\ @ = NoHash
                            THEN computeConfirmationCodeHash(code, c.transactionId) ELSE @])

\* Without a transaction there is no new hash: an old one stays.
setConfirmationCode(c, code) ==
  Result(TRUE, [c EXCEPT !.confirmationCode = code,
                         !.confirmationCodeHash =
                            IF c.transactionId # ""
                            THEN computeConfirmationCodeHash(code, c.transactionId) ELSE @])

setTransactionId(c, transactionId) ==
  Result(TRUE, [c EXCEPT !.transactionId = transactionId,
                         !.confirmationCodeHash =
                            IF c.confirmationCode # ""
                            THEN computeConfirmationCodeHash(c.confirmationCode, transactionId)
                            ELSE @])

\* getCICertificate(): the root, or a root of the pool, on the eUICC's curve; failing
\* that the root.  Which of several is in the pool's order.
getCICertificate(c) ==
  LET curve == getCertificateCurveNID(c.euiccCert)
      match == {r \in c.certPool : SelfSigned(r) /\ getCertificateCurveNID(r) = curve}
  IN  IF c.euiccCert = NoCert \/ getCertificateCurveNID(c.rootCA) = curve THEN {c.rootCA}
      ELSE IF match # {} THEN match ELSE {c.rootCA}

configureHttpClient(c, useCustomTlsCert) ==
  Result(TRUE, [c EXCEPT !.useCustomTlsCert = useCustomTlsCert])
setAuthParams(c, useMutualTLS) == Result(TRUE, [c EXCEPT !.useMutualTLS = useMutualTLS])

\* sendHttpsPostUnified() and postJson(): the status, 0 if the connection fails; the
\* server's certificate must have a path to a root in the pool.
postJson(tlsCert, certPool, status) == IF sslCtxFunction(tlsCert, certPool) THEN status ELSE 0
sendHttpsPostUnified(c, tlsCert, status) == postJson(tlsCert, c.certPool, status)

\* ES9+ without, ES2+ with the client's certificate, which the server wants there.
sendHttpsPost(c, tlsCert, status) == sendHttpsPostUnified(c, tlsCert, status)
sendHttpsPostWithAuth(c, tlsCert, status) ==
  sendHttpsPostUnified(c, tlsCert, IF c.useMutualTLS THEN status ELSE 401)

-----------------------------------------------------------------------------
\* The registry.  with_client(), client_getter(), client_setter(), safe_execute(): a
\* handle without a client, or a method that throws, gives the error value.
getClient(clients, handle) == handle \in DOMAIN clients

with_client(clients, handle, error, value) ==
  IF getClient(clients, handle) THEN value ELSE error

\* A method called: the return value (0 or -1) and the registry after it.
client_loader(clients, handle, called) ==
  IF ~getClient(clients, handle) THEN [rc |-> -1, clients |-> clients]
  ELSE [rc |-> IF called.ok THEN 0 ELSE -1, clients |-> [clients EXCEPT ![handle] = called.client]]

\* createClient(): its own directory, EUM and DPtls; eUICC and EUM of the filter's
\* curve, NIST for any other filter.  No client if anything throws.
createClient(clients, handle, certPath, nameFilter) ==
  LET curve == IF nameFilter = "BRP" THEN "BRP" ELSE "NIST"
      made  == RSPClient(<<certPath, <<"sgp26", "EUM">>, <<"sgp26", "DPtls">>>>, {nameFilter})
      loaded(c) ==
        LET r1 == loadEUICCCertificate(c, <<"sgp26", "eUICC">>, "CERT_EUICC_" \o curve)
            r2 == loadEUICCKeyPair(r1.client, <<"sgp26", "eUICC">>, "SK_EUICC_" \o curve)
            r3 == loadEUMCertificate(r2.client, <<"sgp26", "EUM">>, "CERT_EUM_" \o curve)
            r4 == loadEUMKeyPair(r3.client, <<"sgp26", "EUM">>, "SK_EUM_" \o curve)
        IN  Result(r1.ok /\ r2.ok /\ r3.ok /\ r4.ok,
                   setCACertPath(r4.client, "ca-certificates.crt").client)
      good == {loaded(c).client : c \in {d \in made : loaded(d).ok}}
  IN  IF good = {} THEN {[handle |-> -1, clients |-> clients]}
      ELSE {[handle |-> handle,
             clients |-> [h \in DOMAIN clients \cup {handle} |->
                            IF h = handle THEN c ELSE clients[h]]] : c \in good}

destroyClient(clients, handle) ==
  [h \in DOMAIN clients \ {handle} |-> clients[h]]

ext_RSPClient_loadEUICCCertificate(clients, handle, dir, name) ==
  client_loader(clients, handle, loadEUICCCertificate(clients[handle], dir, name))
ext_RSPClient_loadEUICCKeyPair(clients, handle, dir, name) ==
  client_loader(clients, handle, loadEUICCKeyPair(clients[handle], dir, name))
ext_RSPClient_configureHttpClient(clients, handle, useCustomTlsCert) ==
  client_loader(clients, handle, configureHttpClient(clients[handle], useCustomTlsCert))
ext_RSPClient_setAuthParams(clients, handle, useMutualTLS) ==
  client_loader(clients, handle, setAuthParams(clients[handle], useMutualTLS))
ext_RSPClient_setTransactionId(clients, handle, transactionId) ==
  client_loader(clients, handle, setTransactionId(clients[handle], transactionId))
ext_RSPClient_setConfirmationCode(clients, handle, code) ==
  client_loader(clients, handle, setConfirmationCode(clients[handle], code))
ext_RSPClient_generateEUICCOtpk(clients, handle, n) ==
  client_loader(clients, handle, generateEUICCOtpk(clients[handle], n))

ext_RSPClient_getConfirmationCodeHash(clients, handle) ==
  with_client(clients, handle, NoHash, clients[handle].confirmationCodeHash)
ext_RSPClient_getEUICCOtpk(clients, handle) ==
  with_client(clients, handle, NoOtKey, clients[handle].euiccOtpk)
ext_RSPClient_getEUICCCertificate(clients, handle) ==
  with_client(clients, handle, NoCert, clients[handle].euiccCert)
ext_RSPClient_getEUMCertificate(clients, handle) ==
  with_client(clients, handle, NoCert, clients[handle].eumCert)
ext_RSPClient_getCICertificate(clients, handle) ==
  with_client(clients, handle, {NoCert}, getCICertificate(clients[handle]))
ext_RSPClient_signDataWithEUICC(clients, handle, data) ==
  with_client(clients, handle, NoSignature, signDataWithEUICC(clients[handle], data))
ext_RSPClient_computeSharedSecret(clients, handle, key) ==
  with_client(clients, handle, {}, computeECDHSharedSecret(clients[handle], key))
ext_RSPClient_verifyServerSignature(clients, handle, data, signature, cert) ==
  with_client(clients, handle, FALSE, verifyServerSignature(data, signature, cert))
ext_RSPClient_sendHttpsPost(clients, handle, tlsCert, status) ==
  with_client(clients, handle, 0, sendHttpsPost(clients[handle], tlsCert, status))
ext_RSPClient_sendHttpsPostWithAuth(clients, handle, tlsCert, status) ==
  with_client(clients, handle, 0, sendHttpsPostWithAuth(clients[handle], tlsCert, status))

\* The chains the tests check: against a directory, or one intermediate certificate.
ext_CertificateUtil_verifyCertificateChainDynamic(cert, certPoolDir, rootCA) ==
  /\ cert # NoCert /\ rootCA # NoCert
  /\ verifyCertificateChainDynamic(
       cert, CertsOf(loadCertificatesFromDirectory(certPoolDir, {})), rootCA)
ext_CertificateUtil_verifyCertificateChainWithIntermediate(cert, intermediate, rootCA) ==
  /\ cert # NoCert /\ intermediate # NoCert /\ rootCA # NoCert
  /\ verifyCertificateChainDynamic(cert, {intermediate}, rootCA)
=============================================================================
