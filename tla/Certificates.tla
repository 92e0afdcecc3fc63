----------------------------- MODULE Certificates -----------------------------
(***************************************************************************)
(* CertificateUtil, the loaders and the signatures of smdpp/rsp_client.cc. *)
(* A key is its owner and curve; a certificate says whose name and key it  *)
(* binds, who issued it and with which key; NoCert is empty DER, NoKey no  *)
(* key.  A file has a directory (a sequence), a name tag (the curve), an   *)
(* extension and what is in it.  Where the code throws, the result is the  *)
(* empty value that the wrappers hand to TTCN-3.                           *)
(***************************************************************************)
EXTENDS Naturals, FiniteSets, Sequences, SequencesExt

CONSTANTS CertFiles,  \* [dir, name, curve, ext, certs]
          KeyFiles    \* [dir, name, curve, ext, key]

NoKey  == [owner |-> "", curve |-> ""]
NoCert == [subject |-> "", issuer |-> "", key |-> NoKey, signer |-> NoKey, ca |-> FALSE,
           current |-> FALSE, policies |-> {}, nameConstraints |-> {},
           permittedEins |-> {}, serialNumber |-> <<>>]

ASSUME FilesAssumption ==
  /\ \A f \in CertFiles : f.ext \in {"der", "pem", "crt"} /\ f.certs # <<>>
  /\ \A f, g \in CertFiles : f.dir = g.dir /\ f.name = g.name /\ f.ext = g.ext => f = g

-----------------------------------------------------------------------------
\* Octets of an uncompressed point, as extractPublicKeyData() finds them.
PointSize(key) == CASE key.curve = "" -> 0 [] key.curve = "P384" -> 97 [] OTHER -> 65

\* SubjectKeyIdentifier and AuthorityKeyIdentifier stand for the keys.
getSubjectKeyIdentifier(cert)   == cert.key
getAuthorityKeyIdentifier(cert) == cert.signer
getEID(cert) == cert.serialNumber

getCurveOID(cert) == cert.key.curve

\* X509_check_issued(), X509_verify(): names and the key of the signature.
Issued(by, cert) ==
  /\ cert.issuer = by.subject
  /\ getAuthorityKeyIdentifier(cert) = getSubjectKeyIdentifier(by)
SelfSigned(cert) == Issued(cert, cert)

-----------------------------------------------------------------------------
\* A chain is built by the names alone.
verifyCertificateChainDynamic_Mistake(cert, certPool, rootCA) ==
  rootCA.subject \in {cert.issuer} \cup {c.issuer : c \in {d \in certPool : cert.issuer = d.subject}}

\* What certificates of the set have issued, one after the other, down to the leaf.
PathTo(root, leaf, issuers) ==
  \A S \in SUBSET (issuers \cup {leaf}) :
    (leaf \in S /\ \A c \in issuers, d \in S : Issued(c, d) => c \in S) => root \in S

\* Only the root is trusted, the pool is untrusted; the path ends in the root, which is
\* self-signed, and every certificate of it is valid now.  Name constraints that fail
\* are accepted by the callback.
verifyCertificateChainDynamic(cert, certPool, rootCA) ==
  LET untrusted == {c \in certPool : c \notin {cert, rootCA}}
      issuers   == {c \in untrusted \cup {rootCA} : c.ca /\ c.current}
  IN  /\ cert.current /\ rootCA.current /\ SelfSigned(rootCA)
      /\ PathTo(rootCA, cert, issuers)

\* What TLS trusts (sslCtxFunction): every certificate of the pool is added to the
\* store, but a path must still end in one that is self-signed.
sslCtxFunction(cert, certPool) ==
  \E root \in certPool : SelfSigned(root) /\ verifyCertificateChainDynamic(cert, certPool, root)

-----------------------------------------------------------------------------
find_cert_files(root_path, name_filters) ==
  {f \in CertFiles : /\ IsPrefix(root_path, f.dir)
                     /\ name_filters = {} \/ f.curve \in name_filters}

\* A DER file holds one certificate, a PEM file a chain.
loadCertificateChain(file) == IF file.ext = "der" THEN <<Head(file.certs)>> ELSE file.certs

\* Each certificate with the file it is from: one that is in two files is loaded twice.
loadCertificatesFromDirectory(directory, name_filters) ==
  UNION {{[file |-> f, cert |-> loadCertificateChain(f)[i]]
            : i \in 1..Len(loadCertificateChain(f))}
         : f \in find_cert_files(directory, name_filters)}

CertsOf(loaded) == {l.cert : l \in loaded}

\* xx_loadCertificate(): the first of the file; without a file it throws.
xx_loadCertificate(dir, name) ==
  LET files == {f \in CertFiles : f.dir = dir /\ f.name = name}
  IN  IF files = {} THEN NoCert
      ELSE Head(loadCertificateChain(CHOOSE f \in files : TRUE))

\* xx_loadPrivateKey(): the old key is gone even if the file has none.
xx_loadPrivateKey(dir, name, old) ==
  LET files == {f \in KeyFiles : f.dir = dir /\ f.name = name}
  IN  IF files = {} THEN [ok |-> FALSE, key |-> old]
      ELSE LET key == (CHOOSE f \in files : TRUE).key IN [ok |-> key # NoKey, key |-> key]

-----------------------------------------------------------------------------
\* parse_permitted_eins_from_cert(): from the name constraints if the certificate has
\* the policy of the old variant, else from the GSMA extension.
parse_permitted_eins_from_cert(cert) ==
  IF "2.23.146.1.2.1.2" \in cert.policies THEN cert.nameConstraints ELSE cert.permittedEins

getPermittedEINs(eumCert) == parse_permitted_eins_from_cert(eumCert)

validateEIDRange(eid, eumCert) ==
  \E ein \in parse_permitted_eins_from_cert(eumCert) : IsPrefix(ein, eid)

hasRSPRole(cert, roleOid) == roleOid \in cert.policies

\* verifyECDHCompatible(): only the sizes are compared.
verifyECDHCompatible(pubKey1, pubKey2) ==
  PointSize(pubKey1) = PointSize(pubKey2) /\ PointSize(pubKey1) \in {65, 97}

-----------------------------------------------------------------------------
\* A signature: who signed what, and how r and s are written.
NoSignature == [by |-> NoKey, over |-> <<>>, form |-> "none"]

\* signDataWithKey(): DER; nothing to sign is an error.
signDataWithKey(data, key) ==
  IF key = NoKey \/ data = <<>> THEN NoSignature
  ELSE [by |-> key, over |-> data, form |-> "der"]

\* 32 octets each for r and s: a larger number has no such form.
convertDER_to_BSI_TR03111(signature) ==
  IF signature.form # "der" \/ PointSize(signature.by) # 65 THEN NoSignature
  ELSE [signature EXCEPT !.form = "bsi"]

convertBSI_TR03111_to_DER(signature) ==
  IF signature.form # "bsi" THEN NoSignature ELSE [signature EXCEPT !.form = "der"]

verify_TR031111(message, bsi_signature, publicKey) ==
  LET der == convertBSI_TR03111_to_DER(bsi_signature)
  IN  der # NoSignature /\ der.by = publicKey /\ der.over = message

\* verifyServerSignature(): a 5F3740 before the signature is skipped.
verifyServerSignature(signedData, signature, cert) ==
  /\ cert # NoCert
  /\ verify_TR031111(signedData,
                     IF signature.form = "prefixed" THEN [signature EXCEPT !.form = "bsi"]
                     ELSE signature,
                     cert.key)
=============================================================================
