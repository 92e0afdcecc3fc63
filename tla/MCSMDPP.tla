------------------------------- MODULE MCSMDPP -------------------------------
(***************************************************************************)
(* The test certificates of SGP.26 as src/smdpp/sgp26 lays them out, the   *)
(* servers, and two scenarios: "flow", the tests with small packages, and  *)
(* "bsp", one package of the full bounds of the constants by itself.       *)
(***************************************************************************)
EXTENDS SMDPP

VARIABLE scenario

Flow == INSTANCE SMDPP WITH MaxMetadata <- 1, MaxProfile <- 1

Key(owner, curve) == [owner |-> owner, curve |-> curve]
Cert(subject, issuer, key, signer) ==
  [NoCert EXCEPT !.subject = subject, !.issuer = issuer, !.key = key, !.signer = signer,
                 !.current = TRUE]

MCEIDs == << <<8, 9, 1>>, <<8, 9, 2>> >>

CI(owner, c) == [Cert("Test CI", "Test CI", Key(owner, c), Key(owner, c)) EXCEPT !.ca = TRUE]
EUM(c) == [Cert("EUM", "Test CI", Key("EUM", c), Key("CI", c))
             EXCEPT !.ca = TRUE, !.policies = {"2.23.146.1.2.1.2"}, !.nameConstraints = {<<8, 9>>}]
EUICC(c) == [Cert("eUICC", "EUM", Key("eUICC", c), Key("EUM", c)) EXCEPT !.serialNumber = MCEIDs[1]]
DP(name, role, ci, c) ==
  [Cert(name, "Test CI", Key(name, c), Key(ci, c)) EXCEPT !.policies = role]

File(dir, name, c, ext, certs) ==
  [dir |-> <<"sgp26", dir>>, name |-> name \o c, curve |-> c, ext |-> ext, certs |-> certs]

MCCertFiles ==
  UNION {{File("CertificateIssuer", "CERT_CI_", c, "der", <<CI("CI", c)>>),
          File("CertificateIssuer", "CERT_CI_", c, "pem", <<CI("CI", c)>>),
          File("EUM", "CERT_EUM_", c, "der", <<EUM(c)>>),
          File("eUICC", "CERT_EUICC_", c, "der", <<EUICC(c)>>),
          File("DPtls", "CERT_TLS_", c, "der", <<DP("tls", {}, "CI", c)>>)}
         : c \in {"NIST", "BRP"}}
MCKeyFiles ==
  UNION {{[dir |-> <<"sgp26", "eUICC">>, name |-> "SK_EUICC_" \o c, curve |-> c, ext |-> "pem",
           key |-> Key("eUICC", c)],
          [dir |-> <<"sgp26", "EUM">>, name |-> "SK_EUM_" \o c, curve |-> c, ext |-> "pem",
           key |-> Key("EUM", c)]}
         : c \in {"NIST", "BRP"}}

Other(c) == IF c = "NIST" THEN "BRP" ELSE "NIST"
Server(fault, c) ==
  [fault |-> fault, honest |-> fault \in {"none", "ccRequired"}, curve |-> c,
   tls |-> DP("tls", {}, "CI", c), es2tls |-> DP("tls", {}, "CI", "NIST"),
   auth |-> DP("auth", {dp_auth}, "CI", c), pb |-> DP("pb", {dp_pb}, "CI", c)]

MCServers ==
  UNION {{Server(f, c) : f \in
            {"none", "ccRequired", "transaction", "challenge", "signature1", "pkid",
             "transaction2", "signature2", "transaction3", "malformed", "otpkSize",
             "otpkCurve", "staleOtpk", "eid", "initiate", "authenticate", "package",
             "downloadOrder", "confirmOrder"}}
         \cup
         {[Server("cert", c) EXCEPT !.auth = DP("auth", {dp_auth}, "stranger", c)],
          [Server("cert", c) EXCEPT !.pb = DP("pb", {dp_pb}, "stranger", c)],
          [Server("cert", c) EXCEPT !.tls = DP("tls", {}, "stranger", c)],
          [Server("cert", c) EXCEPT !.auth = DP("auth", {dp_pb}, "CI", c)],
          [Server("cert", c) EXCEPT !.pb = DP("pb", {dp_auth}, "CI", c)],
          [Server("cert", c) EXCEPT !.pb.current = FALSE],
          [Server("cert", c) EXCEPT !.auth.current = FALSE],
          [Server("cert", c) EXCEPT !.pb = DP("pb", {dp_pb}, "CI", Other(c))],
          [Server("cert", c) EXCEPT !.auth = DP("auth", {dp_auth}, "CI", Other(c))],
          [Server("cert", c) EXCEPT !.tls = DP("tls", {}, "CI", Other(c))]}
         : c \in Curves}

\* The session keys a client and these servers can come to.
MCKeys ==
  {[secret |-> {OtKey("eUICC", c, 1), OtKey("DP", c, 1)}, hostId |-> "host", eid |-> MCEIDs[i]]
     : c \in {"NIST", "BRP"}, i \in 1..2}

MCInit ==
  /\ scenario \in {"flow", "bsp"} /\ Init
  /\ scenario = "bsp" =>
       /\ server = Server("none", "NIST") /\ ct.test = "complete_flow" /\ ct.curve = "NIST"

BspKeys == {k \in Keys : k.secret = {OtKey("eUICC", "NIST", 1), OtKey("DP", "NIST", 1)}}

MCNext ==
  /\ \/ scenario = "flow" /\ Flow!Next
     \/ scenario = "bsp" /\ at = "idle" /\ (\E s, r \in BspKeys : Start(s, r)) /\ UNCHANGED flowVars
     \/ scenario = "bsp" /\ BspStep /\ UNCHANGED flowVars
  /\ UNCHANGED scenario

MCSpec == MCInit /\ [][MCNext]_<<scenario, flowVars, bspVars>>
=============================================================================
