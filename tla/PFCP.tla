-------------------------------- MODULE PFCP --------------------------------
(***************************************************************************)
(* The dispatcher of library/PFCP_Emulation.ttcn between the one UDP       *)
(* association with the system under test and the ConnHdlrs that play its  *)
(* peer's sessions.  A PDU is a record [kind, seqnr, seid, owner]: seid is *)
(* NoSeid where the S flag is 0, and owner, which the dispatcher does not  *)
(* look at, is the ConnHdlr and the session the PDU is about.  A sequence  *)
(* number of the dispatcher is <<n>>, one of the peer any other tuple:     *)
(* numbers of both sides do not meet (the dispatcher starts at 10000 or    *)
(* more, and a testcase has few PDUs).                                     *)
(*                                                                         *)
(* f_PFCPEM_conns_*_add refuses a key that is in the list, so the three    *)
(* lists are sets of entries [vc_conn, key].                               *)
(***************************************************************************)
EXTENDS Integers, Sequences

CONSTANTS ConnHdlrs,     \* the components connected to the dispatcher
          FirstSeqnr,    \* where f_init lets g_next_sequence_nr_state start
          LastSeqnr,     \* 16777215, the largest sequence number
          NoOne, NoSeid

ASSUME PFCPAssumption == /\ NoOne \notin ConnHdlrs
                         /\ FirstSeqnr \in Nat /\ LastSeqnr \in Nat \ {0}

VARIABLES
    g_conns_bcast,             \* subscribed for broadcast
    g_conns_seqnr,             \* who gets the PDU with a sequence number
    g_conns_seid,              \* subscribed for a SEID
    g_next_sequence_nr_state,
    rxQ,       \* PFCP port of the dispatcher: PDUs of the system under test
    txQ,       \* PDUs on their way to the system under test
    clientQ,   \* CLIENT port: [from, pdu]
    procQ,     \* CLIENT_PROC port: [from, op, seid]
    result,    \* result[h]: h's last call, "waiting", "true" or "false"
    pfcp       \* pfcp[h]: PFCP port of ConnHdlr h

conns == <<g_conns_bcast, g_conns_seqnr, g_conns_seid>>
pfcpVars == <<conns, g_next_sequence_nr_state, rxQ, txQ, clientQ, procQ, result, pfcp>>

PfcpInit ==
    /\ g_conns_bcast = {} /\ g_conns_seqnr = {} /\ g_conns_seid = {}
    /\ g_next_sequence_nr_state = FirstSeqnr
    /\ rxQ = <<>> /\ txQ = <<>> /\ clientQ = <<>> /\ procQ = <<>>
    /\ result = [h \in ConnHdlrs |-> "true"]
    /\ pfcp = [h \in ConnHdlrs |-> <<>>]

PDU(kind, seqnr, seid, owner) ==
    [kind |-> kind, seqnr |-> seqnr, seid |-> seid, owner |-> owner]

-----------------------------------------------------------------------------
(* The three lists of PFCPEM_conn; the key is the sequence number, the SEID or,
   for broadcasts, the component itself. *)

Listed(list, key) == \E conn \in list : conn.key = key

\* f_PFCPEM_conn_by_seqnr, f_PFCPEM_conn_by_seid
conn_by(list, key) ==
    IF Listed(list, key) THEN (CHOOSE conn \in list : conn.key = key).vc_conn ELSE NoOne

\* f_PFCPEM_conns_*_add: refused when the key is taken, by whomever.
conns_add(list, h, key) ==
    IF Listed(list, key) THEN list ELSE list \cup {[vc_conn |-> h, key |-> key]}

\* f_PFCPEM_conns_*_del: any component may remove any key.
conns_del_Nothing(list, key) == list
conns_del(list, key) == {conn \in list : conn.key # key}

next_sequence_nr ==
    IF g_next_sequence_nr_state + 1 > LastSeqnr THEN 1 ELSE g_next_sequence_nr_state + 1

\* f_PFCPEM_conn_for_pdu: whoever sent a PDU with this sequence number, else
\* whoever subscribed for the SEID.
conn_for_pdu(pdu) ==
    IF Listed(g_conns_seqnr, pdu.seqnr) THEN conn_by(g_conns_seqnr, pdu.seqnr)
    ELSE IF pdu.seid # NoSeid THEN conn_by(g_conns_seid, pdu.seid)
    ELSE NoOne

-----------------------------------------------------------------------------
(* The alternatives of main. *)

\* [g_pfcp_cfg.answer_heartbeat_req], TRUE in the suites that share the emulation.
AnswerHeartbeat ==
    /\ rxQ # <<>> /\ Head(rxQ).kind = "heartbeat_req"
    /\ rxQ' = Tail(rxQ)
    /\ txQ' = Append(txQ, [Head(rxQ) EXCEPT !.kind = "heartbeat_resp"])
    /\ UNCHANGED <<conns, g_next_sequence_nr_state, clientQ, procQ, result, pfcp>>

\* PFCP.receive: to one ConnHdlr, or to all that subscribed for broadcast.
RoutePdu ==
    /\ rxQ # <<>> /\ Head(rxQ).kind # "heartbeat_req"
    /\ LET pdu == Head(rxQ)
           to  == conn_for_pdu(pdu)
       IN  /\ pfcp' = [h \in ConnHdlrs |->
                         IF h = to \/ (to = NoOne /\ Listed(g_conns_bcast, h))
                         THEN Append(pfcp[h], pdu) ELSE pfcp[h]]
           /\ g_conns_seqnr' = conns_del(g_conns_seqnr, pdu.seqnr)
    /\ rxQ' = Tail(rxQ)
    /\ UNCHANGED <<g_conns_bcast, g_conns_seid, g_next_sequence_nr_state, txQ, clientQ,
                   procQ, result>>

\* CLIENT.receive: a request (<<0>>) gets the next sequence number; the result of
\* f_PFCPEM_conns_seqnr_add is not looked at.
ForwardPdu ==
    /\ clientQ # <<>>
    /\ LET chosen == Head(clientQ).pdu.seqnr # <<0>>
           seqnr  == IF chosen THEN Head(clientQ).pdu.seqnr ELSE <<next_sequence_nr>>
       IN  /\ g_next_sequence_nr_state' = IF chosen THEN g_next_sequence_nr_state
                                          ELSE next_sequence_nr
           /\ g_conns_seqnr' = conns_add(g_conns_seqnr, Head(clientQ).from, seqnr)
           /\ txQ' = Append(txQ, [Head(clientQ).pdu EXCEPT !.seqnr = seqnr])
    /\ clientQ' = Tail(clientQ)
    /\ UNCHANGED <<g_conns_bcast, g_conns_seid, rxQ, procQ, result, pfcp>>

\* CLIENT_PROC.getcall of op, answered with res.
Reply(op, res) ==
    /\ procQ # <<>> /\ Head(procQ).op = op
    /\ procQ' = Tail(procQ)
    /\ result' = [result EXCEPT ![Head(procQ).from] = IF res THEN "true" ELSE "false"]
    /\ UNCHANGED <<g_conns_seqnr, g_next_sequence_nr_state, rxQ, txQ, clientQ, pfcp>>

SubscribeBcast ==
    /\ Reply("subscribe_bcast", ~Listed(g_conns_bcast, Head(procQ).from))
    /\ g_conns_bcast' = conns_add(g_conns_bcast, Head(procQ).from, Head(procQ).from)
    /\ UNCHANGED g_conns_seid

UnsubscribeBcast ==
    /\ Reply("unsubscribe_bcast", Listed(g_conns_bcast, Head(procQ).from))
    /\ g_conns_bcast' = conns_del(g_conns_bcast, Head(procQ).from)
    /\ UNCHANGED g_conns_seid

SubscribeSeid ==
    /\ Reply("subscribe_seid", ~Listed(g_conns_seid, Head(procQ).seid))
    /\ g_conns_seid' = conns_add(g_conns_seid, Head(procQ).from, Head(procQ).seid)
    /\ UNCHANGED g_conns_bcast

UnsubscribeSeid ==
    /\ Reply("unsubscribe_seid", Listed(g_conns_seid, Head(procQ).seid))
    /\ g_conns_seid' = conns_del(g_conns_seid, Head(procQ).seid)
    /\ UNCHANGED g_conns_bcast

\* The time stamp is of no interest here.
GetRecoveryTimestamp ==
    /\ Reply("get_recovery_timestamp", TRUE)
    /\ UNCHANGED <<g_conns_bcast, g_conns_seid>>

PfcpMain ==
    \/ AnswerHeartbeat \/ RoutePdu \/ ForwardPdu
    \/ SubscribeBcast \/ UnsubscribeBcast
    \/ SubscribeSeid \/ UnsubscribeSeid
    \/ GetRecoveryTimestamp

-----------------------------------------------------------------------------
(* What a ConnHdlr does at its ports. *)

\* A call blocks its caller: it goes on when the result is "true".
Call(h, op, seid) ==
    /\ procQ' = Append(procQ, [from |-> h, op |-> op, seid |-> seid])
    /\ result' = [result EXCEPT ![h] = "waiting"]

\* PFCP.send.
SendPdu(h, pdu) == clientQ' = Append(clientQ, [from |-> h, pdu |-> pdu])

\* PFCP.receive of the first PDU at the port.
TakePdu(h) == pfcp' = [pfcp EXCEPT ![h] = Tail(@)]
=============================================================================
