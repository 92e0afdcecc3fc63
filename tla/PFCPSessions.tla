---------------------------- MODULE PFCPSessions ----------------------------
(***************************************************************************)
(* The ConnHdlrs of the suites s1gw and hnbgw that share the PFCP          *)
(* dispatcher and, because a Session Establishment Request carries SEID 0, *)
(* serialise what makes the system under test send one by the mutex.       *)
(*                                                                         *)
(* suite says which suite runs: "s1gw" (E-RABs of several eNBs), "hnbgw"   *)
(* (one session per UE), "heartbeat" (TC_pfcp_heartbeat by several), or    *)
(* "none": components that only use the mutex.  The association is set up  *)
(* as in s1gw; in hnbgw the main component answers it before its ConnHdlrs *)
(* start.                                                                  *)
(***************************************************************************)
EXTENDS Mutex, PFCP, FiniteSets

CONSTANTS SEID0,          \* c_SEID0
          Users,          \* the ConnHdlrs with PFCP sessions
          Associator,     \* the ConnHdlr of f_pfcp_assoc
          NumErabs,       \* the E-RABs of a ConnHdlr in suite s1gw
          MaxHeartbeats,  \* bound: heartbeat requests of the system under test
          MaxRetransmissions,  \* bound: requests it repeats
          RepeatsEstablishment \* establishment requests among them

ASSUME SessionsAssumption ==
    /\ Users \subseteq Clients /\ ConnHdlrs = Users \cup {Associator}
    /\ Associator \notin Clients
    /\ SEID0 # NoSeid
    /\ {SEID0, NoSeid} \cap (Users \X (1..NumErabs)) = {}
    \* far fewer components than sequence numbers
    /\ IsFiniteSet(Users) /\ Cardinality(Users) <= LastSeqnr
    /\ NumErabs \in Nat \ {0} /\ MaxHeartbeats \in Nat /\ MaxRetransmissions \in Nat
    /\ RepeatsEstablishment \in BOOLEAN

VARIABLES
    suite,
    timers,      \* TRUE: the timers of f_Mutex_lock and of the code that holds it run
    stage,       \* stage[h]: where ConnHdlr h is
    erab,        \* erab[h]: the loop index i of f_ConnHdlr_session_establish and _modify
    procedure,   \* procedure[h]: what the system under test does for h
    progress,    \* progress[h][e]: "idle", "requested" or "done"
    associating, \* the system under test has sent its association request
    heartbeats,  \* heartbeat requests the system under test may still send
    retransmissions   \* requests it may still repeat

sessionVars == <<stage, erab, procedure, progress, associating, heartbeats, retransmissions>>
allVars == <<vars, pfcpVars, sessionVars, suite, timers>>

Sessions == 1..NumErabs
LocSeid(h, e) == <<h, e>>          \* pfcp_loc_seid, upf_f_seid
SessionsOf == IF suite = "s1gw" THEN Sessions ELSE {1}
AllIdle == [e \in Sessions |-> "idle"]

SessionsInit ==
    /\ PfcpInit
    /\ stage = [h \in ConnHdlrs |-> "start"]
    /\ erab = [h \in Users |-> 1]
    /\ procedure = [h \in Users |-> "none"]
    /\ progress = [h \in Users |-> AllIdle]
    /\ associating = FALSE
    /\ heartbeats \in 0..MaxHeartbeats
    /\ retransmissions \in 0..MaxRetransmissions

-----------------------------------------------------------------------------
(* The ConnHdlrs. *)

\* h runs and its last call was answered with success.
Runs(h) == Alive /\ result[h] = "true" /\ (h \in Clients => pc[h] # "shutdown")
At(h, s) == Runs(h) /\ stage[h] = s
GoTo(h, s) == stage' = [stage EXCEPT ![h] = s]

\* f_pfcp_assoc: the testcase goes on when the association is set up.
Associated == stage[Associator] = "done"

Received(h, kind) == pfcp[h] # <<>> /\ Head(pfcp[h]).kind = kind

\* The answer to the first PDU at h's port; nobody looks at its SEID.
AnswerPdu(h, kind) ==
    SendPdu(h, [Head(pfcp[h]) EXCEPT !.kind = kind, !.seid = NoSeid])

\* f_ConnHdlr_pfcp_assoc_setup
AssocSubscribe(h) ==
    /\ At(h, "start") /\ GoTo(h, "assoc")
    /\ Call(h, "subscribe_bcast", NoSeid)
    /\ UNCHANGED <<clientQ, pfcp>>

AssocReceive(h) ==
    /\ At(h, "assoc") /\ GoTo(h, "assoc_answer")
    /\ Received(h, "assoc_req")
    /\ Call(h, "unsubscribe_bcast", NoSeid)
    /\ UNCHANGED <<clientQ, pfcp>>

AssocTimestamp(h) ==
    /\ At(h, "assoc_answer") /\ GoTo(h, "assoc_send")
    /\ Call(h, "get_recovery_timestamp", NoSeid)
    /\ UNCHANGED <<clientQ, pfcp>>

AssocSend(h) ==
    /\ At(h, "assoc_send") /\ GoTo(h, "done")
    /\ AnswerPdu(h, "assoc_resp") /\ TakePdu(h)
    /\ UNCHANGED <<procQ, result>>

AssocStep ==
    /\ \/ AssocSubscribe(Associator) \/ AssocReceive(Associator)
       \/ AssocTimestamp(Associator) \/ AssocSend(Associator)
    /\ UNCHANGED <<vars, conns, g_next_sequence_nr_state, rxQ, txQ, erab, procedure,
                   progress, associating, heartbeats, retransmissions>>

\* What the system under test is made to do for h, by S1AP or RANAP.
Trigger(h, what) ==
    /\ procedure' = [procedure EXCEPT ![h] = what]
    /\ progress' = [progress EXCEPT ![h] = AllIdle]

\* f_Mutex_lock, first statement of f_ConnHdlr_erab_setup_req and
\* f_rab_ass_req_ps_with_pfcp.
LockMutex(h) ==
    /\ suite \in {"s1gw", "hnbgw"} /\ Associated
    /\ At(h, "start") /\ GoTo(h, "locking")
    /\ CallLock(h)
    /\ UNCHANGED <<pfcpVars, erab, procedure, progress>>

SubscribeSeid0(h) ==
    /\ At(h, "locking") /\ pc[h] = "critical" /\ GoTo(h, "trigger")
    /\ Call(h, "subscribe_seid", SEID0)
    /\ UNCHANGED <<vars, clientQ, pfcp, erab, procedure, progress>>

\* E-RAB SETUP REQUEST, RAB ASSIGNMENT REQUEST
TriggerEstablishment(h) ==
    /\ At(h, "trigger") /\ GoTo(h, "establish")
    /\ Trigger(h, "est")
    /\ UNCHANGED <<vars, clientQ, procQ, result, pfcp, erab>>

\* Whose establishment requests the template of h accepts: s1gw expects the TEID of
\* its next E-RAB, hnbgw any.
EstablishmentOf(h) ==
    IF suite = "s1gw" THEN {<<h, erab[h]>>} ELSE Users \X Sessions

\* A Session Establishment Request; f_PFCPEM_subscribe_seid for the own SEID.
ReceiveEstablishment(h) ==
    /\ At(h, "establish") /\ GoTo(h, "establish_answer")
    /\ Received(h, "est_req") /\ Head(pfcp[h]).owner \in EstablishmentOf(h)
    /\ Call(h, "subscribe_seid", LocSeid(h, erab[h]))
    /\ UNCHANGED <<vars, clientQ, pfcp, erab, procedure, progress>>

\* The end of the loop of f_ConnHdlr_session_establish.
LastErab_AtOnce(h) == TRUE
LastErab(h) == erab[h] + 1 \notin SessionsOf

\* s1gw: the response; SEID 0 is unsubscribed after the last one.
AnswerEstablishment(h) ==
    /\ suite = "s1gw" /\ At(h, "establish_answer")
    /\ AnswerPdu(h, "est_resp") /\ TakePdu(h)
    /\ \/ /\ ~LastErab(h)
          /\ erab' = [erab EXCEPT ![h] = @ + 1]
          /\ GoTo(h, "establish")
          /\ UNCHANGED <<procQ, result>>
       \/ /\ LastErab(h)
          /\ erab' = [erab EXCEPT ![h] = 1]
          /\ GoTo(h, "unlock")
          /\ Call(h, "unsubscribe_seid", SEID0)
    /\ UNCHANGED <<vars, procedure, progress>>

\* hnbgw: SEID 0 is unsubscribed before the response.
UnsubscribeSeid0(h) ==
    /\ suite = "hnbgw" /\ At(h, "establish_answer") /\ GoTo(h, "unlock")
    /\ Call(h, "unsubscribe_seid", SEID0)
    /\ UNCHANGED <<vars, clientQ, pfcp, erab, procedure, progress>>

\* f_Mutex_unlock; hnbgw: the response, with the mutex unlocked.
UnlockMutex(h) ==
    /\ At(h, "unlock") /\ GoTo(h, "setup")
    /\ CallUnlock(h)
    /\ IF suite = "hnbgw" THEN AnswerPdu(h, "est_resp") /\ TakePdu(h)
                          ELSE UNCHANGED <<clientQ, pfcp>>
    /\ UNCHANGED <<procQ, result, erab, procedure, progress>>

AllDone(h) == \A e \in SessionsOf : progress[h][e] = "done"

\* What the system under test sends on makes the ConnHdlr answer, and that makes
\* it modify the sessions, and in the end delete them.
TriggerModification(h) ==
    /\ At(h, "setup") /\ AllDone(h) /\ GoTo(h, "modify")
    /\ Trigger(h, "mod")
    /\ UNCHANGED <<vars, clientQ, procQ, result, pfcp, erab>>

\* f_ConnHdlr_session_modify, f_rab_ass_resp_ps_with_pfcp
AnswerModification(h) ==
    /\ At(h, "modify")
    /\ Received(h, "mod_req") /\ Head(pfcp[h]).seid = LocSeid(h, erab[h])
    /\ AnswerPdu(h, "mod_resp") /\ TakePdu(h)
    /\ erab' = [erab EXCEPT ![h] = IF LastErab(h) THEN 1 ELSE @ + 1]
    /\ GoTo(h, IF LastErab(h) THEN "modified" ELSE "modify")
    /\ UNCHANGED <<vars, procQ, result, procedure, progress>>

TriggerDeletion(h) ==
    /\ At(h, "modified") /\ AllDone(h) /\ GoTo(h, "delete")
    /\ Trigger(h, "del")
    /\ UNCHANGED <<vars, clientQ, procQ, result, pfcp, erab>>

\* f_ConnHdlr_session_delete, as_pfcp_handle_del_req: in any order, each session
\* once (a second request would find its SEID unsubscribed); erab counts them.
AnswerDeletion(h) ==
    /\ At(h, "delete")
    /\ Received(h, "del_req") /\ Head(pfcp[h]).seid \in {LocSeid(h, e) : e \in SessionsOf}
    /\ AnswerPdu(h, "del_resp") /\ TakePdu(h)
    /\ Call(h, "unsubscribe_seid", Head(pfcp[h]).seid)
    /\ erab' = [erab EXCEPT ![h] = @ + 1]
    /\ GoTo(h, IF LastErab(h) THEN "deleted" ELSE "delete")
    /\ UNCHANGED <<vars, procedure, progress>>

End(h) ==
    /\ At(h, "deleted") /\ GoTo(h, "done")
    /\ UNCHANGED <<vars, clientQ, procQ, result, pfcp, erab, procedure, progress>>

\* f_TC_pfcp_heartbeat
HeartbeatTimestamp(h) ==
    /\ suite = "heartbeat" /\ Associated
    /\ At(h, "start") /\ GoTo(h, "heartbeat")
    /\ Call(h, "get_recovery_timestamp", NoSeid)
    /\ UNCHANGED <<vars, clientQ, pfcp, erab, procedure, progress>>

SendHeartbeat(h) ==
    /\ At(h, "heartbeat") /\ GoTo(h, "heartbeat_sent")
    /\ SendPdu(h, PDU("heartbeat_req", <<0>>, NoSeid, <<h, 1>>))
    /\ UNCHANGED <<vars, procQ, result, pfcp, erab, procedure, progress>>

ReceiveHeartbeat(h) ==
    /\ At(h, "heartbeat_sent") /\ GoTo(h, "done")
    /\ Received(h, "heartbeat_resp") /\ TakePdu(h)
    /\ UNCHANGED <<vars, clientQ, procQ, result, erab, procedure, progress>>

\* Some PDU other than the one expected, or a call refused: f_shutdown, mtc.stop.
Expected(h) ==
    CASE stage[h] = "establish"      -> [kind |-> {"est_req"}, owner |-> EstablishmentOf(h)]
      [] stage[h] = "modify"         -> [kind |-> {"mod_req"}, owner |-> {<<h, erab[h]>>}]
      [] stage[h] = "delete"         -> [kind |-> {"del_req"},
                                         owner |-> {<<h, e>> : e \in SessionsOf}]
      [] stage[h] = "heartbeat_sent" -> [kind |-> {"heartbeat_resp"}, owner |-> {<<h, 1>>}]

Amiss(h) ==
    /\ Alive /\ pc[h] # "shutdown"
    /\ \/ result[h] = "false"
       \/ /\ Runs(h) /\ pfcp[h] # <<>>
          /\ stage[h] \in {"establish", "modify", "delete", "heartbeat_sent"}
          /\ \/ Head(pfcp[h]).kind \notin Expected(h).kind
             \/ Head(pfcp[h]).owner \notin Expected(h).owner
    /\ pc' = [pc EXCEPT ![h] = "shutdown"]
    /\ Shutdown
    /\ UNCHANGED <<locked, g_mutex_ref, lockQ, unlockQ, inbox, ref, rounds, disp,
                   clientQ, procQ, result, pfcp, stage, erab, procedure, progress>>

UserStep(h) ==
    /\ \/ LockMutex(h) \/ SubscribeSeid0(h) \/ TriggerEstablishment(h)
       \/ ReceiveEstablishment(h) \/ AnswerEstablishment(h) \/ UnsubscribeSeid0(h)
       \/ UnlockMutex(h) \/ TriggerModification(h) \/ AnswerModification(h)
       \/ TriggerDeletion(h) \/ AnswerDeletion(h) \/ End(h)
       \/ HeartbeatTimestamp(h) \/ SendHeartbeat(h) \/ ReceiveHeartbeat(h)
       \/ Amiss(h)
    /\ UNCHANGED <<conns, g_next_sequence_nr_state, rxQ, txQ, associating, heartbeats, retransmissions>>

-----------------------------------------------------------------------------
(* The system under test, and the PDUs on their way to it. *)

\* A request under a sequence number of its own.
Request(kind, seid, owner) ==
    rxQ' = Append(rxQ, PDU(kind, <<kind, owner>>, seid, owner))

RequestOf == [est |-> "est_req", mod |-> "mod_req", del |-> "del_req"]

SessionRequest(h, e) ==
    Request(RequestOf[procedure[h]],
            IF procedure[h] = "est" THEN SEID0 ELSE LocSeid(h, e), <<h, e>>)

\* Sessions are established and modified in their order, without waiting for the
\* responses, and deleted in any order.
RequestSession(h, e) ==
    /\ procedure[h] # "none" /\ e \in SessionsOf /\ progress[h][e] = "idle"
    /\ procedure[h] # "del" => \A d \in 1..(e - 1) : progress[h][d] # "idle"
    /\ SessionRequest(h, e)
    /\ progress' = [progress EXCEPT ![h][e] = "requested"]
    /\ UNCHANGED <<txQ, associating, heartbeats, retransmissions>>

\* No answer came in time, or has been handled yet.  An establishment request is
\* repeated only where RepeatsEstablishment: it carries SEID 0, so it may come when
\* another ConnHdlr is the one subscribed to that.
Retransmit(h, e) ==
    /\ retransmissions > 0 /\ progress[h][e] = "requested"
    /\ procedure[h] = "est" => RepeatsEstablishment
    /\ retransmissions' = retransmissions - 1
    /\ SessionRequest(h, e)
    /\ UNCHANGED <<txQ, progress, associating, heartbeats>>

RequestAssociation ==
    /\ ~associating /\ stage[Associator] = "assoc" /\ result[Associator] = "true"
    /\ associating' = TRUE
    /\ Request("assoc_req", NoSeid, <<Associator, 1>>)
    /\ UNCHANGED <<txQ, progress, heartbeats, retransmissions>>

RequestHeartbeat ==
    /\ Associated /\ heartbeats > 0
    /\ heartbeats' = heartbeats - 1
    /\ Request("heartbeat_req", NoSeid, <<Associator, heartbeats>>)
    /\ UNCHANGED <<txQ, associating, progress, retransmissions>>

\* A heartbeat request is answered, a response ends what it is about.
TakeAnswer ==
    /\ txQ # <<>>
    /\ txQ' = Tail(txQ)
    /\ LET pdu == Head(txQ)
       IN  /\ rxQ' = IF pdu.kind = "heartbeat_req"
                     THEN Append(rxQ, [pdu EXCEPT !.kind = "heartbeat_resp"]) ELSE rxQ
           /\ progress' = IF pdu.kind \in {"est_resp", "mod_resp", "del_resp"}
                          THEN [progress EXCEPT ![pdu.owner[1]][pdu.owner[2]] = "done"]
                          ELSE progress
    /\ UNCHANGED <<associating, heartbeats, retransmissions>>

IutStep ==
    /\ Alive
    /\ \/ \E h \in Users, e \in Sessions : RequestSession(h, e) \/ Retransmit(h, e)
       \/ RequestAssociation \/ RequestHeartbeat \/ TakeAnswer
    /\ UNCHANGED <<vars, conns, g_next_sequence_nr_state, clientQ, procQ, result, pfcp,
                   stage, erab, procedure>>

-----------------------------------------------------------------------------
MainStep == Alive /\ PfcpMain /\ UNCHANGED <<vars, sessionVars>>
MutexStep == Dispatcher /\ UNCHANGED <<pfcpVars, sessionVars>>
Locked(h) == GetReply(h) /\ UNCHANGED <<pfcpVars, sessionVars>>
GiveUp(h) == /\ timers /\ (LockTimeout(h) \/ AbortCritical(h))
             /\ UNCHANGED <<pfcpVars, sessionVars>>
Stop == StopTestcase /\ UNCHANGED <<pfcpVars, sessionVars>>

\* Every ConnHdlr returned, or the testcase was stopped.
AllReturned == \A h \in Users : stage[h] = "done"
SessionsFinished == (AllReturned \/ ~Alive) /\ UNCHANGED <<vars, pfcpVars, sessionVars>>

\* Everything that no timer does.
SessionsProgress ==
    \/ AssocStep
    \/ \E h \in Users : UserStep(h) \/ Locked(h)
    \/ IutStep \/ MainStep \/ MutexStep \/ Stop

SessionsNext ==
    \/ SessionsProgress
    \/ \E h \in Users : GiveUp(h)
    \/ SessionsFinished

\* Without a suite the components only use the mutex.
MutexOnly == suite = "none" /\ UNCHANGED <<pfcpVars, sessionVars, suite, timers>>

AllInit ==
    /\ Init /\ SessionsInit
    /\ suite \in {"none", "s1gw", "hnbgw", "heartbeat"} /\ timers \in BOOLEAN

AllNext ==
    \/ Next /\ MutexOnly
    \/ suite # "none" /\ SessionsNext /\ UNCHANGED <<suite, timers>>

SessionsSpec == AllInit /\ [][AllNext]_allVars

-----------------------------------------------------------------------------
\* A PDU about a session or an answer to a request only ever reaches the ConnHdlr
\* of that session or request (f_PFCPEM_conn_for_pdu), although the establishment
\* requests of all sessions carry the same SEID: whoever holds the mutex is the one
\* subscribed to it until its last request has come.
EachToItsOwn ==
    [][\A h \in ConnHdlrs : Len(pfcp'[h]) > Len(pfcp[h])
         => pfcp'[h][Len(pfcp'[h])].owner[1] = h]_allVars

\* While nobody's timer expires every ConnHdlr gets all the PDUs it waits for, no
\* others, each subscription it asks for, and ends.
SessionsComplete == ~timers /\ suite # "none" ~> AllReturned
=============================================================================
