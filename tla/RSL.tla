-------------------------------- MODULE RSL ---------------------------------
(***************************************************************************)
(* The dispatcher of library/RSL_Emulation.ttcn: it hands the RSL messages *)
(* of the IPA links to the components that handle a dedicated channel, and *)
(* theirs to the links.  With BtsRole it plays the transceivers of a BTS   *)
(* towards a BSC (suite bsc), otherwise a BSC towards a BTS (suite bts).   *)
(*                                                                         *)
(* A logical channel stands for a TRX (stream id) and a channel number; a  *)
(* random reference stands for RA and frame number.  An RSL message is     *)
(* reduced to the alternative that takes it and what that one reads.       *)
(*                                                                         *)
(* What one handler sends reaches the dispatcher in the order it was sent: *)
(* a call is served after the messages sent before it, as the alternatives *)
(* of CLIENT_PT precede those of RSL_PROC.  Links and handlers are not     *)
(* ordered with each other.  RSLBsc and RSLBts add the handlers and the    *)
(* system under test.                                                      *)
(***************************************************************************)
EXTENDS Naturals, Sequences, FiniteSets

CONSTANTS BtsRole,   \* RSL_Emulation.main(bts_role)
          Hdlrs,     \* components that extend RSL_DchanHdlr
          Trxs,      \* transceivers, sizeof(TrxConnMap) of them
          Lchans,    \* logical channels
          TrxOf,     \* TrxOf[c]: the transceiver of channel c
          Ras,       \* random references
          Conns,     \* TCP/IP connections of the IPA emulation
          Slots,     \* sizeof(ConnectionTable)
          None       \* an omitted field, null, or -1 in TrxConnMap

ASSUME RSLAssumption ==
    /\ BtsRole \in BOOLEAN
    /\ IsFiniteSet(Trxs)
    /\ TrxOf \in [Lchans -> Trxs]
    /\ Slots \in Nat
    /\ None \notin Hdlrs \cup Trxs \cup Lchans \cup Ras \cup Conns

VARIABLES
    ConnectionTable,    \* records of handler, channel and random reference
    LastActTable,       \* last CHAN ACTIV per channel: the handler it is for
    TrxConnMap,         \* connection per transceiver
    TrxConnNum,         \* number of connected transceivers
    WaitingQueue,       \* RSL messages without a handler
    dchan_suspended,
    wait_queue_enabled,
    ipa,      \* IPA_PT: events and RSL messages from the links, oldest first
    client,   \* CLIENT_PT: client[h] is what handler h sent
    call,     \* RSL_PROC: the call of h, or Idle
    inbox,    \* RSL port of h
    cchan,    \* CCHAN_PT of the main component
    iut,      \* messages on their way to the system under test
    ended,    \* handlers that have ended
    outcome   \* "running", or "failed": mtc.stop, testcase.stop, dynamic error

tables == <<ConnectionTable, LastActTable>>
trxMap == <<TrxConnMap, TrxConnNum>>
queueing == <<WaitingQueue, dchan_suspended, wait_queue_enabled>>
rslVars == <<tables, trxMap, queueing, ipa, client, call, inbox, cchan, iut, ended, outcome>>

Free == [comp |-> None, lchan |-> None, ra |-> None]
Entries == [comp : Hdlrs \cup {None}, lchan : Lchans \cup {None}, ra : Ras \cup {None}]

Ops == {"register", "unregister", "suspend", "resume", "enable", "dispatch", "last"}
Idle == [op |-> "none", lchan |-> None]
Calls == [op : Ops, lchan : Lchans \cup {None}]

\* f_conn_table_init, f_trx_conn_map_init, f_last_act_table_init
RSLInit ==
    /\ ConnectionTable = [i \in 1 .. Slots |-> Free]
    /\ LastActTable = [c \in Lchans |-> None]
    /\ TrxConnMap = [t \in Trxs |-> None]
    /\ TrxConnNum = 0
    /\ WaitingQueue = <<>>
    /\ dchan_suspended = FALSE
    /\ wait_queue_enabled = FALSE
    /\ ipa = <<>>
    /\ client = [h \in Hdlrs |-> <<>>]
    /\ call = [h \in Hdlrs |-> Idle]
    /\ inbox = [h \in Hdlrs |-> <<>>]
    /\ cchan = <<>>
    /\ iut = <<>>
    /\ ended = {}
    /\ outcome = "running"

-----------------------------------------------------------------------------
(* The tables. *)

First(S) == CHOOSE i \in S : \A j \in S : i <= j

FreeSlots == {i \in 1 .. Slots : ConnectionTable[i].ra = None /\ ConnectionTable[i].lchan = None}

\* f_cid_by_comp_ref, f_cid_by_chan_nr, f_cid_by_ra_fn: the first of these
SlotsOfComp(h) == {i \in 1 .. Slots : ConnectionTable[i].comp = h}
SlotsOfLchan_AnyTrx(c) == {i \in 1 .. Slots : ConnectionTable[i].lchan # None}
SlotsOfLchan(c) == {i \in 1 .. Slots : ConnectionTable[i].lchan = c}
SlotsOfRa_SameFnOnly(r) == {}
SlotsOfRa(r) == {i \in 1 .. Slots : ConnectionTable[i].ra = r}

HasHandler(c) == SlotsOfLchan(c) # {}
HandlerOf(c) == ConnectionTable[First(SlotsOfLchan(c))].comp

\* f_cid_clear
Clear_Nothing(i) == UNCHANGED ConnectionTable
Clear(i) == ConnectionTable' = [ConnectionTable EXCEPT ![i] = Free]

\* An entry in use has a handler, and only then.
Owned(entry) == entry.comp = None <=> entry.lchan = None /\ entry.ra = None

Create(entry) == ConnectionTable' = [ConnectionTable EXCEPT ![First(FreeSlots)] = entry]

-----------------------------------------------------------------------------

Dispatcher == outcome = "running" /\ UNCHANGED ended

Running == UNCHANGED outcome
Fail == outcome' = "failed" /\ UNCHANGED <<tables, trxMap, queueing, ipa, client, call, inbox, cchan, iut>>

\* CLIENT_PT.send to a component, which must not have ended
Deliver(h, m) == h \notin ended /\ inbox' = [inbox EXCEPT ![h] = Append(@, m)]

-----------------------------------------------------------------------------
(* Events and messages of the links: IPA_PT. *)

Take(kind, m) ==
    /\ Dispatcher
    /\ ipa # <<>>
    /\ m = Head(ipa)
    /\ m.t = kind
    /\ ipa' = Tail(ipa)
    /\ UNCHANGED <<client, call>>

\* ASP_IPA_EVENT_UP: nothing to do in either role
LinkEstablished(m) ==
    /\ Take("UP", m)
    /\ Running
    /\ UNCHANGED <<tables, trxMap, queueing, inbox, cchan, iut>>

TrxUpEvent(m) == Append(cchan, [t |-> "TRX_UP", trx |-> m.trx])

Registers(m) == TrxConnMap[m.trx] = None

\* ASP_IPA_EVENT_ID_RESP, f_trx_conn_map_register
LinkIdentified(m) ==
    /\ ~BtsRole
    /\ Take("ID_RESP", m)
    /\ Registers(m)
    /\ TrxConnMap' = [TrxConnMap EXCEPT ![m.trx] = m.conn]
    /\ TrxConnNum' = TrxConnNum + 1
    /\ cchan' = TrxUpEvent(m)
    /\ Running
    /\ UNCHANGED <<tables, queueing, inbox, iut>>

TrxsOn(k) == {t \in Trxs : TrxConnMap[t] = k}

Unregistered_KeepsConn(t) == TrxConnMap
Unregistered(t) == [TrxConnMap EXCEPT ![t] = None]

\* ASP_IPA_EVENT_DOWN in either role, f_trx_conn_map_unregister
LinkLost(m) ==
    /\ Take("DOWN", m)
    /\ \E t \in TrxsOn(m.conn) :
          /\ TrxConnMap' = Unregistered(t)
          /\ cchan' = Append(cchan, [t |-> "TRX_DOWN", trx |-> t])
    /\ TrxConnNum' = TrxConnNum - 1
    /\ Running
    /\ UNCHANGED <<tables, queueing, inbox, iut>>

\* IMMEDIATE ASSIGNMENT: the requesting handler learns its channel.
ImmAss(m) ==
    LET i == First(SlotsOfRa(m.ra)) IN
    /\ BtsRole
    /\ Take("IMM_ASS", m)
    /\ SlotsOfRa(m.ra) # {}
    /\ ConnectionTable' = [ConnectionTable EXCEPT ![i].lchan = m.lchan]
    /\ Deliver(ConnectionTable[i].comp, m)
    /\ Running
    /\ UNCHANGED <<LastActTable, trxMap, queueing, cchan, iut>>

\* IMMEDIATE ASSIGNMENT REJECT, for one of the requests it names
ImmAssRej(m) ==
    LET i == First(SlotsOfRa(m.ra)) IN
    /\ BtsRole
    /\ Take("IMM_REJ", m)
    /\ IF SlotsOfRa(m.ra) # {}
       THEN Deliver(ConnectionTable[i].comp, m) /\ Clear(i)
       ELSE UNCHANGED <<ConnectionTable, inbox>>
    /\ Running
    /\ UNCHANGED <<LastActTable, trxMap, queueing, cchan, iut>>

\* CHANNEL REQUIRED: for the handler that expects the random reference
ChanRqd(m) ==
    LET i == First(SlotsOfRa(m.ra)) IN
    /\ ~BtsRole
    /\ Take("CHAN_RQD", m)
    /\ IF SlotsOfRa(m.ra) # {}
       THEN Deliver(ConnectionTable[i].comp, m) /\ Clear(i) /\ UNCHANGED cchan
       ELSE cchan' = Append(cchan, m) /\ UNCHANGED <<ConnectionTable, inbox>>
    /\ Running
    /\ UNCHANGED <<LastActTable, trxMap, queueing, iut>>

Forwarded_NotCommon(m) == cchan
Forwarded(m) == Append(cchan, m)

\* TRX management and common channels: for the main component
CommonChannel(m) ==
    /\ Take("COMMON", m)
    /\ cchan' = Forwarded(m)
    /\ Running
    /\ UNCHANGED <<tables, trxMap, queueing, inbox, iut>>

Stored_FirstOnly(m) == IF LastActTable[m.lchan] = None THEN m.for ELSE LastActTable[m.lchan]
Stored(m) == m.for

ActAck(m) == Append(iut, [t |-> "ACT_ACK", lchan |-> m.lchan, trx |-> TrxOf[m.lchan]])

\* CHANNEL ACTIVATION: stored and acknowledged
ChanActiv(m) ==
    /\ BtsRole
    /\ Take("CHAN_ACTIV", m)
    /\ LastActTable' = [LastActTable EXCEPT ![m.lchan] = Stored(m)]
    /\ iut' = ActAck(m)
    /\ Running
    /\ UNCHANGED <<ConnectionTable, trxMap, queueing, inbox, cchan>>

Dispatchable_WhenSuspended == TRUE
Dispatchable == ~dchan_suspended

\* Dedicated channel or RLL: to the handler of the channel ...
ToHandler(m) ==
    /\ Dispatchable
    /\ Take("DR", m)
    /\ HasHandler(m.lchan)
    /\ Deliver(HandlerOf(m.lchan), m)
    /\ Running
    /\ UNCHANGED <<tables, trxMap, queueing, cchan, iut>>

Keeps == wait_queue_enabled

\* ... or kept until there is one
ToWaitingQueue(m) ==
    /\ Dispatchable
    /\ Take("DR", m)
    /\ ~HasHandler(m.lchan) /\ Keeps
    /\ WaitingQueue' = Append(WaitingQueue, m)
    /\ Running
    /\ UNCHANGED <<tables, trxMap, dchan_suspended, wait_queue_enabled, inbox, cchan, iut>>

\* The alternative taken ends the testcase.
LinkFails(m) ==
    /\ Dispatcher
    /\ ipa # <<>>
    /\ m = Head(ipa)
    /\ \/ m.t = "ID_RESP" /\ ~BtsRole /\ ~Registers(m)
       \/ m.t = "DOWN" /\ TrxsOn(m.conn) = {}
       \/ m.t = "IMM_ASS" /\ SlotsOfRa(m.ra) = {}
       \/ /\ m.t \in {"IMM_ASS", "IMM_REJ", "CHAN_RQD"} /\ SlotsOfRa(m.ra) # {}
          /\ ConnectionTable[First(SlotsOfRa(m.ra))].comp \in ended
       \/ m.t = "DR" /\ Dispatchable
             /\ IF HasHandler(m.lchan) THEN HandlerOf(m.lchan) \in ended ELSE ~Keeps
    /\ Fail

FromLink(m) ==
    \/ LinkEstablished(m) \/ LinkIdentified(m) \/ LinkLost(m)
    \/ ImmAss(m) \/ ImmAssRej(m) \/ ChanRqd(m) \/ CommonChannel(m)
    \/ ChanActiv(m)
    \/ ToHandler(m) \/ ToWaitingQueue(m) \/ LinkFails(m)

-----------------------------------------------------------------------------
(* Messages of the handlers: CLIENT_PT. *)

FromHandler(h) ==
    /\ Dispatcher
    /\ client[h] # <<>>
    /\ UNCHANGED <<LastActTable, trxMap, queueing, ipa, call, inbox, cchan>>

\* RSLDC_ChanRqd: f_cid_create; in the BTS role the BSC is asked for a channel
ClientRqd(h) ==
    LET m == Head(client[h]) IN
    /\ FromHandler(h)
    /\ m.t = "RQD"
    /\ FreeSlots # {}
    /\ Create([comp |-> h, lchan |-> None, ra |-> m.ra])
    /\ iut' = IF BtsRole THEN Append(iut, m) ELSE iut
    /\ client' = [client EXCEPT ![h] = Tail(@)]
    /\ Running

LinkUpFor(c) == c # None /\ (BtsRole \/ TrxConnMap[TrxOf[c]] # None)
LchanOfComp(h) == ConnectionTable[First(SlotsOfComp(h))].lchan
CanSend(h) == SlotsOfComp(h) # {} /\ LinkUpFor(LchanOfComp(h))

\* An RSL message goes to the transceiver of the first entry of its sender.
ClientMsg(h) ==
    LET m == Head(client[h]) IN
    /\ FromHandler(h)
    /\ m.t # "RQD"
    /\ CanSend(h)
    /\ iut' = Append(iut, [t |-> m.t, lchan |-> m.lchan, trx |-> TrxOf[LchanOfComp(h)]])
    /\ client' = [client EXCEPT ![h] = Tail(@)]
    /\ Running
    /\ UNCHANGED ConnectionTable

\* The table is full; ConnectionTable[-1]; a stream id that is not set; a
\* transceiver that is not connected.
ClientFails(h) ==
    /\ Dispatcher
    /\ client[h] # <<>>
    /\ IF Head(client[h]).t = "RQD" THEN FreeSlots = {} ELSE ~CanSend(h)
    /\ Fail

FromClient(h) == ClientRqd(h) \/ ClientMsg(h) \/ ClientFails(h)

-----------------------------------------------------------------------------
(* Calls of the handlers: RSL_PROC. *)

Getcall(h, op) == Dispatcher /\ client[h] = <<>> /\ call[h].op = op
Reply_NotOnDispatch(h) ==
    /\ call' = IF call[h].op = "dispatch" THEN call ELSE [call EXCEPT ![h] = Idle]
    /\ UNCHANGED <<client, ipa, cchan, iut, trxMap, LastActTable>>
Reply(h) ==
    /\ call' = [call EXCEPT ![h] = Idle]
    /\ UNCHANGED <<client, ipa, cchan, iut, trxMap, LastActTable>>

RSLEM_register(h) ==
    /\ Getcall(h, "register")
    /\ IF FreeSlots # {}
       THEN /\ Create([comp |-> h, lchan |-> call[h].lchan, ra |-> None])
            /\ Reply(h)
            /\ Running
            /\ UNCHANGED <<queueing, inbox>>
       ELSE Fail

\* The caller is not compared with the entry; ConnectionTable[-1] is an error.
RSLEM_unregister(h) ==
    /\ Getcall(h, "unregister")
    /\ IF HasHandler(call[h].lchan)
       THEN /\ Clear(First(SlotsOfLchan(call[h].lchan)))
            /\ Reply(h)
            /\ Running
            /\ UNCHANGED <<queueing, inbox>>
       ELSE Fail

RSLEM_suspend(h) ==
    /\ Getcall(h, "suspend") \/ Getcall(h, "resume")
    /\ dchan_suspended' = (call[h].op = "suspend")
    /\ Reply(h)
    /\ Running
    /\ UNCHANGED <<ConnectionTable, WaitingQueue, wait_queue_enabled, inbox>>

WaitQueueEnable(h) ==
    /\ Getcall(h, "enable")
    /\ wait_queue_enabled' = TRUE
    /\ Reply(h)
    /\ Running
    /\ UNCHANGED <<ConnectionTable, WaitingQueue, dchan_suspended, inbox>>

Stalled == IF wait_queue_enabled THEN WaitingQueue ELSE <<>>
\* Those for h, in their order
StalledFor(h) ==
    LET mine == {i \in DOMAIN Stalled : HandlerOf(Stalled[i].lchan) = h}
        Nth(k) == CHOOSE i \in mine : Cardinality({j \in mine : j <= i}) = k
    IN  [k \in 1 .. Cardinality(mine) |-> Stalled[Nth(k)]]

AfterDispatch_Kept == WaitingQueue
AfterDispatch == <<>>

\* f_WaitingQueue_dispatch; when the queue was not enabled there is only a reply
WaitQueueDispatch(h) ==
    /\ Getcall(h, "dispatch")
    /\ IF \A i \in DOMAIN Stalled :
             HasHandler(Stalled[i].lchan) /\ HandlerOf(Stalled[i].lchan) \notin ended
       THEN /\ inbox' = [g \in Hdlrs |-> inbox[g] \o StalledFor(g)]
            /\ WaitingQueue' = IF wait_queue_enabled THEN AfterDispatch ELSE WaitingQueue
            /\ wait_queue_enabled' = FALSE
            /\ Reply(h)
            /\ Running
            /\ UNCHANGED <<ConnectionTable, dchan_suspended>>
       ELSE Fail

RSLEM_get_last_act(h) ==
    /\ Getcall(h, "last")
    /\ IF LastActTable[call[h].lchan] # None
       THEN Reply(h) /\ Running /\ UNCHANGED <<ConnectionTable, queueing, inbox>>
       ELSE Fail

Serve(h) ==
    \/ RSLEM_register(h) \/ RSLEM_unregister(h) \/ RSLEM_suspend(h)
    \/ WaitQueueEnable(h) \/ WaitQueueDispatch(h) \/ RSLEM_get_last_act(h)

Route == \E m \in {ipa[i] : i \in DOMAIN ipa \cap {1}} : FromLink(m)

Main == Route \/ \E h \in Hdlrs : FromClient(h) \/ Serve(h)

=============================================================================
