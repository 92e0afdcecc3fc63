------------------------------- MODULE RSLBts -------------------------------
(***************************************************************************)
(* The dispatcher of RSL in the BSC role, with the main component and the  *)
(* handlers of the suite bts and a BTS under test.  The main component     *)
(* waits until every transceiver is connected (f_init_rsl); a handler      *)
(* registers its channel (f_handler_init), activates and releases it       *)
(* (f_rsl_chan_act, f_rsl_chan_deact), and may expect the random access of *)
(* its phone (f_rach_req_wait_chan_rqd).  Handlers with one channel run    *)
(* one after the other, as the testcase waits for the first to be done.    *)
(***************************************************************************)
EXTENDS RSL

CONSTANTS ChanOf,   \* ChanOf[h]: channel of handler h
          RaOf,     \* RaOf[h]: random reference handler h uses
          Callers,  \* handlers that expect the random access of a phone
          ConnOf,   \* ConnOf[t]: connection transceiver t opens
          Prompt,   \* the dispatcher takes RSLDC_ChanRqd before the phone
                    \* gets to send its access burst
          MayLose,  \* a link may be lost
          MaxData   \* bound: unread measurement results of a channel

ASSUME RSLBtsAssumption ==
    /\ ~BtsRole
    /\ ChanOf \in [Hdlrs -> Lchans]
    /\ RaOf \in [Hdlrs -> Ras]
    /\ \A g, h \in Hdlrs : RaOf[g] = RaOf[h] => g = h
    /\ Callers \subseteq Hdlrs
    /\ ConnOf \in [Trxs -> Conns]
    /\ \A t, u \in Trxs : ConnOf[t] = ConnOf[u] => t = u
    /\ Prompt \in BOOLEAN /\ MayLose \in BOOLEAN
    /\ MaxData \in Nat

\* The table has room for the channels in use and the announced random accesses.
ASSUME SlotsSuffice ==
    /\ IsFiniteSet(Hdlrs)
    /\ Cardinality({ChanOf[h] : h \in Hdlrs}) + Cardinality(Callers) <= Slots

VARIABLES
    link,    \* link[t]: how far the connection of transceiver t has come
    bts,     \* the channels that are active in the BTS
    main,    \* the main component: "init", "running" or "failed"
    trxUp,   \* trx_mask: transceivers announced to the main component
    rfInd,   \* rfind_mask: transceivers that sent RF RESOURCE INDICATION
    stage    \* where handler h is

btsVars == <<link, bts>>
suiteVars == <<main, trxUp, rfInd, stage>>
vars == <<rslVars, btsVars, suiteVars>>

Links == {"down", "up", "identified", "ready", "lost"}
Stages == {"idle", "registered", "announced", "accessing", "accessed",
           "activating", "active", "releasing", "done"}

Init ==
    /\ RSLInit
    /\ link = [t \in Trxs |-> "down"]
    /\ bts = {}
    /\ main = "init"
    /\ trxUp = {} /\ rfInd = {}
    /\ stage = [h \in Hdlrs |-> "idle"]

Dr(c, what) == [t |-> "DR", lchan |-> c, what |-> what]
HandlerRas == {RaOf[h] : h \in Hdlrs}

-----------------------------------------------------------------------------
(* The BTS and the IPA emulation, which stops when a link is lost. *)

BtsStep ==
    /\ outcome = "running"
    /\ \A t \in Trxs : link[t] # "lost"
    /\ UNCHANGED <<tables, trxMap, queueing, client, call, inbox, cchan, ended, outcome, suiteVars>>

LinkStep(t, from, to, m) ==
    /\ BtsStep
    /\ link[t] \in from
    /\ link' = [link EXCEPT ![t] = to]
    /\ ipa' = Append(ipa, m)
    /\ UNCHANGED <<bts, iut>>

Connect(t) == LinkStep(t, {"down"}, "up", [t |-> "UP", conn |-> ConnOf[t]])
Identify(t) ==
    LinkStep(t, {"up"}, "identified", [t |-> "ID_RESP", trx |-> t, conn |-> ConnOf[t]])
RfResInd(t) == LinkStep(t, {"identified"}, "ready", [t |-> "COMMON", trx |-> t])
LinkCloses(t) ==
    /\ MayLose
    /\ LinkStep(t, {"up", "identified", "ready"}, "lost", [t |-> "DOWN", conn |-> ConnOf[t]])

\* CHAN ACTIV is acknowledged, and so is RF CHAN REL.
BtsReacts ==
    /\ BtsStep
    /\ iut # <<>>
    /\ iut' = Tail(iut)
    /\ LET m == Head(iut) IN
       \/ /\ m.t = "CHAN_ACTIV"
          /\ bts' = bts \cup {m.lchan}
          /\ ipa' = Append(ipa, Dr(m.lchan, "act_ack"))
       \/ /\ m.t = "CHAN_REL"
          /\ bts' = bts \ {m.lchan}
          /\ ipa' = Append(ipa, Dr(m.lchan, "rel_ack"))
    /\ UNCHANGED link

IsData(m, c) == m = Dr(c, "data")
Unread(c) ==
    SelectSeq(ipa, LAMBDA m : IsData(m, c)) \o
    (IF HasHandler(c) THEN SelectSeq(inbox[HandlerOf(c)], LAMBDA m : IsData(m, c)) ELSE <<>>)

\* MEASUREMENT RESULT and the like on an active channel
BtsSends(c) ==
    /\ BtsStep
    /\ c \in bts
    /\ Len(Unread(c)) < MaxData
    /\ ipa' = Append(ipa, Dr(c, "data"))
    /\ UNCHANGED <<btsVars, iut>>

\* An access burst of a phone that the main component drives
MainAccess(r) ==
    /\ BtsStep
    /\ main = "running"
    /\ r \notin HandlerRas
    /\ cchan = <<>> /\ \A i \in DOMAIN ipa : ipa[i].t # "CHAN_RQD"
    /\ ipa' = Append(ipa, [t |-> "CHAN_RQD", ra |-> r])
    /\ UNCHANGED <<btsVars, iut>>

-----------------------------------------------------------------------------
(* The main component. *)

MainReads ==
    /\ outcome = "running"
    /\ cchan # <<>>
    /\ cchan' = Tail(cchan)
    /\ UNCHANGED <<tables, trxMap, queueing, ipa, client, call, inbox, iut, ended, outcome,
                   btsVars, stage>>

\* f_init_rsl
TrxUp ==
    /\ main = "init"
    /\ MainReads
    /\ LET m == Head(cchan) IN
       /\ m.t = "TRX_UP"
       /\ trxUp' = trxUp \cup {m.trx}
       /\ main' = IF m.trx \in trxUp THEN "failed" ELSE main
    /\ UNCHANGED rfInd

RfInd ==
    /\ main = "init"
    /\ MainReads
    /\ LET m == Head(cchan) IN
       /\ m.t = "COMMON"
       /\ rfInd' = rfInd \cup {m.trx}
       /\ main' = CASE m.trx \notin trxUp \/ m.trx \in rfInd -> "failed"
                    [] rfInd' = Trxs -> "running"
                    [] OTHER -> main
    /\ UNCHANGED trxUp

\* Later messages are read by the testcase.
Later == main = "running" /\ MainReads /\ UNCHANGED <<main, trxUp, rfInd>>

-----------------------------------------------------------------------------
(* A handler. *)

Step(h, from, to) ==
    /\ outcome = "running" /\ main = "running"
    /\ h \notin ended
    /\ call[h] = Idle
    /\ stage[h] \in from
    /\ stage' = [stage EXCEPT ![h] = to]
    /\ UNCHANGED <<tables, trxMap, queueing, cchan, iut, ended, outcome, btsVars, main, trxUp, rfInd>>

Sends(h, m) == client' = [client EXCEPT ![h] = Append(@, m)]
Asks(h, op) == call' = [call EXCEPT ![h] = [op |-> op, lchan |-> ChanOf[h]]]
Reads(h, what) ==
    /\ inbox[h] # <<>>
    /\ Head(inbox[h]) = what
    /\ inbox' = [inbox EXCEPT ![h] = Tail(@)]

\* f_handler_init
Register(h) ==
    /\ \A g \in Hdlrs \ {h} : ChanOf[g] = ChanOf[h] => stage[g] = "idle" \/ g \in ended
    /\ Step(h, {"idle"}, "registered")
    /\ Asks(h, "register")
    /\ UNCHANGED <<ipa, client, inbox>>

\* f_rach_req_wait_chan_rqd: "advertise to RSL Emulation ..."
Announce(h) ==
    /\ h \in Callers
    /\ Step(h, {"registered"}, "announced")
    /\ Sends(h, [t |-> "RQD", ra |-> RaOf[h]])
    /\ UNCHANGED <<ipa, call, inbox>>

\* ... then the phone sends the access burst.
Access(h) ==
    /\ Prompt => client[h] = <<>>
    /\ \A t \in Trxs : link[t] # "lost"
    /\ Step(h, {"announced"}, "accessing")
    /\ ipa' = Append(ipa, [t |-> "CHAN_RQD", ra |-> RaOf[h]])
    /\ UNCHANGED <<client, call, inbox>>

Accessed(h) ==
    /\ Step(h, {"accessing"}, "accessed")
    /\ Reads(h, [t |-> "CHAN_RQD", ra |-> RaOf[h]])
    /\ UNCHANGED <<ipa, client, call>>

\* f_rsl_chan_act
Activate(h) ==
    /\ Step(h, {"registered", "accessed"}, "activating")
    /\ Sends(h, [t |-> "CHAN_ACTIV", lchan |-> ChanOf[h]])
    /\ UNCHANGED <<ipa, call, inbox>>

Activated(h) ==
    /\ Step(h, {"activating"}, "active")
    /\ Reads(h, Dr(ChanOf[h], "act_ack"))
    /\ UNCHANGED <<ipa, client, call>>

ReadData(h) ==
    /\ Step(h, {"active", "releasing"}, stage[h])
    /\ Reads(h, Dr(ChanOf[h], "data"))
    /\ UNCHANGED <<ipa, client, call>>

\* f_rsl_chan_deact
Deactivate(h) ==
    /\ Step(h, {"active"}, "releasing")
    /\ Sends(h, [t |-> "CHAN_REL", lchan |-> ChanOf[h]])
    /\ UNCHANGED <<ipa, call, inbox>>

Released(h) ==
    /\ Step(h, {"releasing"}, "done")
    /\ Reads(h, Dr(ChanOf[h], "rel_ack"))
    /\ Asks(h, "unregister")
    /\ UNCHANGED <<ipa, client>>

Finish(h) ==
    /\ outcome = "running"
    /\ h \notin ended
    /\ stage[h] = "done" /\ call[h] = Idle
    /\ ended' = ended \cup {h}
    /\ UNCHANGED <<tables, trxMap, queueing, ipa, client, call, inbox, cchan, iut, outcome,
                   btsVars, suiteVars>>

Handler(h) ==
    \/ Register(h) \/ Announce(h) \/ Access(h) \/ Accessed(h) \/ Activate(h)
    \/ Activated(h) \/ ReadData(h) \/ Deactivate(h) \/ Released(h) \/ Finish(h)

-----------------------------------------------------------------------------

MainStep == TrxUp \/ RfInd \/ Later

Next ==
    \/ Main /\ UNCHANGED <<btsVars, suiteVars>>
    \/ \E t \in Trxs : Connect(t) \/ Identify(t) \/ RfResInd(t) \/ LinkCloses(t)
    \/ BtsReacts
    \/ \E c \in Lchans : BtsSends(c)
    \/ \E r \in Ras : MainAccess(r)
    \/ MainStep
    \/ \E h \in Hdlrs : Handler(h)

Spec == Init /\ [][Next]_vars

\* The dispatcher and the main component read their ports, the BTS answers, a
\* handler goes on when what it waits for is there.
FairSpec ==
    /\ Spec
    /\ WF_vars(Route /\ UNCHANGED <<btsVars, suiteVars>>)
    /\ WF_vars(BtsReacts)
    /\ WF_vars(MainStep)
    /\ \A h \in Hdlrs :
          /\ WF_vars((FromClient(h) \/ Serve(h)) /\ UNCHANGED <<btsVars, suiteVars>>)
          /\ WF_vars(Accessed(h) \/ Activated(h) \/ ReadData(h) \/ Released(h))

-----------------------------------------------------------------------------

Messages ==
    [t : {"DR"}, lchan : Lchans, what : {"data", "act_ack", "rel_ack"}]
    \cup [t : {"UP", "DOWN"}, conn : Conns]
    \cup [t : {"ID_RESP"}, trx : Trxs, conn : Conns]
    \cup [t : {"COMMON"}, trx : Trxs]
    \cup [t : {"CHAN_RQD"}, ra : Ras]

\* Types of the variables; an entry of the table is in use just when it has a
\* handler.
TypeOK ==
    /\ ConnectionTable \in [1 .. Slots -> {e \in Entries : Owned(e)}]
    /\ TrxConnMap \in [Trxs -> Conns \cup {None}] /\ TrxConnNum \in 0 .. Cardinality(Trxs)
    /\ ipa \in Seq(Messages)
    /\ call \in [Hdlrs -> Calls \cup {Idle}]
    /\ inbox \in [Hdlrs -> Seq(Messages)]
    /\ cchan \in Seq(Messages \cup [t : {"TRX_UP", "TRX_DOWN"}, trx : Trxs])
    /\ ended \subseteq Hdlrs
    /\ outcome \in {"running", "failed"}
    /\ link \in [Trxs -> Links]
    /\ bts \subseteq Lchans
    /\ main \in {"init", "running", "failed"}
    /\ trxUp \subseteq Trxs /\ rfInd \subseteq Trxs
    /\ stage \in [Hdlrs -> Stages]

Lost == \E t \in Trxs : link[t] = "lost"

\* Only the loss of a link makes the dispatcher end the testcase: no message of
\* a channel comes when its handler is gone, and no lookup fails.
NeverFails == outcome = "failed" => Lost

Pending(m) == \E i \in DOMAIN ipa : ipa[i] = m

\* TrxConnMap agrees with the links as far as their events are handled, and
\* TrxConnNum counts it.
MapFollowsLinks ==
    /\ TrxConnNum = Cardinality({t \in Trxs : TrxConnMap[t] # None})
    /\ \A t \in Trxs :
          /\ link[t] \in {"identified", "ready"} =>
                TrxConnMap[t] = IF Pending([t |-> "ID_RESP", trx |-> t, conn |-> ConnOf[t]])
                                THEN None ELSE ConnOf[t]
          /\ link[t] = "lost" /\ ~Pending([t |-> "DOWN", conn |-> ConnOf[t]]) =>
                TrxConnMap[t] = None

\* A handler gets messages of its channel only between its activation and its
\* release, also when another one used the channel before.
RoutedToUser ==
    \A h \in Hdlrs : \A i \in DOMAIN inbox[h] :
        inbox[h][i].t = "DR" =>
            inbox[h][i].lchan = ChanOf[h] /\ stage[h] \in {"activating", "active", "releasing"}

\* "advertise to RSL Emulation that we expect to receive confirmation from
\* RACH" (bts/BTS_Tests.ttcn): the confirmation goes to the handler.
RachConfirmed ==
    \A i \in DOMAIN cchan : cchan[i].t = "CHAN_RQD" => cchan[i].ra \notin HandlerRas

\* The main component goes on when all transceivers are ready.
ComesUp == (\A t \in Trxs : link[t] = "ready") ~> main = "running" \/ Lost

=============================================================================
