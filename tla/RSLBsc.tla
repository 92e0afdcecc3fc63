------------------------------- MODULE RSLBsc -------------------------------
(***************************************************************************)
(* The dispatcher of RSL in the BTS role, with the handlers of the suite   *)
(* bsc and a BSC under test.  A handler asks for a channel (f_chan_est),   *)
(* may have it changed by an assignment (as_assignment), or takes part in  *)
(* a handover into this BTS (as_handover), and releases its channel when   *)
(* the BSC tells it to (f_perform_clear).  The other links of the BSC (A   *)
(* interface, VTY, another BTS) carry one request each, so they are shared *)
(* variables.                                                              *)
(***************************************************************************)
EXTENDS RSL

CONSTANTS RaOf,        \* RaOf[h]: random reference of handler h
          Testcases    \* what the handlers do, and the BSC may do

ASSUME RSLBscAssumption ==
    /\ BtsRole
    /\ RaOf \in [Hdlrs -> Ras]
    /\ \A g, h \in Hdlrs : RaOf[g] = RaOf[h] => g = h
    /\ Testcases \subseteq
         [assigners : SUBSET Hdlrs,   \* handlers that go through an assignment
          targets : SUBSET Hdlrs,     \* handlers that enter this BTS by handover
          lchans : SUBSET Lchans,     \* the channels of the BTS
          earlyReuse : BOOLEAN,       \* the BSC may give a released channel to the
                                      \* next handler before it is unregistered
          mayLose : BOOLEAN,          \* the link may be lost
          maxData : Nat]              \* bound: unread "data" messages on a channel
    /\ \A tc \in Testcases : tc.assigners \cap tc.targets = {}

VARIABLES
    stage,      \* where handler h is in its procedures
    g_chan_nr,  \* its channel
    other,      \* the channel it is leaving, or the one it is moving to
    bsc,        \* bsc[c]: state of channel c in the BSC
    user,       \* user[c]: the handler the BSC gave channel c to
    hoCommand,  \* hoCommand[h]: channel named in the HANDOVER COMMAND to h
    testcase    \* the testcase, which never changes

hdlrVars == <<stage, g_chan_nr, other>>
bscVars == <<bsc, user, hoCommand>>
vars == <<rslVars, hdlrVars, bscVars, testcase>>

Stages == {"idle", "requested", "active", "queueing", "assigning", "registering",
           "dispatching", "assigned", "suspending", "handover", "entering",
           "resuming", "clearing", "done"}

Init ==
    /\ RSLInit
    /\ stage = [h \in Hdlrs |-> "idle"]
    /\ g_chan_nr = [h \in Hdlrs |-> None]
    /\ other = [h \in Hdlrs |-> None]
    /\ bsc = [c \in Lchans |-> "free"]
    /\ user = [c \in Lchans |-> None]
    /\ hoCommand = [h \in Hdlrs |-> None]
    /\ testcase \in Testcases

Dr(c, what) == [t |-> "DR", lchan |-> c, what |-> what, new |-> None]

-----------------------------------------------------------------------------
(* The BSC: what it does with a message from the dispatcher. *)

Receive(kind, m) ==
    /\ outcome = "running"
    /\ iut # <<>>
    /\ m = Head(iut)
    /\ m.t = kind
    /\ iut' = Tail(iut)
    /\ UNCHANGED <<tables, trxMap, queueing, client, call, inbox, cchan, ended, outcome, hdlrVars>>

Unregistering(c) == \E h \in Hdlrs : call[h] = [op |-> "unregister", lchan |-> c]
Available == {c \in testcase.lchans : bsc[c] = "free" /\ (testcase.earlyReuse \/ ~Unregistering(c))}

\* Channel c is activated for h; purpose says what the activation is for.
Activate(c, h, purpose) ==
    /\ bsc' = [bsc EXCEPT ![c] = purpose]
    /\ user' = [user EXCEPT ![c] = h]
    /\ ipa' = Append(ipa, [t |-> "CHAN_ACTIV", lchan |-> c, for |-> h])

Requester(r) == CHOOSE h \in Hdlrs : RaOf[h] = r

BscAssigns(m) ==
    /\ Receive("RQD", m)
    /\ \E c \in Available : Activate(c, Requester(m.ra), "imm")
    /\ UNCHANGED hoCommand

\* For want of a channel, or for a reason of its own
BscRejects(m) ==
    /\ Receive("RQD", m)
    /\ ipa' = Append(ipa, [t |-> "IMM_REJ", ra |-> m.ra])
    /\ UNCHANGED bscVars

\* CHAN ACTIV ACK.  On a traffic channel CRCX follows; the command that names
\* the channel comes before it on the old channel or through another BTS.
BscActivated(m) ==
    LET c == m.lchan
        h == user[c]
        command == [Dr(g_chan_nr[h], "assign") EXCEPT !.new = c]
    IN
    /\ Receive("ACT_ACK", m)
    /\ bsc' = [bsc EXCEPT ![c] = "used"]
    /\ \/ /\ bsc[c] = "imm"
          /\ ipa' = Append(ipa, [t |-> "IMM_ASS", ra |-> RaOf[h], lchan |-> c])
          /\ UNCHANGED hoCommand
       \/ /\ bsc[c] = "ass"
          /\ ipa' = ipa \o <<command, Dr(c, "crcx")>>
          /\ UNCHANGED hoCommand
       \/ /\ bsc[c] = "ho"
          /\ ipa' = Append(ipa, Dr(c, "crcx"))
          /\ hoCommand' = [hoCommand EXCEPT ![h] = c]
    /\ UNCHANGED user

\* ASSIGNMENT COMPLETE on the new channel: the old one is released.
BscAssigned(m) ==
    /\ Receive("ASS_CMPL", m)
    /\ \E c \in Lchans \ {m.lchan} :
          /\ bsc[c] = "used" /\ user[c] = user[m.lchan]
          /\ bsc' = [bsc EXCEPT ![c] = "rel"]
          /\ ipa' = Append(ipa, Dr(c, "rel"))
    /\ UNCHANGED <<user, hoCommand>>

\* RF CHAN REL ACK
BscReleased(m) ==
    /\ Receive("REL_ACK", m)
    /\ bsc' = [bsc EXCEPT ![m.lchan] = "free"]
    /\ UNCHANGED <<ipa, user, hoCommand>>

\* ESTABLISH INDICATION
BscEstablished(m) == Receive("EST", m) /\ UNCHANGED <<ipa, bscVars>>

BscReacts == \E m \in {iut[i] : i \in DOMAIN iut \cap {1}} :
    \/ BscAssigns(m) \/ BscRejects(m) \/ BscActivated(m)
    \/ BscAssigned(m) \/ BscReleased(m) \/ BscEstablished(m)

Unread(h) == SelectSeq(ipa \o WaitingQueue \o inbox[h],
                       LAMBDA m : m.t = "DR" /\ m.what = "data" /\ m.lchan = g_chan_nr[h])

\* More on a channel in use
BscSends(c) ==
    /\ outcome = "running"
    /\ bsc[c] = "used"
    /\ \E h \in Hdlrs :
          /\ user[c] = h /\ g_chan_nr[h] = c /\ stage[h] # "clearing"
          /\ Len(Unread(h)) < testcase.maxData
    /\ ipa' = Append(ipa, Dr(c, "data"))
    /\ UNCHANGED <<tables, trxMap, queueing, client, call, inbox, cchan, iut, ended, outcome,
                   hdlrVars, bscVars>>

\* The BSC closes the connection.
LinkCloses(k) ==
    /\ testcase.mayLose
    /\ outcome = "running"
    /\ \A i \in DOMAIN ipa : ipa[i].t # "DOWN"
    /\ ipa' = Append(ipa, [t |-> "DOWN", conn |-> k])
    /\ UNCHANGED <<tables, trxMap, queueing, client, call, inbox, cchan, iut, ended, outcome,
                   hdlrVars, bscVars>>

-----------------------------------------------------------------------------
(* A handler. *)

\* h is at a place where it does not wait for the reply to a call.
Step(h, from, to) ==
    /\ outcome = "running"
    /\ h \notin ended
    /\ call[h] = Idle
    /\ stage[h] = from
    /\ stage' = [stage EXCEPT ![h] = to]
    /\ UNCHANGED <<tables, trxMap, queueing, cchan, iut, ended, outcome>>

Quiet == UNCHANGED <<ipa, bscVars>>
Sends(h, m) == client' = [client EXCEPT ![h] = Append(@, m)]
Asks(h, op, c) == call' = [call EXCEPT ![h] = [op |-> op, lchan |-> c]]
Reads(h, m) ==
    /\ inbox[h] # <<>>
    /\ m = Head(inbox[h])
    /\ inbox' = [inbox EXCEPT ![h] = Tail(@)]

\* f_chan_est
RequestChannel(h) ==
    /\ h \notin testcase.targets
    /\ Step(h, "idle", "requested")
    /\ Sends(h, [t |-> "RQD", ra |-> RaOf[h]])
    /\ UNCHANGED <<g_chan_nr, other, call, inbox>>
    /\ Quiet

ChannelAssigned(h) == \E m \in {inbox[h][i] : i \in DOMAIN inbox[h] \cap {1}} :
    /\ Step(h, "requested", "active")
    /\ Reads(h, m)
    /\ m.t = "IMM_ASS"
    /\ g_chan_nr' = [g_chan_nr EXCEPT ![h] = m.lchan]
    /\ Sends(h, [t |-> "EST", lchan |-> m.lchan])
    /\ Asks(h, "last", m.lchan)
    /\ UNCHANGED other
    /\ Quiet

ChannelRejected(h) == \E m \in {inbox[h][i] : i \in DOMAIN inbox[h] \cap {1}} :
    /\ Step(h, "requested", "done")
    /\ Reads(h, m)
    /\ m.t = "IMM_REJ"
    /\ UNCHANGED <<g_chan_nr, other, client, call>>
    /\ Quiet

\* f_rslem_dchan_queue_enable before the ASSIGNMENT REQUEST
EnableQueue(h) ==
    /\ h \in testcase.assigners /\ other[h] = None
    /\ Step(h, "active", "queueing")
    /\ Asks(h, "enable", None)
    /\ UNCHANGED <<g_chan_nr, other, client, inbox>>
    /\ Quiet

\* The BSC gets the ASSIGNMENT REQUEST and activates a channel.
RequestAssignment(h) ==
    /\ Step(h, "queueing", "assigning")
    /\ \E c \in Available : Activate(c, h, "ass")
    /\ UNCHANGED <<g_chan_nr, other, client, call, inbox, hoCommand>>

AssignmentCommand(h) == \E m \in {inbox[h][i] : i \in DOMAIN inbox[h] \cap {1}} :
    /\ Step(h, "assigning", "registering")
    /\ Reads(h, m)
    /\ m.t = "DR" /\ m.what = "assign"
    /\ other' = [other EXCEPT ![h] = m.new]
    /\ Asks(h, "register", m.new)
    /\ UNCHANGED <<g_chan_nr, client>>
    /\ Quiet

\* f_rslem_dchan_queue_dispatch
DispatchQueue(h) ==
    /\ Step(h, "registering", "dispatching")
    /\ Asks(h, "dispatch", None)
    /\ UNCHANGED <<g_chan_nr, other, client, inbox>>
    /\ Quiet

CompleteAssignment(h) ==
    /\ Step(h, "dispatching", "assigned")
    /\ Sends(h, [t |-> "ASS_CMPL", lchan |-> other[h]])
    /\ g_chan_nr' = [g_chan_nr EXCEPT ![h] = other[h]]
    /\ other' = [other EXCEPT ![h] = g_chan_nr[h]]
    /\ Asks(h, "last", other[h])
    /\ UNCHANGED inbox
    /\ Quiet

\* f_rslem_suspend before the handover is started on the VTY of the BSC
SuspendDispatch(h) ==
    /\ h \in testcase.targets
    /\ Step(h, "idle", "suspending")
    /\ Asks(h, "suspend", None)
    /\ UNCHANGED <<g_chan_nr, other, client, inbox>>
    /\ Quiet

StartHandover(h) ==
    /\ Step(h, "suspending", "handover")
    /\ \E c \in Available : Activate(c, h, "ho")
    /\ UNCHANGED <<g_chan_nr, other, client, call, inbox, hoCommand>>

HandoverCommand(h) ==
    /\ hoCommand[h] # None
    /\ Step(h, "handover", "entering")
    /\ g_chan_nr' = [g_chan_nr EXCEPT ![h] = hoCommand[h]]
    /\ Asks(h, "register", hoCommand[h])
    /\ UNCHANGED <<other, client, inbox>>
    /\ Quiet

\* f_rslem_resume
ResumeDispatch(h) ==
    /\ Step(h, "entering", "resuming")
    /\ Asks(h, "resume", None)
    /\ UNCHANGED <<g_chan_nr, other, client, inbox>>
    /\ Quiet

CompleteHandover(h) ==
    /\ Step(h, "resuming", "active")
    /\ Sends(h, [t |-> "EST", lchan |-> g_chan_nr[h]])
    /\ UNCHANGED <<g_chan_nr, other, call, inbox>>
    /\ Quiet

\* f_perform_clear: the BSC releases the channel.
PerformClear(h) ==
    /\ Step(h, "active", "clearing")
    /\ ipa' = Append(ipa, Dr(g_chan_nr[h], "rel"))
    /\ bsc' = [bsc EXCEPT ![g_chan_nr[h]] = "rel"]
    /\ UNCHANGED <<g_chan_nr, other, client, call, inbox, user, hoCommand>>

\* RF CHAN REL: acknowledged before the channel is unregistered
ChannelReleased(h) == \E m \in {inbox[h][i] : i \in DOMAIN inbox[h] \cap {1}} :
    /\ \/ Step(h, "assigned", "active") /\ m.lchan = other[h]
       \/ Step(h, "clearing", "done") /\ m.lchan = g_chan_nr[h]
    /\ Reads(h, m)
    /\ m.t = "DR" /\ m.what = "rel"
    /\ Sends(h, [t |-> "REL_ACK", lchan |-> m.lchan])
    /\ Asks(h, "unregister", m.lchan)
    /\ UNCHANGED <<g_chan_nr, other>>
    /\ Quiet

\* Anything else on its channels, where it waits for a message
ReadData(h) == \E m \in {inbox[h][i] : i \in DOMAIN inbox[h] \cap {1}} :
    /\ stage[h] \in {"active", "assigning", "assigned", "clearing"}
    /\ Step(h, stage[h], stage[h])
    /\ Reads(h, m)
    /\ m.t = "DR" /\ m.what \in {"data", "crcx"}
    /\ UNCHANGED <<g_chan_nr, other, client, call>>
    /\ Quiet

Finish(h) ==
    /\ outcome = "running"
    /\ h \notin ended
    /\ stage[h] = "done" /\ call[h] = Idle
    /\ ended' = ended \cup {h}
    /\ UNCHANGED <<tables, trxMap, queueing, ipa, client, call, inbox, cchan, iut, outcome,
                   hdlrVars, bscVars>>

\* What a handler does without being asked to
Starts(h) ==
    \/ RequestChannel(h) \/ EnableQueue(h) \/ RequestAssignment(h)
    \/ SuspendDispatch(h) \/ StartHandover(h) \/ PerformClear(h) \/ Finish(h)

\* What it does when a reply or a message has come
Continues(h) ==
    \/ ChannelAssigned(h) \/ ChannelRejected(h) \/ AssignmentCommand(h)
    \/ DispatchQueue(h) \/ CompleteAssignment(h)
    \/ HandoverCommand(h) \/ ResumeDispatch(h) \/ CompleteHandover(h)
    \/ ChannelReleased(h) \/ ReadData(h)

-----------------------------------------------------------------------------

Next ==
    /\ \/ Main /\ UNCHANGED <<hdlrVars, bscVars>>
       \/ BscReacts
       \/ \E c \in Lchans : BscSends(c)
       \/ \E k \in Conns : LinkCloses(k)
       \/ \E h \in Hdlrs : Starts(h) \/ Continues(h)
    /\ UNCHANGED testcase

Spec == Init /\ [][Next]_vars

\* One assignment and one handover at most, a slot for every channel a handler may
\* have, a BSC that lets a channel be unregistered first, and no link lost
Calm ==
    /\ ~testcase.earlyReuse /\ ~testcase.mayLose
    /\ \A g, h \in testcase.assigners : g = h
    /\ \A g, h \in testcase.targets : g = h
    /\ Cardinality(Hdlrs) + Cardinality(testcase.assigners) <= Slots

\* In a calm testcase the dispatcher serves its ports, the BSC and the handlers react.
\* No handler has to start a procedure or to end.
CalmRoutes == Calm /\ Route /\ UNCHANGED <<hdlrVars, bscVars, testcase>>
CalmBscReacts == Calm /\ BscReacts /\ UNCHANGED testcase
CalmServed(h) == Calm /\ (FromClient(h) \/ Serve(h)) /\ UNCHANGED <<hdlrVars, bscVars, testcase>>
CalmContinues(h) == Calm /\ Continues(h) /\ UNCHANGED testcase

FairSpec ==
    /\ Spec
    /\ WF_vars(CalmRoutes)
    /\ WF_vars(CalmBscReacts)
    /\ \A h \in Hdlrs : WF_vars(CalmServed(h)) /\ WF_vars(CalmContinues(h))

-----------------------------------------------------------------------------

Messages ==
    [t : {"DR"}, lchan : Lchans, what : {"data", "crcx", "rel", "assign"}, new : Lchans \cup {None}]
    \cup [t : {"CHAN_ACTIV"}, lchan : Lchans, for : Hdlrs]
    \cup [t : {"IMM_ASS"}, ra : Ras, lchan : Lchans]
    \cup [t : {"IMM_REJ"}, ra : Ras]
    \cup [t : {"DOWN"}, conn : Conns]

\* Types of the variables; an entry of the table is in use just when it has a
\* handler.
TypeOK ==
    /\ ConnectionTable \in [1 .. Slots -> {e \in Entries : Owned(e)}]
    /\ LastActTable \in [Lchans -> Hdlrs \cup {None}]
    /\ TrxConnMap = [t \in Trxs |-> None] /\ TrxConnNum = 0
    /\ WaitingQueue \in Seq(Messages)
    /\ dchan_suspended \in BOOLEAN /\ wait_queue_enabled \in BOOLEAN
    /\ ipa \in Seq(Messages)
    /\ call \in [Hdlrs -> Calls \cup {Idle}]
    /\ inbox \in [Hdlrs -> Seq(Messages)]
    /\ ended \subseteq Hdlrs
    /\ outcome \in {"running", "failed"}
    /\ stage \in [Hdlrs -> Stages]
    /\ g_chan_nr \in [Hdlrs -> Lchans \cup {None}]
    /\ other \in [Hdlrs -> Lchans \cup {None}]
    /\ bsc \in [Lchans -> {"free", "imm", "ass", "ho", "used", "rel"}]
    /\ user \in [Lchans -> Hdlrs \cup {None}]
    /\ hoCommand \in [Hdlrs -> Lchans \cup {None}]
    /\ testcase \in Testcases

\* In a calm testcase no message finds its channel without a handler, no lookup fails
\* and no table is full: the dispatcher never ends the testcase.
CalmNeverFails == Calm => outcome # "failed"

\* There, what a handler gets was sent on a channel that the BSC gave to it.
CalmRoutedToUser == Calm =>
    \A h \in Hdlrs : \A i \in DOMAIN inbox[h] :
        inbox[h][i].t = "DR" => user[inbox[h][i].lchan] = h

\* "obtain channel activation from RSL_Emulation for new channel"
\* (bsc/MSC_ConnectionHandler.ttcn): it is the one made for the handler.
OwnActivation ==
    \A h \in Hdlrs : call[h].op = "last" => LastActTable[call[h].lchan] = h

\* Messages only wait in the queue while it is enabled, so none is forgotten.
NoneStranded == WaitingQueue # <<>> => wait_queue_enabled

\* A handler that has an entry of the table
UsesTable(h) == \E i \in 1 .. Slots : ConnectionTable[i].comp = h

\* An assignment that was requested completes unless a handover holds the dispatcher
\* up; a handover completes unless there is another handler on the BTS, whose message
\* at the head of IPA_PT holds back the CHANNEL ACTIVATION it waits for, and with it
\* f_rslem_resume.
ProceduresComplete ==
    \A h \in Hdlrs :
        /\ Calm /\ stage[h] = "assigning"
              ~> stage[h] = "active" \/ outcome = "failed" \/ dchan_suspended
        /\ Calm /\ stage[h] = "handover"
              ~> \/ stage[h] = "active" \/ outcome = "failed"
                 \/ \E g \in Hdlrs \ {h} : UsesTable(g)

=============================================================================
