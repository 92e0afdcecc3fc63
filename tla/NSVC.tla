------------------------------- MODULE NSVC ---------------------------------
(***************************************************************************)
(* The per-NS-VC component NSVC_CT of library/NS_Emulation.ttcnpp, without *)
(* IP Sub-Network Service (handle_sns = false): its state, its timers and  *)
(* one action for each alternative of f_ScanEvents.  Several of them run   *)
(* side by side.                                                           *)
(*                                                                         *)
(* An NS-VC receives link events and NS PDUs from its provider (NSCP),     *)
(* requests from its NS_CT (NS_SP, the queue spQ) and reports to it (the   *)
(* queue upQ).  The far end of an NS-VC is another NS-VC of the model if   *)
(* PeerOf names one: the PDUs between the two are queued in air.  The far  *)
(* end of any other NS-VC is free to send what it likes.                   *)
(*                                                                         *)
(* A timer in running may expire at any time.  Messages to the component   *)
(* may still be under way, so its alternatives have no priority over each  *)
(* other unless they read the same port.                                   *)
(*                                                                         *)
(* A definition X_Y placed before X is X with the mistake Y: it is used by *)
(* no specification and shows what the properties would catch.             *)
(***************************************************************************)
EXTENDS Naturals, Sequences, FiniteSets

CONSTANTS Vcs,        \* the NS-VCs
          SgsnVcs,    \* those configured with role_sgsn
          SigVcs,     \* those that may carry signalling: not IP, or weight > 0
          DataVcs,    \* those that may carry user data: likewise
          PeerOf,     \* far ends that are NS-VCs of the model: [subset of Vcs -> Vcs]
          FreePdus,   \* what the other far ends may send
          MaxUp,      \* bound: indications under way to the NS_CT
          MaxAir      \* bound: PDUs under way when a timer or the link adds one

States == {"DISABLED", "DEAD_BLOCKED", "WAIT_RESET", "ALIVE_BLOCKED", "ALIVE_UNBLOCKED"}
Timers == {"alive", "test", "block", "reset"}

\* NS PDUs.  RESET_OTHER and BLOCK_OTHER carry another NSVCI; UD_SIG and
\* UD_USER are NS-UNITDATA for BVCI 0 and other BVCIs; OTHER is any PDU that no
\* alternative but the last one of as_allstate takes.
Pdus == {"RESET", "RESET_ACK", "RESET_OTHER", "BLOCK", "BLOCK_ACK", "BLOCK_OTHER",
         "UNBLOCK", "UNBLOCK_ACK", "ALIVE", "ALIVE_ACK", "UD_SIG", "UD_USER",
         "STATUS", "OTHER"}
Requests == {"DISABLE", "ENABLE", "UD_SIG", "UD_USER"}

Linked == DOMAIN PeerOf
Free == Vcs \ Linked

ASSUME RolesAssumption == SgsnVcs \subseteq Vcs /\ SigVcs \subseteq Vcs /\ DataVcs \subseteq Vcs
ASSUME PeersAssumption ==
    /\ Linked \subseteq Vcs
    /\ \A v \in Linked : PeerOf[v] \in Linked /\ PeerOf[v] # v /\ PeerOf[PeerOf[v]] = v
ASSUME PdusAssumption == FreePdus \subseteq Pdus
ASSUME BoundsAssumption == MaxUp \in Nat \ {0, 1} /\ MaxAir \in Nat

VARIABLES
    vc_state,   \* vc_state[v]
    running,    \* running[v]: the timers of v that are started
    link,       \* link[v]: the provider of v reported its link up
    spQ,        \* spQ[v]: requests in the NS_SP port of v
    upQ,        \* indications in the NSVC port of the NS_CT
    air,        \* air[v]: PDUs under way to v from its peer in the model
    alive       \* FALSE once f_shutdown stopped the testcase

nsvcVars == <<vc_state, running, link, spQ, upQ, air, alive>>

\* NsStatusIndication and NsUnitdataIndication, as sent by an NS-VC.
StatusInd(v, new) == [vc |-> v, ind |-> "STATUS", new |-> new]
UnitdataInd(v) == [vc |-> v, ind |-> "UD"]
StatusInds == [vc : Vcs, ind : {"STATUS"}, new : States]
UnitdataInds == [vc : Vcs, ind : {"UD"}]

-----------------------------------------------------------------------------
(* Building blocks of the actions. *)

Enabled(v) == vc_state[v] # "DISABLED"
Blocked(v) == vc_state[v] = "ALIVE_BLOCKED"
Unblocked(v) == vc_state[v] = "ALIVE_UNBLOCKED"

\* Only the NS_CT of NS-VCs with a free far end is modelled.
Up(v, inds) ==
    /\ v \in Free => Len(upQ) + Len(inds) <= MaxUp
    /\ upQ' = IF v \in Free THEN upQ \o inds ELSE upQ

\* f_change_state; the state after a step that calls it, or does not.
Becomes(v, new) ==
    /\ vc_state' = [vc_state EXCEPT ![v] = new]
    /\ Up(v, <<StatusInd(v, new)>>)
Stays == UNCHANGED <<vc_state, upQ>>

SetTimers(v, started, stopped) ==
    running' = [running EXCEPT ![v] = (@ \ stopped) \cup started]

\* NSCP.send, outside the handling of a received PDU.
Tx(v, pdus) ==
    /\ v \in Linked => Len(air[v]) + Len(air[PeerOf[v]]) < MaxAir
    /\ air' = IF v \in Linked THEN [air EXCEPT ![PeerOf[v]] = @ \o pdus] ELSE air

\* NSCP.receive of one of the PDUs in ps, answered with pdus.
RxTx(v, ps, pdus) ==
    /\ alive
    /\ link[v]
    /\ \/ /\ v \in Linked
          /\ air[v] # <<>>
          /\ Head(air[v]) \in ps
          /\ air' = [air EXCEPT ![v] = Tail(@), ![PeerOf[v]] = @ \o pdus]
       \/ v \in Free /\ ps \cap FreePdus # {} /\ UNCHANGED air
    /\ UNCHANGED <<link, spQ>>

\* The reception of a PDU that only stops timers and is answered.
Answer(v, ps, pdus, stopped) ==
    /\ RxTx(v, ps, pdus)
    /\ Stays
    /\ SetTimers(v, {}, stopped)
    /\ UNCHANGED alive

\* NS_SP.receive of a request in rs, at the head of the port.
TakeRequest(v, rs) ==
    /\ alive
    /\ spQ[v] # <<>>
    /\ Head(spQ[v]) \in rs
    /\ spQ' = [spQ EXCEPT ![v] = Tail(@)]
    /\ UNCHANGED <<link, alive>>

\* Timer t expires and is the first thing to be handled.
Expire(v, t, started) ==
    /\ alive
    /\ t \in running[v]
    /\ SetTimers(v, started, {t})
    /\ UNCHANGED <<link, spQ, alive>>

\* f_init: every NS-VC enters DEAD_BLOCKED.
NSVCInit ==
    /\ vc_state = [v \in Vcs |-> "DEAD_BLOCKED"]
    /\ running = [v \in Vcs |-> {}]
    /\ link = [v \in Vcs |-> FALSE]
    /\ spQ = [v \in Vcs |-> <<>>]
    /\ upQ = <<>>   \* the first report, of no change, is left out
    /\ air = [v \in Linked |-> <<>>]
    /\ alive = TRUE

-----------------------------------------------------------------------------
(* Link events and the reset procedure. *)

LinkEvent(v, status) ==
    /\ alive
    /\ link' = [link EXCEPT ![v] = status]
    /\ UNCHANGED <<spQ, alive>>

AfterReset == {"reset"}

\* f_sendReset, on the BSS side of a link that comes up: WAIT_RESET is not
\* reported to the NS_CT.  The SGSN side waits; a disabled NS-VC drops the event.
LinkUp(v) ==
    /\ ~link[v]
    /\ LinkEvent(v, TRUE)
    /\ IF Enabled(v) /\ v \notin SgsnVcs
       THEN /\ vc_state' = [vc_state EXCEPT ![v] = "WAIT_RESET"]
            /\ SetTimers(v, AfterReset, {})
            /\ Tx(v, <<"RESET">>)
       ELSE UNCHANGED <<vc_state, running, air>>
    /\ UNCHANGED upQ

StoppedByDown_None == {}
StoppedByDown == {"test", "alive"}

\* The provider reports the loss of its link, and may do so repeatedly.
LinkDown(v) ==
    /\ LinkEvent(v, FALSE)
    /\ IF Enabled(v)
       THEN Becomes(v, "DEAD_BLOCKED") /\ SetTimers(v, {}, StoppedByDown)
       ELSE Stays /\ UNCHANGED running
    /\ UNCHANGED air

ResetTimeout(v) ==
    /\ vc_state[v] = "WAIT_RESET"
    /\ Expire(v, "reset", AfterReset)
    /\ Tx(v, <<"RESET">>)
    /\ Stays

RxResetAck(v) ==
    /\ vc_state[v] = "WAIT_RESET"
    /\ RxTx(v, {"RESET_ACK"}, <<"ALIVE", "UNBLOCK">>)
    /\ Becomes(v, "ALIVE_BLOCKED")
    /\ SetTimers(v, {"alive", "block"}, {"reset"})
    /\ UNCHANGED alive

RxReset(v) ==
    /\ Enabled(v)
    /\ RxTx(v, {"RESET"}, <<"RESET_ACK", "ALIVE">>)
    /\ Becomes(v, "ALIVE_BLOCKED")
    /\ SetTimers(v, {"alive", "test"}, {})
    /\ UNCHANGED alive

-----------------------------------------------------------------------------
(* The alive procedure. *)

AliveTimeout(v) ==
    /\ Enabled(v)
    /\ Expire(v, "alive", {"test"})
    /\ Becomes(v, "DEAD_BLOCKED")
    /\ UNCHANGED air

TestTimeout(v) ==
    /\ Enabled(v)
    /\ Expire(v, "test", {"alive"})
    /\ Tx(v, <<"ALIVE">>)
    /\ Stays

AfterAliveAck_Nothing == {}
AfterAliveAck == {"test"}

RxAliveAck(v) ==
    /\ Enabled(v)
    /\ "alive" \in running[v]
    /\ RxTx(v, {"ALIVE_ACK"}, <<>>)
    /\ Stays
    /\ SetTimers(v, AfterAliveAck, {"alive"})
    /\ UNCHANGED alive

RxAlive(v) == Enabled(v) /\ Answer(v, {"ALIVE"}, <<"ALIVE_ACK">>, {})

-----------------------------------------------------------------------------
(* Blocking and unblocking. *)

\* A bogus block or unblock is acknowledged and changes nothing.
RxBlockAgain(v) == Blocked(v) /\ Answer(v, {"BLOCK"}, <<"BLOCK_ACK">>, {})
RxUnblockAgain(v) == Unblocked(v) /\ Answer(v, {"UNBLOCK"}, <<"UNBLOCK_ACK">>, {})
RxBlockAck(v) == Unblocked(v) /\ Answer(v, {"BLOCK_ACK"}, <<>>, {"block"})

Confirmation_AnyAck == {"UNBLOCK_ACK", "ALIVE_ACK"}
Confirmation == {"UNBLOCK_ACK"}

RxUnblock(v) ==
    /\ Blocked(v)
    /\ \/ RxTx(v, {"UNBLOCK"}, <<"UNBLOCK_ACK">>)
       \/ RxTx(v, Confirmation, <<>>)
    /\ Becomes(v, "ALIVE_UNBLOCKED")
    /\ SetTimers(v, {}, {"block"})
    /\ UNCHANGED alive

RxBlock(v) ==
    /\ Unblocked(v)
    /\ RxTx(v, {"BLOCK"}, <<"BLOCK_ACK">>)
    /\ Becomes(v, "ALIVE_BLOCKED")
    /\ SetTimers(v, {}, {"block"})
    /\ UNCHANGED alive

AfterBlockTimeout_Idle == {}
AfterBlockTimeout == {"block"}

\* "repeat unblock transmission"
BlockTimeout(v) ==
    /\ Blocked(v)
    /\ Expire(v, "block", AfterBlockTimeout)
    /\ Tx(v, <<"UNBLOCK">>)
    /\ Stays

-----------------------------------------------------------------------------
(* NS-UNITDATA: as_alive_unblocked_data, as_alive_unblocked_sig. *)

Unitdata == {"UD_SIG", "UD_USER"}
Carried(v) == (IF v \in SigVcs THEN {"UD_SIG"} ELSE {})
              \cup (IF v \in DataVcs THEN {"UD_USER"} ELSE {})

RxUnitdata(v) ==
    /\ Unblocked(v)
    /\ RxTx(v, Carried(v), <<>>)
    /\ Up(v, <<UnitdataInd(v)>>)
    /\ UNCHANGED <<vc_state, running, alive>>

TxUnitdata(v) ==
    /\ Unblocked(v)
    /\ \E r \in Carried(v) : TakeRequest(v, {r}) /\ Tx(v, <<r>>)
    /\ Stays
    /\ UNCHANGED running

\* "catch any violations of above rule": f_shutdown
NotCarried(v) ==
    /\ Unblocked(v)
    /\ \/ RxTx(v, Unitdata \ Carried(v), <<>>)
       \/ /\ alive
          /\ spQ[v] # <<>> /\ Head(spQ[v]) \in Unitdata \ Carried(v)
          /\ UNCHANGED <<link, spQ, air>>
    /\ Stays
    /\ alive' = FALSE
    /\ UNCHANGED running

-----------------------------------------------------------------------------
(* The other alternatives of as_allstate. *)

\* PDUs that are taken and have no effect.
Ignored(v) ==
    {"BLOCK_OTHER", "RESET_OTHER", "STATUS"} \cup
    (CASE Blocked(v) -> {"BLOCK_ACK"}
       [] Unblocked(v) -> {"UNBLOCK_ACK"}
       [] OTHER -> {"BLOCK"})

\* PDUs that only the default alternative takes.
Unexpected(v) ==
    {"OTHER"}
    \cup (IF "alive" \in running[v] THEN {} ELSE {"ALIVE_ACK"})
    \cup (IF vc_state[v] = "WAIT_RESET" THEN {} ELSE {"RESET_ACK"})
    \cup (IF Unblocked(v) THEN {} ELSE Unitdata)
    \cup (IF Blocked(v) \/ Unblocked(v) THEN {} ELSE {"BLOCK_ACK", "UNBLOCK", "UNBLOCK_ACK"})

RxOther(v) ==
    /\ Enabled(v)
    /\ \/ Answer(v, Ignored(v), <<>>, {})
       \/ Answer(v, Unexpected(v), <<"STATUS">>, {})

ReportsOnDisable_DeadOnly(v) == <<StatusInd(v, "DEAD_BLOCKED")>>
ReportsOnDisable(v) == <<StatusInd(v, "DEAD_BLOCKED"), StatusInd(v, "DISABLED")>>

\* "To make NS-VCG remove us from list of active NS-VC" the change to
\* DISABLED is preceded by one to DEAD_BLOCKED.
Disable(v) ==
    /\ Enabled(v)
    /\ TakeRequest(v, {"DISABLE"})
    /\ vc_state' = [vc_state EXCEPT ![v] = "DISABLED"]
    /\ Up(v, ReportsOnDisable(v))
    /\ SetTimers(v, {}, {"test", "alive"})
    /\ UNCHANGED air

-----------------------------------------------------------------------------
(* as_disabled *)

Enable(v) ==
    /\ ~Enabled(v)
    /\ TakeRequest(v, {"ENABLE"})
    /\ Becomes(v, "DEAD_BLOCKED")
    /\ SetTimers(v, {"test"}, {})
    /\ UNCHANGED air

Drop(v) ==
    /\ ~Enabled(v)
    /\ \/ RxTx(v, Pdus, <<>>) /\ UNCHANGED alive
       \/ TakeRequest(v, Requests \ {"ENABLE"}) /\ UNCHANGED air
    /\ Stays
    /\ UNCHANGED running

-----------------------------------------------------------------------------

NSVCStep(v) ==
    \/ LinkUp(v) \/ LinkDown(v) \/ ResetTimeout(v) \/ RxResetAck(v) \/ RxReset(v)
    \/ AliveTimeout(v) \/ TestTimeout(v) \/ RxAliveAck(v) \/ RxAlive(v)
    \/ RxBlockAgain(v) \/ RxUnblockAgain(v) \/ RxBlockAck(v)
    \/ RxUnblock(v) \/ RxBlock(v) \/ BlockTimeout(v)
    \/ RxUnitdata(v) \/ TxUnitdata(v) \/ NotCarried(v)
    \/ RxOther(v) \/ Disable(v) \/ Enable(v) \/ Drop(v)

-----------------------------------------------------------------------------

NSVCTypeOK ==
    /\ vc_state \in [Vcs -> States]
    /\ running \in [Vcs -> SUBSET Timers]
    /\ link \in [Vcs -> BOOLEAN]
    /\ spQ \in [Vcs -> Seq(Requests)]
    /\ upQ \in Seq(StatusInds \cup UnitdataInds)
    /\ air \in [Linked -> Seq(Pdus)]
    /\ alive \in BOOLEAN

\* An NS-VC that takes part in traffic is supervised: whatever order resets,
\* blocks, link events and late acknowledgements come in, the next NS-ALIVE or
\* the verdict on the last one is due.  (as_allstate: Tns_alive, Tns_test)
AliveSupervised ==
    \A v \in Vcs : vc_state[v] \in {"ALIVE_BLOCKED", "ALIVE_UNBLOCKED"} =>
                      running[v] \cap {"alive", "test"} # {}

\* "the entire reset procedure shall be repeated": in WAIT_RESET the timer that
\* repeats NS-RESET is always running.
ResetSupervised == \A v \in Vcs : vc_state[v] = "WAIT_RESET" => "reset" \in running[v]

\* Both: whatever is left unanswered or lost, a running timer takes the NS-VC on.
Supervised == AliveSupervised /\ ResetSupervised
=============================================================================
