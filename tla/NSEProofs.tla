----------------------------- MODULE NSEProofs ------------------------------
(***************************************************************************)
(* The NS entity for any number of NS-VCs in either role, any weights, any *)
(* behaviour of the far ends, the links and the user, and any bounds.      *)
(***************************************************************************)
EXTENDS NSE, SequenceTheorems, TLAPS

Inds == StatusInds \cup UnitdataInds

\* Without a link an NS-VC is dead or disabled.
NoLinkNoService ==
    \A v \in Vcs : ~link[v] => vc_state[v] \in {"DEAD_BLOCKED", "DISABLED"}

\* The part of the inductive invariant that is about the NS-VCs.
VcInv ==
    /\ NSVCTypeOK
    /\ AliveSupervised
    /\ ResetSupervised
    /\ NoLinkNoService

\* The part that is about the NS_CT and its user.
TableInv ==
    /\ g_nsvcs \in [Vcs -> States]
    /\ g_unblocked_nsvcs_sig \subseteq Vcs
    /\ g_unblocked_nsvcs_data \subseteq Vcs
    /\ userUp \in BOOLEAN
    /\ nsct \in {"running", "error"}
    /\ disruptive \in BOOLEAN /\ enabling \in BOOLEAN
    /\ ListsMatchTable
    /\ UserKnowsFirst

-----------------------------------------------------------------------------

\* What an NS-VC sends up is a sequence of indications.
LEMMA IndTypes ==
  ASSUME NEW v \in Vcs
  PROVE  /\ \A new \in States : StatusInd(v, new) \in Inds
         /\ UnitdataInd(v) \in Inds
  BY DEF StatusInd, UnitdataInd, Inds, StatusInds, UnitdataInds

LEMMA UpTypes ==
  ASSUME NEW v \in Vcs, upQ \in Seq(Inds), NEW inds \in Seq(Inds), Up(v, inds)
  PROVE  upQ' = upQ \o inds /\ upQ' \in Seq(Inds)
  BY FarEndsAssumption DEF Up, Free

LEMMA BecomesTypes ==
  ASSUME NSVCTypeOK, NEW v \in Vcs, NEW new \in States, Becomes(v, new)
  PROVE  /\ vc_state' = [vc_state EXCEPT ![v] = new]
         /\ upQ' = upQ \o <<StatusInd(v, new)>>
         /\ vc_state' \in [Vcs -> States]
         /\ upQ' \in Seq(Inds)
<1>1. upQ \in Seq(Inds) /\ <<StatusInd(v, new)>> \in Seq(Inds)
  BY IndTypes DEF NSVCTypeOK, Inds
<1>2. upQ' = upQ \o <<StatusInd(v, new)>> /\ upQ' \in Seq(Inds)
  BY <1>1, UpTypes DEF Becomes
<1> QED  BY <1>2 DEF Becomes, NSVCTypeOK

\* No PDU is under way between NS-VCs of the entity.
LEMMA AirStays ==
  ASSUME NEW v \in Vcs
  PROVE  /\ \A pdus : Tx(v, pdus) => air' = air
         /\ \A ps, pdus : RxTx(v, ps, pdus) => air' = air /\ link[v] /\ link' = link /\ spQ' = spQ
  BY FarEndsAssumption DEF Tx, RxTx

LEMMA TakeTypes ==
  ASSUME NSVCTypeOK, NEW v \in Vcs, NEW rs, TakeRequest(v, rs)
  PROVE  spQ' \in [Vcs -> Seq(Requests)] /\ link' = link /\ alive' = alive
<1>1. Tail(spQ[v]) \in Seq(Requests)
  BY HeadTailProperties DEF TakeRequest, NSVCTypeOK
<1> QED  BY <1>1 DEF TakeRequest, NSVCTypeOK

LEMMA TimersTypes ==
  ASSUME NSVCTypeOK, NEW v \in Vcs, NEW started \in SUBSET Timers, NEW stopped,
         SetTimers(v, started, stopped)
  PROVE  /\ running' = [running EXCEPT ![v] = (running[v] \ stopped) \cup started]
         /\ running' \in [Vcs -> SUBSET Timers]
  BY DEF NSVCTypeOK, SetTimers

-----------------------------------------------------------------------------
(* One lemma for each alternative of f_ScanEvents. *)

LEMMA LinkUpInv ==
  ASSUME VcInv, NEW v \in Vcs, LinkUp(v)
  PROVE  VcInv'
<1> USE DEF VcInv, LinkUp, LinkEvent, SetTimers, AfterReset, Enabled
<1>2. air' = air
  BY AirStays
<1>6. running' \in [Vcs -> SUBSET Timers]
  <2>1. CASE Enabled(v) /\ v \notin SgsnVcs
    BY <2>1, TimersTypes DEF Timers
  <2>2. CASE ~(Enabled(v) /\ v \notin SgsnVcs)
    BY <2>2 DEF NSVCTypeOK
  <2> QED  BY <2>1, <2>2
<1>7. vc_state' \in [Vcs -> States]
  BY DEF NSVCTypeOK, States
<1>1. NSVCTypeOK'
  BY <1>2, <1>6, <1>7 DEF NSVCTypeOK
<1>3. AliveSupervised'
  BY <1>1, <1>2 DEF NSVCTypeOK, AliveSupervised, Becomes, Stays
<1>4. ResetSupervised'
  <2>1. CASE Enabled(v) /\ v \notin SgsnVcs
    <3>1. "reset" \in running'[v] /\ \A u \in Vcs \ {v} : running'[u] = running[u]
      BY <2>1 DEF NSVCTypeOK
    <3>2. \A u \in Vcs \ {v} : vc_state'[u] = vc_state[u]
      BY <2>1 DEF NSVCTypeOK
    <3> QED  BY <3>1, <3>2 DEF ResetSupervised
  <2>2. CASE ~(Enabled(v) /\ v \notin SgsnVcs)
    BY <2>2 DEF ResetSupervised
  <2> QED  BY <2>1, <2>2
<1>5. NoLinkNoService'
  BY <1>1, <1>2 DEF NSVCTypeOK, NoLinkNoService, Becomes, Stays
<1> QED  BY <1>1, <1>3, <1>4, <1>5

LEMMA LinkDownInv ==
  ASSUME VcInv, NEW v \in Vcs, LinkDown(v)
  PROVE  VcInv'
<1> USE DEF VcInv, LinkDown, LinkEvent, SetTimers, StoppedByDown, Enabled
<1>2. vc_state' \in [Vcs -> States] /\ upQ' \in Seq(Inds) /\ running' \in [Vcs -> SUBSET Timers]
  <2>1. CASE Enabled(v)
    BY <2>1, BecomesTypes, TimersTypes DEF States, Timers
  <2>2. CASE ~Enabled(v)
    BY <2>2 DEF Stays, NSVCTypeOK, Inds
  <2> QED  BY <2>1, <2>2
<1>1. NSVCTypeOK'
  BY <1>2 DEF NSVCTypeOK, Inds
<1>3. AliveSupervised'
  BY <1>1, <1>2 DEF NSVCTypeOK, AliveSupervised, Becomes, Stays
<1>4. ResetSupervised'
  BY <1>1, <1>2 DEF NSVCTypeOK, ResetSupervised, Becomes, Stays
<1>5. NoLinkNoService'
  BY <1>1, <1>2 DEF NSVCTypeOK, NoLinkNoService, Becomes, Stays
<1> QED  BY <1>1, <1>3, <1>4, <1>5

LEMMA ResetTimeoutInv ==
  ASSUME VcInv, NEW v \in Vcs, ResetTimeout(v)
  PROVE  VcInv'
<1> USE DEF VcInv, ResetTimeout, Expire, SetTimers, AfterReset
<1>2. /\ air' = air
      /\ running' \in [Vcs -> SUBSET Timers]
  BY AirStays, TimersTypes DEF Timers, States
<1>1. NSVCTypeOK'
  BY <1>2 DEF NSVCTypeOK, Inds, Stays
<1>3. AliveSupervised'
  BY <1>1, <1>2 DEF NSVCTypeOK, AliveSupervised, Becomes, Stays
<1>4. ResetSupervised'
  BY <1>1, <1>2 DEF NSVCTypeOK, ResetSupervised, Becomes, Stays
<1>5. NoLinkNoService'
  BY <1>1, <1>2 DEF NSVCTypeOK, NoLinkNoService, Becomes, Stays
<1> QED  BY <1>1, <1>3, <1>4, <1>5

LEMMA RxResetAckInv ==
  ASSUME VcInv, NEW v \in Vcs, RxResetAck(v)
  PROVE  VcInv'
<1> USE DEF VcInv, RxResetAck, SetTimers
<1>2. /\ air' = air
      /\ running' \in [Vcs -> SUBSET Timers]
      /\ link[v] /\ link' = link /\ spQ' = spQ
      /\ vc_state' \in [Vcs -> States] /\ upQ' \in Seq(Inds)
  BY AirStays, TimersTypes, BecomesTypes DEF Timers, States
<1>1. NSVCTypeOK'
  BY <1>2 DEF NSVCTypeOK, Inds, Stays
<1>3. AliveSupervised'
  BY <1>1, <1>2 DEF NSVCTypeOK, AliveSupervised, Becomes, Stays
<1>4. ResetSupervised'
  BY <1>1, <1>2 DEF NSVCTypeOK, ResetSupervised, Becomes, Stays
<1>5. NoLinkNoService'
  BY <1>1, <1>2 DEF NSVCTypeOK, NoLinkNoService, Becomes, Stays
<1> QED  BY <1>1, <1>3, <1>4, <1>5

LEMMA RxResetInv ==
  ASSUME VcInv, NEW v \in Vcs, RxReset(v)
  PROVE  VcInv'
<1> USE DEF VcInv, RxReset, SetTimers
<1>2. /\ air' = air
      /\ running' \in [Vcs -> SUBSET Timers]
      /\ link[v] /\ link' = link /\ spQ' = spQ
      /\ vc_state' \in [Vcs -> States] /\ upQ' \in Seq(Inds)
  BY AirStays, TimersTypes, BecomesTypes DEF Timers, States
<1>1. NSVCTypeOK'
  BY <1>2 DEF NSVCTypeOK, Inds, Stays
<1>3. AliveSupervised'
  BY <1>1, <1>2 DEF NSVCTypeOK, AliveSupervised, Becomes, Stays
<1>4. ResetSupervised'
  BY <1>1, <1>2 DEF NSVCTypeOK, ResetSupervised, Becomes, Stays
<1>5. NoLinkNoService'
  BY <1>1, <1>2 DEF NSVCTypeOK, NoLinkNoService, Becomes, Stays
<1> QED  BY <1>1, <1>3, <1>4, <1>5

LEMMA AliveTimeoutInv ==
  ASSUME VcInv, NEW v \in Vcs, AliveTimeout(v)
  PROVE  VcInv'
<1> USE DEF VcInv, AliveTimeout, Expire, SetTimers, Enabled
<1>2. /\ air' = air
      /\ running' \in [Vcs -> SUBSET Timers]
      /\ vc_state' \in [Vcs -> States] /\ upQ' \in Seq(Inds)
  BY AirStays, TimersTypes, BecomesTypes DEF Timers, States
<1>1. NSVCTypeOK'
  BY <1>2 DEF NSVCTypeOK, Inds, Stays
<1>3. AliveSupervised'
  BY <1>1, <1>2 DEF NSVCTypeOK, AliveSupervised, Becomes, Stays
<1>4. ResetSupervised'
  BY <1>1, <1>2 DEF NSVCTypeOK, ResetSupervised, Becomes, Stays
<1>5. NoLinkNoService'
  BY <1>1, <1>2 DEF NSVCTypeOK, NoLinkNoService, Becomes, Stays
<1> QED  BY <1>1, <1>3, <1>4, <1>5

LEMMA TestTimeoutInv ==
  ASSUME VcInv, NEW v \in Vcs, TestTimeout(v)
  PROVE  VcInv'
<1> USE DEF VcInv, TestTimeout, Expire, SetTimers, Enabled
<1>2. /\ air' = air
      /\ running' \in [Vcs -> SUBSET Timers]
  BY AirStays, TimersTypes DEF Timers, States
<1>1. NSVCTypeOK'
  BY <1>2 DEF NSVCTypeOK, Inds, Stays
<1>3. AliveSupervised'
  BY <1>1, <1>2 DEF NSVCTypeOK, AliveSupervised, Becomes, Stays
<1>4. ResetSupervised'
  BY <1>1, <1>2 DEF NSVCTypeOK, ResetSupervised, Becomes, Stays
<1>5. NoLinkNoService'
  BY <1>1, <1>2 DEF NSVCTypeOK, NoLinkNoService, Becomes, Stays
<1> QED  BY <1>1, <1>3, <1>4, <1>5

LEMMA RxAliveAckInv ==
  ASSUME VcInv, NEW v \in Vcs, RxAliveAck(v)
  PROVE  VcInv'
<1> USE DEF VcInv, RxAliveAck, SetTimers, AfterAliveAck
<1>2. /\ air' = air
      /\ running' \in [Vcs -> SUBSET Timers]
      /\ link[v] /\ link' = link /\ spQ' = spQ
  BY AirStays, TimersTypes DEF Timers, States
<1>1. NSVCTypeOK'
  BY <1>2 DEF NSVCTypeOK, Inds, Stays
<1>3. AliveSupervised'
  BY <1>1, <1>2 DEF NSVCTypeOK, AliveSupervised, Becomes, Stays
<1>4. ResetSupervised'
  BY <1>1, <1>2 DEF NSVCTypeOK, ResetSupervised, Becomes, Stays
<1>5. NoLinkNoService'
  BY <1>1, <1>2 DEF NSVCTypeOK, NoLinkNoService, Becomes, Stays
<1> QED  BY <1>1, <1>3, <1>4, <1>5

LEMMA RxUnblockInv ==
  ASSUME VcInv, NEW v \in Vcs, RxUnblock(v)
  PROVE  VcInv'
<1> USE DEF VcInv, RxUnblock, SetTimers, Blocked, Confirmation
<1>2. /\ air' = air
      /\ running' \in [Vcs -> SUBSET Timers]
      /\ link[v] /\ link' = link /\ spQ' = spQ
      /\ vc_state' \in [Vcs -> States] /\ upQ' \in Seq(Inds)
  BY AirStays, TimersTypes, BecomesTypes DEF Timers, States
<1>1. NSVCTypeOK'
  BY <1>2 DEF NSVCTypeOK, Inds, Stays
<1>3. AliveSupervised'
  BY <1>1, <1>2 DEF NSVCTypeOK, AliveSupervised, Becomes, Stays
<1>4. ResetSupervised'
  BY <1>1, <1>2 DEF NSVCTypeOK, ResetSupervised, Becomes, Stays
<1>5. NoLinkNoService'
  BY <1>1, <1>2 DEF NSVCTypeOK, NoLinkNoService, Becomes, Stays
<1> QED  BY <1>1, <1>3, <1>4, <1>5

LEMMA RxBlockInv ==
  ASSUME VcInv, NEW v \in Vcs, RxBlock(v)
  PROVE  VcInv'
<1> USE DEF VcInv, RxBlock, SetTimers, Unblocked
<1>2. /\ air' = air
      /\ running' \in [Vcs -> SUBSET Timers]
      /\ link[v] /\ link' = link /\ spQ' = spQ
      /\ vc_state' \in [Vcs -> States] /\ upQ' \in Seq(Inds)
  BY AirStays, TimersTypes, BecomesTypes DEF Timers, States
<1>1. NSVCTypeOK'
  BY <1>2 DEF NSVCTypeOK, Inds, Stays
<1>3. AliveSupervised'
  BY <1>1, <1>2 DEF NSVCTypeOK, AliveSupervised, Becomes, Stays
<1>4. ResetSupervised'
  BY <1>1, <1>2 DEF NSVCTypeOK, ResetSupervised, Becomes, Stays
<1>5. NoLinkNoService'
  BY <1>1, <1>2 DEF NSVCTypeOK, NoLinkNoService, Becomes, Stays
<1> QED  BY <1>1, <1>3, <1>4, <1>5

LEMMA BlockTimeoutInv ==
  ASSUME VcInv, NEW v \in Vcs, BlockTimeout(v)
  PROVE  VcInv'
<1> USE DEF VcInv, BlockTimeout, Expire, SetTimers, Blocked, AfterBlockTimeout
<1>2. /\ air' = air
      /\ running' \in [Vcs -> SUBSET Timers]
  BY AirStays, TimersTypes DEF Timers, States
<1>1. NSVCTypeOK'
  BY <1>2 DEF NSVCTypeOK, Inds, Stays
<1>3. AliveSupervised'
  BY <1>1, <1>2 DEF NSVCTypeOK, AliveSupervised, Becomes, Stays
<1>4. ResetSupervised'
  BY <1>1, <1>2 DEF NSVCTypeOK, ResetSupervised, Becomes, Stays
<1>5. NoLinkNoService'
  BY <1>1, <1>2 DEF NSVCTypeOK, NoLinkNoService, Becomes, Stays
<1> QED  BY <1>1, <1>3, <1>4, <1>5

LEMMA EnableInv ==
  ASSUME VcInv, NEW v \in Vcs, Enable(v)
  PROVE  VcInv'
<1> USE DEF VcInv, Enable, SetTimers, Enabled
<1>2. /\ air' = air
      /\ running' \in [Vcs -> SUBSET Timers]
      /\ vc_state' \in [Vcs -> States] /\ upQ' \in Seq(Inds)
      /\ spQ' \in [Vcs -> Seq(Requests)] /\ link' = link /\ alive' = alive
  BY AirStays, TimersTypes, BecomesTypes, TakeTypes DEF Timers, States
<1>1. NSVCTypeOK'
  BY <1>2 DEF NSVCTypeOK, Inds, Stays
<1>3. AliveSupervised'
  BY <1>1, <1>2 DEF NSVCTypeOK, AliveSupervised, Becomes, Stays
<1>4. ResetSupervised'
  BY <1>1, <1>2 DEF NSVCTypeOK, ResetSupervised, Becomes, Stays
<1>5. NoLinkNoService'
  BY <1>1, <1>2 DEF NSVCTypeOK, NoLinkNoService, Becomes, Stays
<1> QED  BY <1>1, <1>3, <1>4, <1>5

\* A PDU that is taken, answered and does not change the state.
LEMMA AnswerInv ==
  ASSUME VcInv, NEW v \in Vcs, NEW ps, NEW pdus, NEW stopped \in {{}, {"block"}},
         Answer(v, ps, pdus, stopped)
  PROVE  VcInv'
<1> USE DEF VcInv, Answer, Stays
<1>2. /\ air' = air
      /\ running' = [running EXCEPT ![v] = (running[v] \ stopped) \cup {}]
      /\ running' \in [Vcs -> SUBSET Timers]
      /\ link' = link /\ spQ' = spQ
  BY AirStays, TimersTypes DEF Timers
<1>1. NSVCTypeOK'
  BY <1>2 DEF NSVCTypeOK
<1>3. AliveSupervised'
  BY <1>2 DEF NSVCTypeOK, AliveSupervised
<1>4. ResetSupervised'
  BY <1>2 DEF NSVCTypeOK, ResetSupervised
<1>5. NoLinkNoService'
  BY <1>2 DEF NoLinkNoService
<1> QED  BY <1>1, <1>3, <1>4, <1>5

\* A step that leaves the states, timers and links alone.
LEMMA StableInv ==
  ASSUME VcInv, UNCHANGED <<vc_state, running, link>>, NSVCTypeOK'
  PROVE  VcInv'
  BY DEF VcInv, AliveSupervised, ResetSupervised, NoLinkNoService

LEMMA RxUnitdataInv ==
  ASSUME VcInv, NEW v \in Vcs, RxUnitdata(v)
  PROVE  VcInv'
<1> USE DEF VcInv, RxUnitdata
<1>1. air' = air /\ link' = link /\ spQ' = spQ
  BY AirStays
<1>2. upQ \in Seq(Inds) /\ <<UnitdataInd(v)>> \in Seq(Inds)
  BY IndTypes DEF NSVCTypeOK, Inds
<1>3. upQ' \in Seq(Inds)
  BY <1>2, UpTypes
<1>4. NSVCTypeOK'
  BY <1>1, <1>3 DEF NSVCTypeOK, Inds
<1> QED  BY <1>1, <1>4, StableInv

LEMMA TxUnitdataInv ==
  ASSUME VcInv, NEW v \in Vcs, TxUnitdata(v)
  PROVE  VcInv'
<1>1. PICK r \in Carried(v) : TakeRequest(v, {r}) /\ Tx(v, <<r>>)
  BY DEF TxUnitdata
<1>2. /\ air' = air
      /\ spQ' \in [Vcs -> Seq(Requests)] /\ link' = link /\ alive' = alive
  BY <1>1, AirStays, TakeTypes DEF VcInv
<1>3. NSVCTypeOK'
  BY <1>2 DEF VcInv, NSVCTypeOK, TxUnitdata, Stays
<1> QED  BY <1>2, <1>3, StableInv DEF TxUnitdata, Stays

LEMMA NotCarriedInv ==
  ASSUME VcInv, NEW v \in Vcs, NotCarried(v)
  PROVE  VcInv'
<1>1. air' = air /\ link' = link /\ spQ' = spQ
  BY AirStays DEF NotCarried
<1>2. NSVCTypeOK'
  BY <1>1 DEF VcInv, NSVCTypeOK, NotCarried, Stays
<1> QED  BY <1>1, <1>2, StableInv DEF NotCarried, Stays

LEMMA DropInv ==
  ASSUME VcInv, NEW v \in Vcs, Drop(v)
  PROVE  VcInv'
<1>1. CASE RxTx(v, Pdus, <<>>) /\ UNCHANGED alive
  <2>1. air' = air /\ link' = link /\ spQ' = spQ
    BY <1>1, AirStays
  <2>2. NSVCTypeOK'
    BY <1>1, <2>1 DEF VcInv, NSVCTypeOK, Drop, Stays
  <2> QED  BY <2>1, <2>2, StableInv DEF Drop, Stays
<1>2. CASE TakeRequest(v, Requests \ {"ENABLE"}) /\ UNCHANGED air
  <2>1. spQ' \in [Vcs -> Seq(Requests)] /\ link' = link /\ alive' = alive
    BY <1>2, TakeTypes DEF VcInv
  <2>2. NSVCTypeOK'
    BY <1>2, <2>1 DEF VcInv, NSVCTypeOK, Drop, Stays
  <2> QED  BY <2>1, <2>2, StableInv DEF Drop, Stays
<1> QED  BY <1>1, <1>2 DEF Drop

LEMMA DisableInv ==
  ASSUME VcInv, NEW v \in Vcs, Disable(v)
  PROVE  VcInv'
<1> USE DEF VcInv, Disable
<1>1. upQ \in Seq(Inds) /\ ReportsOnDisable(v) \in Seq(Inds)
  BY IndTypes DEF NSVCTypeOK, Inds, ReportsOnDisable, States
<1>2. /\ upQ' \in Seq(Inds)
      /\ running' \in [Vcs -> SUBSET Timers]
      /\ spQ' \in [Vcs -> Seq(Requests)] /\ link' = link /\ alive' = alive
  BY <1>1, UpTypes, TimersTypes, TakeTypes DEF Timers
<1>3. NSVCTypeOK'
  BY <1>2 DEF NSVCTypeOK, Inds, States
<1>4. AliveSupervised'
  BY DEF NSVCTypeOK, AliveSupervised, SetTimers
<1>5. ResetSupervised'
  BY DEF NSVCTypeOK, ResetSupervised, SetTimers
<1>6. NoLinkNoService'
  BY <1>2 DEF NSVCTypeOK, NoLinkNoService
<1> QED  BY <1>3, <1>4, <1>5, <1>6

\* The NS-VCs keep their part of the invariant.
LEMMA NSVCStepInv ==
  ASSUME VcInv, NEW v \in Vcs, NSVCStep(v)
  PROVE  VcInv'
<1>1. CASE RxAlive(v) \/ RxBlockAgain(v) \/ RxUnblockAgain(v) \/ RxBlockAck(v) \/ RxOther(v)
  BY <1>1, AnswerInv DEF RxAlive, RxBlockAgain, RxUnblockAgain, RxBlockAck, RxOther
<1>2. CASE \/ LinkUp(v) \/ LinkDown(v) \/ ResetTimeout(v) \/ RxResetAck(v) \/ RxReset(v)
           \/ AliveTimeout(v) \/ TestTimeout(v) \/ RxAliveAck(v)
           \/ RxUnblock(v) \/ RxBlock(v) \/ BlockTimeout(v)
  BY <1>2, LinkUpInv, LinkDownInv, ResetTimeoutInv, RxResetAckInv, RxResetInv,
     AliveTimeoutInv, TestTimeoutInv, RxAliveAckInv, RxUnblockInv, RxBlockInv,
     BlockTimeoutInv
<1>3. CASE \/ RxUnitdata(v) \/ TxUnitdata(v) \/ NotCarried(v)
           \/ Disable(v) \/ Enable(v) \/ Drop(v)
  BY <1>3, RxUnitdataInv, TxUnitdataInv, NotCarriedInv, DisableInv, EnableInv, DropInv
<1> QED  BY <1>1, <1>2, <1>3 DEF NSVCStep

-----------------------------------------------------------------------------
(* The table and what is under way to it. *)

\* An indication that is sent changes the last word on its own NS-VC only.
LEMMA AppendReads ==
  ASSUME NEW q \in Seq(Inds), NEW e \in Inds, NEW v, NEW from, NEW to,
         ReadsAs(q, v, from, to)
  PROVE  IF IsReport(e, v) THEN ReadsAs(Append(q, e), v, from, e.new)
                           ELSE ReadsAs(Append(q, e), v, from, to)
<1> DEFINE r == Append(q, e)
<1>1. /\ DOMAIN r = DOMAIN q \cup {Len(q) + 1}
      /\ r[Len(q) + 1] = e
      /\ \A i \in DOMAIN q : r[i] = q[i] /\ i \in Nat /\ i < Len(q) + 1
      /\ Len(q) \in Nat
  OBVIOUS
<1> HIDE DEF r
<1>2. CASE IsReport(e, v)
  <2>1. ReadsAs(r, v, from, e.new)
    BY <1>1, <1>2 DEF ReadsAs
  <2> QED  BY <2>1, <1>2 DEF r
<1>3. CASE ~IsReport(e, v)
  <2>1. ReadsAs(r, v, from, to)
    <3>1. CASE from = to /\ \A i \in DOMAIN q : ~IsReport(q[i], v)
      <4>1. \A i \in DOMAIN r : ~IsReport(r[i], v)
        BY <1>1, <1>3, <3>1
      <4> QED  BY <4>1, <3>1 DEF ReadsAs
    <3>2. ASSUME NEW i \in DOMAIN q, IsReport(q[i], v), q[i].new = to,
                 \A j \in DOMAIN q : j > i => ~IsReport(q[j], v)
          PROVE  ReadsAs(r, v, from, to)
      <4>1. i \in DOMAIN r /\ r[i] = q[i]
        BY <1>1
      <4>2. \A j \in DOMAIN r : j > i => ~IsReport(r[j], v)
        BY <1>1, <1>3, <3>2
      <4> QED  BY <4>1, <4>2, <3>2 DEF ReadsAs
    <3> QED  BY <3>1, <3>2 DEF ReadsAs
  <2> QED  BY <2>1, <1>3 DEF r
<1> QED  BY <1>2, <1>3

\* An indication that is read becomes the entry of its NS-VC.
LEMMA TailReads ==
  ASSUME NEW q \in Seq(Inds), q # <<>>, NEW v, NEW from, NEW to,
         ReadsAs(q, v, from, to)
  PROVE  IF IsReport(Head(q), v) THEN ReadsAs(Tail(q), v, Head(q).new, to)
                                 ELSE ReadsAs(Tail(q), v, from, to)
<1> DEFINE r == Tail(q)
<1>1. /\ DOMAIN r = 1 .. Len(q) - 1
      /\ DOMAIN q = 1 .. Len(q)
      /\ \A i \in DOMAIN r : r[i] = q[i + 1]
      /\ Len(q) \in Nat /\ Len(q) > 0
      /\ Head(q) = q[1]
  OBVIOUS
<1> HIDE DEF r
<1> DEFINE f == IF IsReport(q[1], v) THEN q[1].new ELSE from
<1>2. ReadsAs(r, v, f, to)
  <2>1. CASE \A i \in DOMAIN q : ~IsReport(q[i], v)
    <3>1. \A i \in DOMAIN r : ~IsReport(r[i], v)
      BY <1>1, <2>1
    <3>2. from = to /\ f = from
      BY <1>1, <2>1 DEF ReadsAs
    <3> QED  BY <3>1, <3>2 DEF ReadsAs
  <2>2. ASSUME NEW i \in DOMAIN q, IsReport(q[i], v), q[i].new = to,
               \A j \in DOMAIN q : j > i => ~IsReport(q[j], v)
        PROVE  ReadsAs(r, v, f, to)
    <3>1. CASE i = 1
      <4>1. \A j \in DOMAIN r : ~IsReport(r[j], v)
        BY <1>1, <2>2, <3>1
      <4>2. f = to
        BY <2>2, <3>1
      <4> QED  BY <4>1, <4>2 DEF ReadsAs
    <3>2. CASE i # 1
      <4>1. i - 1 \in DOMAIN r /\ r[i - 1] = q[i]
        BY <1>1, <3>2
      <4>2. \A j \in DOMAIN r : j > i - 1 => ~IsReport(r[j], v)
        BY <1>1, <2>2
      <4> QED  BY <4>1, <4>2, <2>2 DEF ReadsAs
    <3> QED  BY <3>1, <3>2
  <2> QED  BY <2>1, <2>2 DEF ReadsAs
<1> QED  BY <1>1, <1>2 DEF r

\* f_change_state sends NS_CT the state it assigns.
LEMMA BecomesCatchesUp ==
  ASSUME NSVCTypeOK, TableCatchesUp, NEW v \in Vcs, NEW new \in States \ {"WAIT_RESET"},
         Becomes(v, new), UNCHANGED g_nsvcs
  PROVE  TableCatchesUp'
<1> DEFINE e == StatusInd(v, new)
<1>1. /\ upQ \in Seq(Inds) /\ e \in Inds
      /\ e.ind = "STATUS" /\ e.vc = v /\ e.new = new
  BY IndTypes DEF NSVCTypeOK, Inds, StatusInd
<1>2. upQ' = Append(upQ, e) /\ vc_state' = [vc_state EXCEPT ![v] = new]
  <2>1. upQ' = upQ \o <<e>> /\ vc_state' = [vc_state EXCEPT ![v] = new]
    BY BecomesTypes
  <2>2. Append(upQ, e) = upQ \o <<e>>
    BY <1>1, AppendIsConcat
  <2> QED  BY <2>1, <2>2
<1> HIDE DEF e
<1> SUFFICES ASSUME NEW u \in Vcs PROVE ReadsAs(upQ', u, g_nsvcs[u], Shown(u)')
  BY DEF TableCatchesUp
<1>3. ReadsAs(upQ, u, g_nsvcs[u], Shown(u))
  BY DEF TableCatchesUp
<1>4. CASE u = v
  <2>1. IsReport(e, u) /\ Shown(u)' = e.new
    BY <1>1, <1>2, <1>4 DEF IsReport, Shown, NSVCTypeOK
  <2> QED  BY <1>1, <1>2, <1>3, <2>1, AppendReads
<1>5. CASE u # v
  <2>1. ~IsReport(e, u) /\ Shown(u)' = Shown(u)
    BY <1>1, <1>2, <1>5 DEF IsReport, Shown, NSVCTypeOK
  <2> QED  BY <1>1, <1>2, <1>3, <2>1, AppendReads
<1> QED  BY <1>4, <1>5

LEMMA TwoElements ==
  ASSUME NEW S, NEW d \in S, NEW e \in S
  PROVE  /\ <<d, e>> \in Seq(S) /\ <<d>> \in Seq(S) /\ <<e>> \in Seq(S)
         /\ <<d, e>> = <<d>> \o <<e>>
<1>1. <<d, e>> \in Seq(S) /\ <<d>> \in Seq(S) /\ <<e>> \in Seq(S)
  OBVIOUS
<1>2. /\ <<d>> \o <<e>> \in Seq(S)
      /\ Len(<<d>> \o <<e>>) = 2
      /\ (<<d>> \o <<e>>)[1] = d /\ (<<d>> \o <<e>>)[2] = e
  BY <1>1, ConcatProperties
<1>3. \A i \in 1 .. 2 : <<d, e>>[i] = (<<d>> \o <<e>>)[i]
  BY <1>2
<1>4. Len(<<d, e>>) = 2
  OBVIOUS
<1> QED  BY <1>1, <1>2, <1>3, <1>4, SeqEqual

\* What a step without f_change_state needs to keep up.
LEMMA ShownCatchesUp ==
  ASSUME TableCatchesUp, UNCHANGED <<upQ, g_nsvcs>>,
         \A v \in Vcs : Shown(v)' = Shown(v)
  PROVE  TableCatchesUp'
  BY DEF TableCatchesUp

LEMMA StaysCatchesUp ==
  ASSUME TableCatchesUp, Stays, UNCHANGED g_nsvcs
  PROVE  TableCatchesUp'
  BY ShownCatchesUp DEF Stays, Shown

\* A link comes up in DEAD_BLOCKED or DISABLED: WAIT_RESET is shown alike.
LEMMA LinkUpCatchesUp ==
  ASSUME VcInv, TableCatchesUp, NEW v \in Vcs, LinkUp(v), UNCHANGED g_nsvcs
  PROVE  TableCatchesUp'
<1>1. CASE Enabled(v) /\ v \notin SgsnVcs
  <2>1. vc_state[v] = "DEAD_BLOCKED"
    BY <1>1 DEF VcInv, NoLinkNoService, LinkUp, Enabled
  <2>2. \A u \in Vcs : Shown(u)' = Shown(u)
    BY <1>1, <2>1 DEF LinkUp, Shown, VcInv, NSVCTypeOK
  <2> QED  BY <2>2, ShownCatchesUp DEF LinkUp
<1>2. CASE ~(Enabled(v) /\ v \notin SgsnVcs)
  BY <1>2, StaysCatchesUp DEF LinkUp, Stays
<1> QED  BY <1>1, <1>2

LEMMA RxUnitdataCatchesUp ==
  ASSUME VcInv, TableCatchesUp, NEW v \in Vcs, RxUnitdata(v), UNCHANGED g_nsvcs
  PROVE  TableCatchesUp'
<1> DEFINE e == UnitdataInd(v)
<1>1. upQ \in Seq(Inds) /\ e \in Inds /\ e.ind = "UD" /\ <<e>> \in Seq(Inds)
  BY IndTypes DEF VcInv, NSVCTypeOK, Inds, UnitdataInd
<1>2. upQ' = Append(upQ, e)
  BY <1>1, UpTypes, AppendIsConcat DEF RxUnitdata
<1> HIDE DEF e
<1> SUFFICES ASSUME NEW u \in Vcs PROVE ReadsAs(upQ', u, g_nsvcs[u], Shown(u)')
  BY DEF TableCatchesUp
<1>3. ReadsAs(upQ, u, g_nsvcs[u], Shown(u)) /\ ~IsReport(e, u)
  BY <1>1 DEF TableCatchesUp, IsReport
<1>4. Shown(u)' = Shown(u)
  BY DEF Shown, RxUnitdata
<1> QED  BY <1>1, <1>2, <1>3, <1>4, AppendReads

LEMMA DisableCatchesUp ==
  ASSUME VcInv, TableCatchesUp, NEW v \in Vcs, Disable(v), UNCHANGED g_nsvcs
  PROVE  TableCatchesUp'
<1> DEFINE d == StatusInd(v, "DEAD_BLOCKED")
           e == StatusInd(v, "DISABLED")
           q == Append(upQ, d)
<1>1. /\ upQ \in Seq(Inds) /\ d \in Inds /\ e \in Inds
      /\ e.ind = "STATUS" /\ e.vc = v /\ e.new = "DISABLED"
      /\ d.ind = "STATUS" /\ d.vc = v
  BY IndTypes DEF VcInv, NSVCTypeOK, Inds, StatusInd, States
<1>7. <<d, e>> \in Seq(Inds) /\ <<d>> \in Seq(Inds) /\ <<e>> \in Seq(Inds)
  BY <1>1, TwoElements
<1>2. upQ' = upQ \o <<d, e>>
  BY <1>1, <1>7, UpTypes DEF Disable, ReportsOnDisable
<1> HIDE DEF d, e
<1>3. upQ' = Append(q, e) /\ q \in Seq(Inds)
  <2>1. <<d, e>> = <<d>> \o <<e>>
    BY <1>1, TwoElements
  <2>2. upQ' = (upQ \o <<d>>) \o <<e>>
    BY <1>1, <1>7, <1>2, <2>1, ConcatAssociative
  <2>3. q = upQ \o <<d>> /\ q \in Seq(Inds)
    BY <1>1, <1>7, AppendIsConcat
  <2> QED  BY <1>1, <2>2, <2>3, AppendIsConcat
<1> HIDE DEF q
<1> SUFFICES ASSUME NEW u \in Vcs PROVE ReadsAs(upQ', u, g_nsvcs[u], Shown(u)')
  BY DEF TableCatchesUp
<1>4. ReadsAs(upQ, u, g_nsvcs[u], Shown(u))
  BY DEF TableCatchesUp
<1>5. CASE u = v
  <2>1. IsReport(d, u) /\ IsReport(e, u) /\ Shown(u)' = e.new
    BY <1>1, <1>5 DEF IsReport, Shown, Disable, VcInv, NSVCTypeOK
  <2>2. ReadsAs(q, u, g_nsvcs[u], d.new)
    BY <1>1, <1>4, <2>1, AppendReads DEF q
  <2> QED  BY <1>1, <1>3, <2>1, <2>2, AppendReads
<1>6. CASE u # v
  <2>1. ~IsReport(d, u) /\ ~IsReport(e, u) /\ Shown(u)' = Shown(u)
    BY <1>1, <1>6 DEF IsReport, Shown, Disable, VcInv, NSVCTypeOK
  <2>2. ReadsAs(q, u, g_nsvcs[u], Shown(u))
    BY <1>1, <1>4, <2>1, AppendReads DEF q
  <2> QED  BY <1>1, <1>3, <2>1, <2>2, AppendReads
<1> QED  BY <1>5, <1>6

LEMMA NSVCStepCatchesUp ==
  ASSUME VcInv, TableCatchesUp, NEW v \in Vcs, NSVCStep(v), UNCHANGED g_nsvcs
  PROVE  TableCatchesUp'
<1>1. CASE \E new \in States \ {"WAIT_RESET"} : Becomes(v, new)
  BY <1>1, BecomesCatchesUp DEF VcInv
<1>2. CASE LinkDown(v)
  BY <1>2, <1>1, StaysCatchesUp DEF LinkDown, States
<1>3. CASE RxResetAck(v) \/ RxReset(v) \/ AliveTimeout(v) \/ RxUnblock(v) \/ RxBlock(v) \/ Enable(v)
  BY <1>1, <1>3 DEF RxResetAck, RxReset, AliveTimeout, RxUnblock, RxBlock, Enable, States
<1>4. CASE \/ ResetTimeout(v) \/ TestTimeout(v) \/ RxAliveAck(v) \/ BlockTimeout(v)
           \/ TxUnitdata(v) \/ NotCarried(v) \/ Drop(v)
  BY <1>4, StaysCatchesUp
     DEF ResetTimeout, TestTimeout, RxAliveAck, BlockTimeout, TxUnitdata, NotCarried, Drop
<1>5. CASE RxAlive(v) \/ RxBlockAgain(v) \/ RxUnblockAgain(v) \/ RxBlockAck(v) \/ RxOther(v)
  BY <1>5, StaysCatchesUp
     DEF Answer, RxAlive, RxBlockAgain, RxUnblockAgain, RxBlockAck, RxOther
<1> QED
  BY <1>2, <1>3, <1>4, <1>5, LinkUpCatchesUp, RxUnitdataCatchesUp, DisableCatchesUp DEF NSVCStep

-----------------------------------------------------------------------------
(* The steps of the NS_CT. *)

\* Taking an indication takes it off the queue and disturbs no NS-VC.
LEMMA TakeIndicationInv ==
  ASSUME VcInv, NEW ind, TakeIndication(ind)
  PROVE  VcInv' /\ ind \in Inds
<1>1. upQ \in Seq(Inds) /\ upQ # <<>>
  BY DEF VcInv, NSVCTypeOK, TakeIndication, Inds
<1>2. Tail(upQ) \in Seq(Inds) /\ Head(upQ) \in Inds
  BY <1>1, HeadTailProperties
<1>3. NSVCTypeOK'
  BY <1>2 DEF VcInv, NSVCTypeOK, TakeIndication, Inds
<1> QED  BY <1>2, <1>3, StableInv DEF TakeIndication

\* Reading a status indication into the table.
LEMMA UpdateCatchesUp ==
  ASSUME VcInv, TableInv, TableCatchesUp, NEW ind, TakeIndication(ind),
         ind.ind = "STATUS", g_nsvcs' = [g_nsvcs EXCEPT ![ind.vc] = ind.new]
  PROVE  TableCatchesUp'
<1>1. upQ \in Seq(Inds) /\ upQ # <<>> /\ ind = Head(upQ) /\ upQ' = Tail(upQ)
  BY DEF VcInv, NSVCTypeOK, TakeIndication, Inds
<1> SUFFICES ASSUME NEW u \in Vcs PROVE ReadsAs(upQ', u, g_nsvcs'[u], Shown(u)')
  BY DEF TableCatchesUp
<1>2. ReadsAs(upQ, u, g_nsvcs[u], Shown(u)) /\ Shown(u)' = Shown(u)
  BY DEF TableCatchesUp, Shown, TakeIndication
<1>3. g_nsvcs'[u] = IF IsReport(ind, u) THEN ind.new ELSE g_nsvcs[u]
  BY DEF IsReport, TableInv
<1> QED  BY <1>1, <1>2, <1>3, TailReads

LEMMA UnitdataUpCatchesUp ==
  ASSUME VcInv, TableCatchesUp, NEW ind, UnitdataUp(ind)
  PROVE  TableCatchesUp'
<1>1. /\ upQ \in Seq(Inds) /\ upQ # <<>> /\ ind = Head(upQ) /\ upQ' = Tail(upQ)
      /\ ind.ind = "UD" /\ g_nsvcs' = g_nsvcs
  BY DEF VcInv, NSVCTypeOK, UnitdataUp, TakeIndication, Inds
<1> SUFFICES ASSUME NEW u \in Vcs PROVE ReadsAs(upQ', u, g_nsvcs'[u], Shown(u)')
  BY DEF TableCatchesUp
<1>2. ReadsAs(upQ, u, g_nsvcs[u], Shown(u)) /\ Shown(u)' = Shown(u)
  BY DEF TableCatchesUp, Shown, UnitdataUp, TakeIndication
<1>3. ~IsReport(ind, u)
  BY <1>1 DEF IsReport
<1> QED  BY <1>1, <1>2, <1>3, TailReads

\* f_nsvc_update_state keeps the lists in step with the table.
LEMMA UpdateLists ==
  ASSUME TableInv, NEW v \in Vcs, NEW new \in States, UpdateState(v, new)
  PROVE  /\ g_nsvcs' \in [Vcs -> States]
         /\ ListsMatchTable'
         /\ g_unblocked_nsvcs_sig' \subseteq Vcs
         /\ g_unblocked_nsvcs_data' \subseteq Vcs
<1>1. g_nsvcs' \in [Vcs -> States] /\ g_nsvcs' = [g_nsvcs EXCEPT ![v] = new]
  BY DEF TableInv, UpdateState
<1>2. UnblockedIn(g_nsvcs') = IF new = "ALIVE_UNBLOCKED" THEN UnblockedIn(g_nsvcs) \cup {v}
                                                        ELSE UnblockedIn(g_nsvcs) \ {v}
  BY <1>1 DEF TableInv, UnblockedIn
<1>3. g_nsvcs[v] = "ALIVE_UNBLOCKED" <=> v \in UnblockedIn(g_nsvcs)
  BY DEF UnblockedIn
<1>4. g_unblocked_nsvcs_sig' = UnblockedIn(g_nsvcs') \cap SigVcs
  BY <1>2, <1>3 DEF TableInv, ListsMatchTable, UpdateState, ListAfter
<1>5. g_unblocked_nsvcs_data' = UnblockedIn(g_nsvcs') \cap DataVcs
  BY <1>2, <1>3 DEF TableInv, ListsMatchTable, UpdateState, ListAfter
<1>6. UnblockedIn(g_nsvcs') \subseteq Vcs
  BY DEF UnblockedIn
<1> QED  BY <1>1, <1>4, <1>5, <1>6 DEF ListsMatchTable

\* A status indication is for an NS-VC of the table.
LEMMA StatusTypes ==
  ASSUME NEW ind \in Inds, ind.ind = "STATUS"
  PROVE  ind.vc \in Vcs /\ ind.new \in States
  BY DEF Inds, StatusInds, UnitdataInds

\* The status indications keep lists, table and the user's knowledge together.
LEMMA StatusInv ==
  ASSUME VcInv, TableInv, TableCatchesUp, NEW ind,
         StatusUnblocked(ind) \/ StatusDead(ind) \/ StatusOther(ind)
  PROVE  VcInv' /\ TableInv' /\ TableCatchesUp'
<1>1. TakeIndication(ind) /\ ind.ind = "STATUS" /\ UpdateState(ind.vc, ind.new)
  BY DEF StatusUnblocked, StatusDead, StatusOther
<1>2. VcInv' /\ ind \in Inds
  BY <1>1, TakeIndicationInv
<1>3. ind.vc \in Vcs /\ ind.new \in States
  BY <1>1, <1>2, StatusTypes
<1>4. TableCatchesUp'
  BY <1>1, UpdateCatchesUp DEF UpdateState
<1>5. /\ g_nsvcs' \in [Vcs -> States]
      /\ ListsMatchTable'
      /\ g_unblocked_nsvcs_sig' \subseteq Vcs
      /\ g_unblocked_nsvcs_data' \subseteq Vcs
  BY <1>1, <1>3, UpdateLists
<1>6. nsct' = nsct /\ disruptive' = disruptive /\ enabling' = enabling
  BY <1>1 DEF TakeIndication, surroundings
<1>7. userUp' \in BOOLEAN /\ UserKnowsFirst'
  <2>1. CASE StatusUnblocked(ind)
    BY <2>1 DEF StatusUnblocked, FirstUnblocked, TableInv, UserKnowsFirst
  <2>2. CASE StatusDead(ind)
    <3>1. UnblockedIn(g_nsvcs') \subseteq UnblockedIn(g_nsvcs)
      BY <1>1, <2>2, <1>3 DEF StatusDead, UpdateState, UnblockedIn, TableInv
    <3> QED  BY <2>2, <3>1 DEF StatusDead, LastBlocked, TableInv, UserKnowsFirst
  <2>3. CASE StatusOther(ind)
    <3>1. UnblockedIn(g_nsvcs') \subseteq UnblockedIn(g_nsvcs)
      BY <1>1, <2>3, <1>3 DEF StatusOther, UpdateState, UnblockedIn, TableInv
    <3> QED  BY <2>3, <3>1 DEF StatusOther, TableInv, UserKnowsFirst
  <2> QED  BY <2>1, <2>2, <2>3
<1> QED  BY <1>2, <1>4, <1>5, <1>6, <1>7 DEF TableInv

\* A step that leaves the table, the lists and the user's knowledge alone.
LEMMA TableStays ==
  ASSUME TableInv,
         UNCHANGED <<g_nsvcs, g_unblocked_nsvcs_sig, g_unblocked_nsvcs_data, userUp, surroundings>>,
         nsct' \in {"running", "error"}
  PROVE  TableInv'
  BY DEF TableInv, ListsMatchTable, UserKnowsFirst, UnblockedIn, surroundings

\* What the user asks for only grows the queue of one NS-VC.
LEMMA PassOnInv ==
  ASSUME VcInv, NEW r, Request(r), NEW v \in Vcs, PassOn(v, r)
  PROVE  VcInv'
<1>1. r \in Requests
  BY UserAssumption DEF Request
<1>2. Append(spQ[v], r) \in Seq(Requests)
  BY <1>1 DEF VcInv, NSVCTypeOK
<1>3. NSVCTypeOK'
  BY <1>2 DEF VcInv, NSVCTypeOK, Request, PassOn
<1> QED  BY <1>3, StableInv DEF Request

LEMMA RequestInv ==
  ASSUME VcInv, TableInv, TableCatchesUp, NEW r,
         SendUnitdata(r) \/ SendUnitdataFails(r) \/ (\E v \in Vcs : Control(v, r))
  PROVE  VcInv' /\ TableInv' /\ TableCatchesUp'
<1>1. Request(r)
  BY DEF SendUnitdata, SendUnitdataFails, Control
<1>2. TableCatchesUp'
  BY <1>1, StaysCatchesUp DEF Request, Stays
<1>3. TableInv'
  BY <1>1, TableStays DEF Request, SendUnitdata, SendUnitdataFails, Control, TableInv
<1>4. VcInv'
  <2>1. CASE SendUnitdata(r)
    BY <2>1, <1>1, PassOnInv DEF SendUnitdata, Candidates, TableInv
  <2>2. CASE SendUnitdataFails(r)
    <3>1. NSVCTypeOK'
      BY <2>2 DEF SendUnitdataFails, Request, VcInv, NSVCTypeOK
    <3> QED  BY <2>2, <3>1, StableInv DEF SendUnitdataFails, Request
  <2>3. CASE \E v \in Vcs : Control(v, r)
    BY <2>3, <1>1, PassOnInv DEF Control
  <2> QED  BY <2>1, <2>2, <2>3
<1> QED  BY <1>2, <1>3, <1>4

-----------------------------------------------------------------------------

\* The inductive invariant.
NSEInv == VcInv /\ TableInv /\ TableCatchesUp

\* Every NS-VC starts dead, without link or timers, and is shown so.
LEMMA InitNSEInv == Init => NSEInv
<1> SUFFICES ASSUME Init PROVE NSEInv
  OBVIOUS
<1> USE DEF Init, NSVCInit
<1>1. NSVCTypeOK
  <2>1. <<>> \in Seq(Inds) /\ <<>> \in Seq(Requests)
    OBVIOUS
  <2>2. air \in [Linked -> Seq(Pdus)]
    BY FarEndsAssumption
  <2> QED  BY <2>1, <2>2 DEF NSVCTypeOK, States, Inds
<1>2. VcInv
  BY <1>1 DEF VcInv, AliveSupervised, ResetSupervised, NoLinkNoService
<1>3. TableInv
  BY DEF TableInv, States, ListsMatchTable, UserKnowsFirst, UnblockedIn
<1>4. TableCatchesUp
  BY DEF TableCatchesUp, ReadsAs, Shown
<1> QED  BY <1>2, <1>3, <1>4 DEF NSEInv

\* Every step of the entity keeps it.
LEMMA StepNSEInv == NSEInv /\ [Next]_vars => NSEInv'
<1> SUFFICES ASSUME NSEInv, [Next]_vars PROVE NSEInv'
  OBVIOUS
<1> USE DEF NSEInv
<1>1. ASSUME NEW v \in Vcs, NSVCStep(v), UNCHANGED nseVars PROVE NSEInv'
  <2>1. VcInv'
    BY <1>1, NSVCStepInv
  <2>2. TableInv'
    BY <1>1, TableStays DEF nseVars, TableInv
  <2>3. TableCatchesUp'
    BY <1>1, NSVCStepCatchesUp DEF nseVars
  <2> QED  BY <2>1, <2>2, <2>3
<1>2. ASSUME NEW ind, UnitdataUp(ind) PROVE NSEInv'
  <2>1. VcInv'
    BY <1>2, TakeIndicationInv DEF UnitdataUp
  <2>2. TableInv'
    BY <1>2, TableStays DEF UnitdataUp, TakeIndication, TableInv
  <2>3. TableCatchesUp'
    BY <1>2, UnitdataUpCatchesUp
  <2> QED  BY <2>1, <2>2, <2>3
<1>3. ASSUME NSCT PROVE NSEInv'
  BY <1>2, <1>3, StatusInv, RequestInv DEF NSCT
<1>4. CASE UNCHANGED vars
  <2>1. VcInv'
    BY <1>4 DEF vars, nsvcVars, VcInv, NSVCTypeOK, AliveSupervised, ResetSupervised, NoLinkNoService
  <2>2. TableInv'
    BY <1>4, TableStays DEF vars, nseVars, TableInv
  <2>3. TableCatchesUp'
    BY <1>4, StaysCatchesUp DEF vars, nsvcVars, nseVars, Stays
  <2> QED  BY <2>1, <2>2, <2>3
<1> QED  BY <1>1, <1>3, <1>4 DEF Next

\* The inductive invariant holds in every reachable state.
THEOREM NSEInvariant == Spec => []NSEInv
<1>1. Init => NSEInv
  BY InitNSEInv
<1>2. NSEInv /\ [Next]_vars => NSEInv'
  BY StepNSEInv
<1> QED  BY <1>1, <1>2, PTL DEF Spec

\* Types: what NS_CT takes from its queue is always an indication of an NS-VC
\* of its table.  (NSVC.receive in as_ns_common)
THEOREM NSETypes == Spec => []TypeOK
<1>1. NSEInv => TypeOK
  BY DEF NSEInv, VcInv, TableInv, TypeOK
<1> QED  BY <1>1, NSEInvariant, PTL

\* The lists that distribute load hold what the table says, whatever order the
\* indications come in.  (f_nsvc_update_state)
THEOREM NSELists == Spec => []ListsMatchTable
<1>1. NSEInv => ListsMatchTable
  BY DEF NSEInv, TableInv
<1> QED  BY <1>1, NSEInvariant, PTL

\* The table of NS_CT never diverges from the NS-VCs by more than what is under
\* way.  (f_change_state, as_ns_common_status)
THEOREM NSETable == Spec => []TableCatchesUp
<1>1. NSEInv => TableCatchesUp
  BY DEF NSEInv
<1> QED  BY <1>1, NSEInvariant, PTL

\* The user is told of the first unblocked NS-VC.  (as_ns_common_status)
THEOREM NSEUserKnowsFirst == Spec => []UserKnowsFirst
<1>1. NSEInv => UserKnowsFirst
  BY DEF NSEInv, TableInv
<1> QED  BY <1>1, NSEInvariant, PTL

\* No NS-VC that is alive is left without a running Tns-alive or Tns-test, and no
\* reset procedure without its timer.  (as_allstate, as_wait_reset)
THEOREM NSESupervised == Spec => []Supervised
<1>1. NSEInv => Supervised
  BY DEF NSEInv, VcInv, Supervised
<1> QED  BY <1>1, NSEInvariant, PTL

-----------------------------------------------------------------------------
(* The last NS-VC. *)

\* From where an entry of v holds from, the reports in q lead it out of
\* ALIVE_UNBLOCKED through DEAD_BLOCKED only.
LossReportedIn(q, v, from) ==
    /\ from = "ALIVE_UNBLOCKED" =>
          \A j \in DOMAIN q :
              IsReport(q[j], v) /\ (\A i \in DOMAIN q : i < j => ~IsReport(q[i], v)) =>
                  q[j].new = "DEAD_BLOCKED"
    /\ \A i, j \in DOMAIN q :
          /\ i < j /\ IsReport(q[i], v) /\ IsReport(q[j], v)
          /\ \A m \in DOMAIN q : i < m /\ m < j => ~IsReport(q[m], v)
          /\ q[i].new = "ALIVE_UNBLOCKED"
          => q[j].new = "DEAD_BLOCKED"

\* The inductive invariant.
LossReported == ~disruptive => \A v \in Vcs : LossReportedIn(upQ, v, g_nsvcs[v])

LastInv == LossReported /\ ToldUserKnowsLast

\* An indication that is sent: where the entry will hold UNBLOCKED, it is DEAD_BLOCKED.
LEMMA AppendLoss ==
  ASSUME NEW q \in Seq(Inds), NEW e \in Inds, NEW v, NEW from, NEW to,
         ReadsAs(q, v, from, to), LossReportedIn(q, v, from),
         IsReport(e, v) /\ to = "ALIVE_UNBLOCKED" => e.new = "DEAD_BLOCKED"
  PROVE  LossReportedIn(Append(q, e), v, from)
<1> DEFINE r == Append(q, e)
           n == Len(q) + 1
<1>1. /\ DOMAIN r = DOMAIN q \cup {n}
      /\ r[n] = e
      /\ \A i \in DOMAIN q : r[i] = q[i] /\ i \in Nat /\ i < n
      /\ n \in Nat
  OBVIOUS
<1> HIDE DEF r, n
<1>2. ASSUME from = "ALIVE_UNBLOCKED", NEW j \in DOMAIN r, IsReport(r[j], v),
             \A i \in DOMAIN r : i < j => ~IsReport(r[i], v)
      PROVE  r[j].new = "DEAD_BLOCKED"
  <2>1. CASE j \in DOMAIN q
    <3>1. IsReport(q[j], v) /\ \A i \in DOMAIN q : i < j => ~IsReport(q[i], v)
      BY <1>1, <1>2, <2>1
    <3> QED  BY <1>1, <1>2, <2>1, <3>1 DEF LossReportedIn
  <2>2. CASE j = n
    <3>1. \A i \in DOMAIN q : ~IsReport(q[i], v)
      BY <1>1, <1>2, <2>2
    <3>2. to = from
      BY <3>1 DEF ReadsAs
    <3> QED  BY <1>1, <1>2, <2>2, <3>2
  <2> QED  BY <1>1, <2>1, <2>2
<1>3. ASSUME NEW i \in DOMAIN r, NEW j \in DOMAIN r,
             i < j, IsReport(r[i], v), IsReport(r[j], v),
             \A m \in DOMAIN r : i < m /\ m < j => ~IsReport(r[m], v),
             r[i].new = "ALIVE_UNBLOCKED"
      PROVE  r[j].new = "DEAD_BLOCKED"
  <2>1. CASE j \in DOMAIN q
    <3>1. i \in DOMAIN q
      BY <1>1, <1>3, <2>1
    <3>2. /\ IsReport(q[i], v) /\ IsReport(q[j], v) /\ q[i].new = "ALIVE_UNBLOCKED"
          /\ \A m \in DOMAIN q : i < m /\ m < j => ~IsReport(q[m], v)
      BY <1>1, <1>3, <2>1, <3>1
    <3> QED  BY <1>1, <1>3, <2>1, <3>1, <3>2 DEF LossReportedIn
  <2>2. CASE j = n
    <3>1. i \in DOMAIN q
      BY <1>1, <1>3, <2>2
    <3>2. /\ IsReport(q[i], v) /\ q[i].new = "ALIVE_UNBLOCKED"
          /\ \A m \in DOMAIN q : m > i => ~IsReport(q[m], v)
      BY <1>1, <1>3, <2>2, <3>1
    <3>3. to = "ALIVE_UNBLOCKED"
      <4>1. PICK l \in DOMAIN q : /\ IsReport(q[l], v) /\ q[l].new = to
                                  /\ \A m \in DOMAIN q : m > l => ~IsReport(q[m], v)
        BY <3>1, <3>2 DEF ReadsAs
      <4>2. l = i
        BY <1>1, <3>1, <3>2, <4>1
      <4> QED  BY <3>2, <4>1, <4>2
    <3> QED  BY <1>1, <1>3, <2>2, <3>3
  <2> QED  BY <1>1, <2>1, <2>2
<1>4. LossReportedIn(r, v, from)
  BY <1>2, <1>3 DEF LossReportedIn
<1> QED  BY <1>4 DEF r

\* An indication that is read.
LEMMA TailLoss ==
  ASSUME NEW q \in Seq(Inds), q # <<>>, NEW v, NEW from, LossReportedIn(q, v, from)
  PROVE  /\ LossReportedIn(Tail(q), v, IF IsReport(Head(q), v) THEN Head(q).new ELSE from)
         /\ IsReport(Head(q), v) /\ from = "ALIVE_UNBLOCKED" => Head(q).new = "DEAD_BLOCKED"
<1> DEFINE r == Tail(q)
           f == IF IsReport(q[1], v) THEN q[1].new ELSE from
<1>1. /\ DOMAIN r = 1 .. Len(q) - 1
      /\ DOMAIN q = 1 .. Len(q)
      /\ \A i \in DOMAIN r : r[i] = q[i + 1]
      /\ Len(q) \in Nat /\ Len(q) > 0
      /\ Head(q) = q[1]
  OBVIOUS
<1> HIDE DEF r
<1>2. ASSUME f = "ALIVE_UNBLOCKED", NEW j \in DOMAIN r, IsReport(r[j], v),
             \A i \in DOMAIN r : i < j => ~IsReport(r[i], v)
      PROVE  r[j].new = "DEAD_BLOCKED"
  <2>1. j + 1 \in DOMAIN q /\ r[j] = q[j + 1] /\ 1 \in DOMAIN q /\ 1 < j + 1
    BY <1>1
  <2>2. \A i \in DOMAIN q : 1 < i /\ i < j + 1 => ~IsReport(q[i], v)
    <3> TAKE i \in DOMAIN q
    <3> HAVE 1 < i /\ i < j + 1
    <3>1. i - 1 \in DOMAIN r /\ i - 1 < j /\ r[i - 1] = q[i]
      BY <1>1
    <3> QED  BY <1>2, <3>1
  <2>3. CASE IsReport(q[1], v)
    BY <1>2, <2>1, <2>2, <2>3 DEF LossReportedIn
  <2>4. CASE ~IsReport(q[1], v)
    <3>1. \A i \in DOMAIN q : i < j + 1 => ~IsReport(q[i], v)
      BY <1>1, <2>2, <2>4
    <3> QED  BY <1>2, <2>1, <2>4, <3>1 DEF LossReportedIn
  <2> QED  BY <2>3, <2>4
<1>3. ASSUME NEW i \in DOMAIN r, NEW j \in DOMAIN r,
             i < j, IsReport(r[i], v), IsReport(r[j], v),
             \A m \in DOMAIN r : i < m /\ m < j => ~IsReport(r[m], v),
             r[i].new = "ALIVE_UNBLOCKED"
      PROVE  r[j].new = "DEAD_BLOCKED"
  <2>1. /\ i + 1 \in DOMAIN q /\ r[i] = q[i + 1]
        /\ j + 1 \in DOMAIN q /\ r[j] = q[j + 1] /\ i + 1 < j + 1
    BY <1>1, <1>3
  <2>2. \A m \in DOMAIN q : i + 1 < m /\ m < j + 1 => ~IsReport(q[m], v)
    <3> TAKE m \in DOMAIN q
    <3> HAVE i + 1 < m /\ m < j + 1
    <3>1. m - 1 \in DOMAIN r /\ i < m - 1 /\ m - 1 < j /\ r[m - 1] = q[m]
      BY <1>1
    <3> QED  BY <1>3, <3>1
  <2> QED  BY <1>3, <2>1, <2>2 DEF LossReportedIn
<1>4. LossReportedIn(r, v, f)
  BY <1>2, <1>3 DEF LossReportedIn
<1>5. IsReport(q[1], v) /\ from = "ALIVE_UNBLOCKED" => q[1].new = "DEAD_BLOCKED"
  <2>1. 1 \in DOMAIN q /\ \A i \in DOMAIN q : ~(i < 1)
    BY <1>1
  <2> QED  BY <2>1 DEF LossReportedIn
<1> QED  BY <1>1, <1>4, <1>5 DEF r

\* f_change_state of an NS-VC, which goes from ALIVE_UNBLOCKED to DEAD_BLOCKED if at all.
LEMMA BecomesLoss ==
  ASSUME NSEInv, LossReported, NEW v \in Vcs, NEW new \in States,
         Becomes(v, new), UNCHANGED <<g_nsvcs, disruptive>>,
         ~disruptive /\ Unblocked(v) => new = "DEAD_BLOCKED"
  PROVE  LossReported'
<1> SUFFICES ASSUME ~disruptive, NEW u \in Vcs  PROVE LossReportedIn(upQ', u, g_nsvcs[u])
  BY DEF LossReported
<1> DEFINE e == StatusInd(v, new)
<1>1. /\ upQ \in Seq(Inds) /\ e \in Inds
      /\ e.ind = "STATUS" /\ e.vc = v /\ e.new = new
  BY IndTypes DEF NSEInv, VcInv, NSVCTypeOK, Inds, StatusInd
<1>2. upQ' = Append(upQ, e)
  <2>1. NSVCTypeOK
    BY DEF NSEInv, VcInv
  <2>2. upQ' = upQ \o <<e>>
    BY <2>1, BecomesTypes
  <2>3. Append(upQ, e) = upQ \o <<e>>
    BY <1>1, AppendIsConcat
  <2> QED  BY <2>2, <2>3
<1> HIDE DEF e
<1>3. ReadsAs(upQ, u, g_nsvcs[u], Shown(u)) /\ LossReportedIn(upQ, u, g_nsvcs[u])
  BY DEF NSEInv, TableCatchesUp, LossReported
<1>4. IsReport(e, u) /\ Shown(u) = "ALIVE_UNBLOCKED" => e.new = "DEAD_BLOCKED"
  BY <1>1 DEF IsReport, Shown, Unblocked
<1> QED  BY <1>1, <1>2, <1>3, <1>4, AppendLoss

\* A step without reports.
LEMMA SilentLoss ==
  ASSUME LossReported, UNCHANGED <<upQ, g_nsvcs, disruptive>>
  PROVE  LossReported'
  BY DEF LossReported

\* A disabled NS-VC reports first that it is dead.
LEMMA DisableLoss ==
  ASSUME NSEInv, LossReported, NEW v \in Vcs, Disable(v), UNCHANGED <<g_nsvcs, disruptive>>
  PROVE  LossReported'
<1> DEFINE d == StatusInd(v, "DEAD_BLOCKED")
           e == StatusInd(v, "DISABLED")
           q == Append(upQ, d)
<1>1. /\ upQ \in Seq(Inds) /\ d \in Inds /\ e \in Inds
      /\ e.ind = "STATUS" /\ e.vc = v /\ e.new = "DISABLED"
      /\ d.ind = "STATUS" /\ d.vc = v /\ d.new = "DEAD_BLOCKED"
  BY IndTypes DEF NSEInv, VcInv, NSVCTypeOK, Inds, StatusInd, States
<1>2. <<d, e>> \in Seq(Inds) /\ <<d>> \in Seq(Inds) /\ <<e>> \in Seq(Inds)
  BY <1>1, TwoElements
<1>3. upQ' = upQ \o <<d, e>>
  BY <1>1, <1>2, UpTypes DEF Disable, ReportsOnDisable
<1> HIDE DEF d, e
<1>4. upQ' = Append(q, e) /\ q \in Seq(Inds)
  <2>1. <<d, e>> = <<d>> \o <<e>>
    BY <1>1, TwoElements
  <2>2. upQ' = (upQ \o <<d>>) \o <<e>>
    BY <1>1, <1>2, <1>3, <2>1, ConcatAssociative
  <2>3. q = upQ \o <<d>> /\ q \in Seq(Inds)
    BY <1>1, <1>2, AppendIsConcat
  <2> QED  BY <1>1, <2>2, <2>3, AppendIsConcat
<1> HIDE DEF q
<1> SUFFICES ASSUME ~disruptive, NEW u \in Vcs  PROVE LossReportedIn(upQ', u, g_nsvcs[u])
  BY DEF LossReported
<1>5. ReadsAs(upQ, u, g_nsvcs[u], Shown(u)) /\ LossReportedIn(upQ, u, g_nsvcs[u])
  BY DEF NSEInv, TableCatchesUp, LossReported
<1>6. LossReportedIn(q, u, g_nsvcs[u])
  BY <1>1, <1>5, AppendLoss DEF q
<1>7. CASE u = v
  <2>1. ReadsAs(q, u, g_nsvcs[u], "DEAD_BLOCKED")
    BY <1>1, <1>5, <1>7, AppendReads DEF q, IsReport
  <2> QED  BY <1>1, <1>4, <1>6, <2>1, AppendLoss
<1>8. CASE u # v
  <2>1. ~IsReport(d, u) /\ ~IsReport(e, u)
    BY <1>1, <1>8 DEF IsReport
  <2>2. ReadsAs(q, u, g_nsvcs[u], Shown(u))
    BY <1>1, <1>5, <2>1, AppendReads DEF q
  <2> QED  BY <1>1, <1>4, <1>6, <2>1, <2>2, AppendLoss
<1> QED  BY <1>7, <1>8

\* User data is no report.
LEMMA RxUnitdataLoss ==
  ASSUME NSEInv, LossReported, NEW v \in Vcs, RxUnitdata(v), UNCHANGED <<g_nsvcs, disruptive>>
  PROVE  LossReported'
<1> SUFFICES ASSUME ~disruptive, NEW u \in Vcs  PROVE LossReportedIn(upQ', u, g_nsvcs[u])
  BY DEF LossReported
<1> DEFINE e == UnitdataInd(v)
<1>1. upQ \in Seq(Inds) /\ e \in Inds /\ e.ind = "UD" /\ <<e>> \in Seq(Inds)
  BY IndTypes DEF NSEInv, VcInv, NSVCTypeOK, Inds, UnitdataInd
<1>2. upQ' = Append(upQ, e)
  BY <1>1, UpTypes, AppendIsConcat DEF RxUnitdata
<1> HIDE DEF e
<1>3. /\ ReadsAs(upQ, u, g_nsvcs[u], Shown(u)) /\ LossReportedIn(upQ, u, g_nsvcs[u])
      /\ ~IsReport(e, u)
  BY <1>1 DEF NSEInv, TableCatchesUp, LossReported, IsReport
<1> QED  BY <1>1, <1>2, <1>3, AppendLoss

\* The NS-VCs: what takes one out of ALIVE_UNBLOCKED makes it dead, unless its far
\* end is disruptive.
LEMMA NSVCStepLoss ==
  ASSUME NSEInv, LossReported, NEW v \in Vcs, NSVCStep(v), Disrupted(v) => disruptive,
         UNCHANGED <<g_nsvcs, disruptive>>
  PROVE  LossReported'
<1> USE DEF Unblocked, Blocked
<1>1. CASE LinkDown(v)
  BY <1>1, BecomesLoss, SilentLoss DEF LinkDown, Stays, States
<1>2. CASE AliveTimeout(v)
  BY <1>2, BecomesLoss DEF AliveTimeout, States
<1>3. CASE Enable(v)
  BY <1>3, BecomesLoss DEF Enable, States
<1>4. CASE RxResetAck(v)
  BY <1>4, BecomesLoss DEF RxResetAck, States
<1>5. CASE RxUnblock(v)
  BY <1>5, BecomesLoss DEF RxUnblock, States
<1>6. CASE RxReset(v) \/ RxBlock(v)
  <2>1. Becomes(v, "ALIVE_BLOCKED")
    BY <1>6 DEF RxReset, RxBlock
  <2>2. Blocked(v)'
    BY <2>1 DEF Becomes, NSEInv, VcInv, NSVCTypeOK
  <2> QED  BY <2>1, <2>2, BecomesLoss DEF Disrupted, States
<1>7. CASE \/ ResetTimeout(v) \/ TestTimeout(v) \/ RxAliveAck(v) \/ BlockTimeout(v)
           \/ TxUnitdata(v) \/ NotCarried(v) \/ Drop(v)
  BY <1>7, SilentLoss
     DEF ResetTimeout, TestTimeout, RxAliveAck, BlockTimeout, TxUnitdata, NotCarried, Drop, Stays
<1>8. CASE RxAlive(v) \/ RxBlockAgain(v) \/ RxUnblockAgain(v) \/ RxBlockAck(v) \/ RxOther(v)
  BY <1>8, SilentLoss
     DEF Answer, RxAlive, RxBlockAgain, RxUnblockAgain, RxBlockAck, RxOther, Stays
<1>9. CASE LinkUp(v)
  BY <1>9, SilentLoss DEF LinkUp
<1> QED
  BY <1>1, <1>2, <1>3, <1>4, <1>5, <1>6, <1>7, <1>8, <1>9, RxUnitdataLoss, DisableLoss DEF NSVCStep

\* What NS_CT reads off the queue.
LEMMA TakeLoss ==
  ASSUME NSEInv, LossReported, NEW ind, TakeIndication(ind),
         \A u \in Vcs : g_nsvcs'[u] = IF IsReport(ind, u) THEN ind.new ELSE g_nsvcs[u]
  PROVE  LossReported'
<1>1. /\ upQ \in Seq(Inds) /\ upQ # <<>> /\ ind = Head(upQ) /\ upQ' = Tail(upQ)
      /\ disruptive' = disruptive
  BY DEF NSEInv, VcInv, NSVCTypeOK, TakeIndication, Inds, surroundings
<1> SUFFICES ASSUME ~disruptive, NEW u \in Vcs  PROVE LossReportedIn(upQ', u, g_nsvcs'[u])
  BY <1>1 DEF LossReported
<1>2. LossReportedIn(upQ, u, g_nsvcs[u])
  BY DEF LossReported
<1> QED  BY <1>1, <1>2, TailLoss

\* The user is told of the last NS-VC when its loss is read from the queue, and
\* nothing else takes an NS-VC out of the unblocked ones.
LEMMA StatusLast ==
  ASSUME NSEInv, LastInv, NEW ind, StatusUnblocked(ind) \/ StatusDead(ind) \/ StatusOther(ind)
  PROVE  LastInv'
<1>1. /\ TakeIndication(ind) /\ ind.ind = "STATUS" /\ UpdateState(ind.vc, ind.new)
      /\ disruptive' = disruptive
  BY DEF StatusUnblocked, StatusDead, StatusOther, TakeIndication, surroundings
<1>2. ind.vc \in Vcs /\ ind.new \in States
  BY <1>1, TakeIndicationInv, StatusTypes DEF NSEInv
<1>3. g_nsvcs \in [Vcs -> States] /\ g_nsvcs' = [g_nsvcs EXCEPT ![ind.vc] = ind.new]
  BY <1>1 DEF UpdateState, NSEInv, TableInv
<1>4. LossReported'
  BY <1>1, <1>2, <1>3, TakeLoss DEF LastInv, IsReport
<1>5. ToldUserKnowsLast'
  <2> SUFFICES ASSUME ~disruptive, userUp'  PROVE UnblockedIn(g_nsvcs') # {}
    BY <1>1 DEF ToldUserKnowsLast, UserKnowsLast
  <2>1. CASE StatusUnblocked(ind)
    <3>1. ind.vc \in UnblockedIn(g_nsvcs')
      BY <1>2, <1>3, <2>1 DEF StatusUnblocked, UnblockedIn
    <3> QED  BY <3>1
  <2>2. CASE StatusDead(ind)
    BY <2>2 DEF StatusDead, LastBlocked, LastInv, ToldUserKnowsLast, UserKnowsLast
  <2>3. CASE StatusOther(ind)
    <3>1. PICK u \in Vcs : g_nsvcs[u] = "ALIVE_UNBLOCKED"
      BY <2>3 DEF StatusOther, LastInv, ToldUserKnowsLast, UserKnowsLast, UnblockedIn
    <3>2. ~IsReport(ind, u)
      <4>1. /\ upQ \in Seq(Inds) /\ upQ # <<>> /\ ind = Head(upQ)
            /\ LossReportedIn(upQ, u, g_nsvcs[u])
        BY <1>1 DEF NSEInv, VcInv, NSVCTypeOK, TakeIndication, Inds, LastInv, LossReported
      <4> QED  BY <2>3, <3>1, <4>1, TailLoss DEF StatusOther
    <3>3. g_nsvcs'[u] = "ALIVE_UNBLOCKED"
      BY <1>1, <1>2, <1>3, <3>1, <3>2 DEF IsReport
    <3> QED  BY <3>3 DEF UnblockedIn
  <2> QED  BY <2>1, <2>2, <2>3
<1> QED  BY <1>4, <1>5 DEF LastInv

\* A step that leaves the table and the user's knowledge alone.
LEMMA KnowledgeStays ==
  ASSUME ToldUserKnowsLast, UNCHANGED <<g_nsvcs, userUp, disruptive>>
  PROVE  ToldUserKnowsLast'
  BY DEF ToldUserKnowsLast, UserKnowsLast, UnblockedIn

\* Every step keeps it.
LEMMA StepLast == NSEInv /\ LastInv /\ [Next]_vars => LastInv'
<1> SUFFICES ASSUME NSEInv, LastInv, [Next]_vars PROVE LastInv'
  OBVIOUS
<1>1. ASSUME NEW v \in Vcs, NSVCStep(v), UNCHANGED nseVars, Disrupted(v) => disruptive
      PROVE  LastInv'
  BY <1>1, NSVCStepLoss, KnowledgeStays DEF nseVars, surroundings, LastInv
<1>2. ASSUME NEW ind, UnitdataUp(ind)
      PROVE  LastInv'
  <2>1. TakeIndication(ind) /\ UNCHANGED <<g_nsvcs, userUp, disruptive>> /\ \A u \in Vcs : ~IsReport(ind, u)
    BY <1>2 DEF UnitdataUp, TakeIndication, surroundings, IsReport
  <2> QED  BY <2>1, TakeLoss, KnowledgeStays DEF LastInv
<1>3. ASSUME NEW r, SendUnitdata(r) \/ SendUnitdataFails(r) \/ \E v \in Vcs : Control(v, r)
      PROVE  LastInv'
  <2>1. Request(r)
    BY <1>3 DEF SendUnitdata, SendUnitdataFails, Control
  <2> QED  BY <2>1, SilentLoss, KnowledgeStays DEF LastInv, Request, surroundings
<1>4. CASE UNCHANGED vars
  BY <1>4, SilentLoss, KnowledgeStays DEF LastInv, vars, nsvcVars, nseVars, surroundings
<1> QED  BY <1>1, <1>2, <1>3, <1>4, StatusLast DEF Next, NSCT

\* While the far ends neither block nor reset unblocked NS-VCs, whatever they and
\* the links do otherwise, the user never believes that the entity is up when all
\* its NS-VCs are gone.  (as_ns_common_status)
THEOREM NSEUserKnowsLast == Spec => []ToldUserKnowsLast
<1>1. Init => LastInv
  BY DEF Init, NSVCInit, LastInv, LossReported, LossReportedIn, ToldUserKnowsLast, UserKnowsLast
<1>2. NSEInv /\ LastInv /\ [Next]_vars => LastInv'
  BY StepLast
<1>3. LastInv => ToldUserKnowsLast
  BY DEF LastInv
<1> QED  BY <1>1, <1>2, <1>3, NSEInvariant, PTL DEF Spec

-----------------------------------------------------------------------------
(* Reset procedures. *)

\* While an NS-VC is disabled, has no link, or is reset, no Tns-alive or Tns-test runs.
QuietReset ==
    \A v \in Vcs : ~link[v] \/ vc_state[v] \in {"DISABLED", "WAIT_RESET"} =>
                      running[v] \cap {"alive", "test"} = {}

NoEnable == \A v \in Vcs : \A i \in DOMAIN spQ[v] : spQ[v][i] # "ENABLE"

\* The inductive invariant.
ResetInv == ~enabling => QuietReset /\ NoEnable

\* An NS-VC that handles no enable request keeps the timers off.
LEMMA NSVCStepQuiet ==
  ASSUME VcInv, QuietReset, NEW v \in Vcs, NSVCStep(v), ~Enable(v)
  PROVE  QuietReset'
<1>0. \A ps, pdus : RxTx(v, ps, pdus) => link[v] /\ link' = link
  BY AirStays
<1>1. /\ vc_state \in [Vcs -> States] /\ running \in [Vcs -> SUBSET Timers] /\ link \in [Vcs -> BOOLEAN]
  BY DEF VcInv, NSVCTypeOK
<1>2. running[v] \cap {"alive", "test"} = {} \/ (link[v] /\ vc_state[v] \notin {"DISABLED", "WAIT_RESET"})
  BY DEF QuietReset
<1>3. /\ \A u \in Vcs \ {v} : UNCHANGED <<vc_state[u], running[u], link[u]>>
      /\ ~link'[v] \/ vc_state'[v] \in {"DISABLED", "WAIT_RESET"} =>
            running'[v] \cap {"alive", "test"} = {}
  <2> USE DEF Becomes, Stays, SetTimers, Expire, Enabled, Blocked, Unblocked
  <2>1. CASE LinkUp(v)
    <3>1. running[v] \cap {"alive", "test"} = {} /\ link'[v]
      BY <1>1, <1>2, <2>1 DEF LinkUp, LinkEvent
    <3> QED  BY <1>1, <3>1, <2>1 DEF LinkUp, LinkEvent, AfterReset
  <2>2. CASE LinkDown(v)
    BY <1>1, <1>2, <2>2 DEF LinkDown, LinkEvent, StoppedByDown
  <2>3. CASE Disable(v)
    BY <1>1, <1>2, <2>3 DEF Disable, TakeRequest
  <2>4. CASE ResetTimeout(v)
    BY <1>1, <1>2, <2>4 DEF ResetTimeout, AfterReset
  <2>5. CASE AliveTimeout(v)
    BY <1>1, <1>2, <2>5 DEF AliveTimeout
  <2>6. CASE TestTimeout(v)
    BY <1>1, <1>2, <2>6 DEF TestTimeout
  <2>7. CASE RxResetAck(v) \/ RxReset(v) \/ RxUnblock(v) \/ RxBlock(v)
    BY <1>0, <1>1, <1>2, <2>7 DEF RxResetAck, RxReset, RxUnblock, RxBlock
  <2>8. CASE RxAliveAck(v)
    BY <1>0, <1>1, <1>2, <2>8 DEF RxAliveAck
  <2>9. CASE BlockTimeout(v)
    BY <1>1, <1>2, <2>9 DEF BlockTimeout, AfterBlockTimeout
  <2>10. CASE RxAlive(v) \/ RxBlockAgain(v) \/ RxUnblockAgain(v) \/ RxBlockAck(v) \/ RxOther(v)
    BY <1>0, <1>1, <1>2, <2>10 DEF Answer, RxAlive, RxBlockAgain, RxUnblockAgain, RxBlockAck, RxOther
  <2>11. CASE RxUnitdata(v) \/ TxUnitdata(v) \/ NotCarried(v) \/ Drop(v)
    BY <1>0, <1>1, <1>2, <2>11 DEF RxUnitdata, TxUnitdata, NotCarried, Drop, TakeRequest
  <2> QED
    BY <2>1, <2>2, <2>3, <2>4, <2>5, <2>6, <2>7, <2>8, <2>9, <2>10, <2>11 DEF NSVCStep
<1> QED  BY <1>3 DEF QuietReset

\* ... and brings none about.
LEMMA NSVCStepNoEnable ==
  ASSUME VcInv, NoEnable, NEW v \in Vcs, NSVCStep(v)
  PROVE  NoEnable' /\ ~Enable(v)
<1>1. spQ \in [Vcs -> Seq(Requests)]
  BY DEF VcInv, NSVCTypeOK
<1>2. spQ' = spQ \/ \E rs : TakeRequest(v, rs)
  BY AirStays DEF NSVCStep, LinkUp, LinkDown, LinkEvent, ResetTimeout, RxResetAck, RxReset, AliveTimeout,
     TestTimeout, RxAliveAck, RxAlive, RxBlockAgain, RxUnblockAgain, RxBlockAck, RxUnblock, RxBlock,
     BlockTimeout, RxUnitdata, TxUnitdata, NotCarried, RxOther, Disable, Enable, Drop, Answer, Expire
<1>3. ASSUME NEW rs, TakeRequest(v, rs)
      PROVE  NoEnable'
  <2>1. spQ[v] # <<>> /\ spQ' = [spQ EXCEPT ![v] = Tail(spQ[v])]
    BY <1>3 DEF TakeRequest
  <2>2. \A i \in DOMAIN Tail(spQ[v]) : i + 1 \in DOMAIN spQ[v] /\ Tail(spQ[v])[i] = spQ[v][i + 1]
    BY <1>1, <2>1
  <2> QED  BY <1>1, <2>1, <2>2 DEF NoEnable
<1>4. ~Enable(v)
  <2> SUFFICES ASSUME Enable(v)  PROVE FALSE
    OBVIOUS
  <2>1. spQ[v] # <<>> /\ Head(spQ[v]) = "ENABLE"
    BY DEF Enable, TakeRequest
  <2>2. 1 \in DOMAIN spQ[v] /\ spQ[v][1] = "ENABLE"
    BY <1>1, <2>1
  <2> QED  BY <2>2 DEF NoEnable
<1> QED  BY <1>2, <1>3, <1>4 DEF NoEnable

\* A request other than an enable request.
LEMMA PassOnNoEnable ==
  ASSUME VcInv, NoEnable, NEW v \in Vcs, NEW r, r # "ENABLE", PassOn(v, r)
  PROVE  NoEnable'
<1>1. spQ[v] \in Seq(Requests) /\ spQ' = [spQ EXCEPT ![v] = Append(spQ[v], r)]
  BY DEF VcInv, NSVCTypeOK, PassOn
<1>2. \A i \in DOMAIN Append(spQ[v], r) : Append(spQ[v], r)[i] # "ENABLE"
  BY <1>1 DEF NoEnable
<1> QED  BY <1>1, <1>2 DEF VcInv, NSVCTypeOK, NoEnable

\* Every step keeps it.
LEMMA StepReset == NSEInv /\ ResetInv /\ [Next]_vars => ResetInv'
<1> SUFFICES ASSUME NSEInv, ResetInv, [Next]_vars PROVE ResetInv'
  OBVIOUS
<1>1. ASSUME NEW v \in Vcs, NSVCStep(v), UNCHANGED nseVars
      PROVE  ResetInv'
  BY <1>1, NSVCStepQuiet, NSVCStepNoEnable DEF nseVars, surroundings, ResetInv, NSEInv
<1>2. ASSUME NEW ind, TakeIndication(ind)
      PROVE  ResetInv'
  BY <1>2 DEF TakeIndication, surroundings, ResetInv, QuietReset, NoEnable
<1>3. ASSUME NEW r, SendUnitdata(r) \/ SendUnitdataFails(r) \/ \E v \in Vcs : Control(v, r)
      PROVE  ResetInv'
  <2>1. Request(r)
    BY <1>3 DEF SendUnitdata, SendUnitdataFails, Control
  <2>2. enabling' = enabling /\ (QuietReset => QuietReset')
    BY <2>1 DEF Request, surroundings, QuietReset
  <2>3. ~enabling /\ NoEnable => NoEnable'
    <3>1. CASE SendUnitdata(r)
      BY <3>1, PassOnNoEnable DEF SendUnitdata, Unitdata, Candidates, NSEInv, TableInv
    <3>2. CASE SendUnitdataFails(r)
      BY <3>2 DEF SendUnitdataFails, NoEnable
    <3>3. CASE \E v \in Vcs : Control(v, r)
      BY <3>3, PassOnNoEnable DEF Control, NSEInv
    <3> QED  BY <1>3, <3>1, <3>2, <3>3
  <2> QED  BY <2>2, <2>3 DEF ResetInv
<1>4. CASE UNCHANGED vars
  BY <1>4 DEF vars, nsvcVars, nseVars, surroundings, ResetInv, QuietReset, NoEnable
<1> QED
  BY <1>1, <1>2, <1>3, <1>4 DEF Next, NSCT, StatusUnblocked, StatusDead, StatusOther, UnitdataUp

\* How a reset procedure ends.
LEMMA ResetLeft ==
  ASSUME NSEInv, ResetInv, [Next]_vars, NEW v \in Vcs, ~enabling,
         vc_state[v] = "WAIT_RESET", vc_state'[v] # "WAIT_RESET"
  PROVE  vc_state'[v] \in {"ALIVE_BLOCKED", "DISABLED"} \/ ~link'[v]
<1>1. vc_state \in [Vcs -> States] /\ link \in [Vcs -> BOOLEAN]
  BY DEF NSEInv, VcInv, NSVCTypeOK
<1>2. vc_state' # vc_state
  OBVIOUS
<1>3. PICK u \in Vcs : NSVCStep(u)
  BY <1>2 DEF Next, NSCT, StatusUnblocked, StatusDead, StatusOther, UnitdataUp, TakeIndication,
     SendUnitdata, SendUnitdataFails, Control, Request, vars, nsvcVars
<1>4. "alive" \notin running[v]
  BY DEF ResetInv, QuietReset
<1>5. CASE \/ RxResetAck(u) \/ RxReset(u) \/ RxBlock(u) \/ RxUnblock(u)
           \/ Enable(u) \/ AliveTimeout(u)
  BY <1>1, <1>4, <1>5 DEF RxResetAck, RxReset, RxBlock, RxUnblock, Enable, AliveTimeout, Expire,
     Becomes, Blocked, Unblocked, Enabled
<1>6. CASE LinkDown(u) \/ LinkUp(u) \/ Disable(u)
  BY <1>1, <1>6 DEF LinkDown, LinkUp, LinkEvent, Disable, Becomes, Stays
<1>7. CASE \/ ResetTimeout(u) \/ TestTimeout(u) \/ RxAliveAck(u) \/ BlockTimeout(u)
           \/ RxUnitdata(u) \/ TxUnitdata(u) \/ NotCarried(u) \/ Drop(u)
           \/ RxAlive(u) \/ RxBlockAgain(u) \/ RxUnblockAgain(u) \/ RxBlockAck(u) \/ RxOther(u)
  BY <1>2, <1>7 DEF ResetTimeout, TestTimeout, RxAliveAck, BlockTimeout, RxUnitdata, TxUnitdata,
     NotCarried, Drop, Answer, RxAlive, RxBlockAgain, RxUnblockAgain, RxBlockAck, RxOther, Stays
<1> QED  BY <1>3, <1>5, <1>6, <1>7 DEF NSVCStep

\* Unless the user enables an NS-VC, no leftover Tns-alive or Tns-test ends a reset
\* procedure.  (as_allstate)
THEOREM NSEResetNotAbandoned == Spec => ToldResetNotAbandoned
<1>1. Init => ResetInv
  BY DEF Init, NSVCInit, ResetInv, QuietReset, NoEnable
<1>2. NSEInv /\ ResetInv /\ [Next]_vars => ResetInv'
  BY StepReset
<1>3. NSEInv /\ ResetInv /\ [Next]_vars =>
        [\A v \in Vcs : ~enabling /\ vc_state[v] = "WAIT_RESET" /\ vc_state'[v] # "WAIT_RESET" =>
            vc_state'[v] \in {"ALIVE_BLOCKED", "DISABLED"} \/ ~link'[v]]_vars
  BY ResetLeft
<1> QED  BY <1>1, <1>2, <1>3, NSEInvariant, PTL DEF Spec, ToldResetNotAbandoned

=============================================================================
