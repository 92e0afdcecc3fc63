------------------------------- MODULE NSLink -------------------------------
(***************************************************************************)
(* Two NS-VCs of NSVC back to back, one in each role of NS_Emulation: the  *)
(* BSS side resets and unblocks the NS-VC, the SGSN side follows.  The     *)
(* path between them keeps the order of PDUs and may lose some of the      *)
(* reset and unblock procedures; timers repeat what was lost.              *)
(*                                                                         *)
(* NS-ALIVE and its answer are neither lost nor slower than Tns-alive, and *)
(* no link fails: the NS-VCs have no way back from DEAD_BLOCKED in which   *)
(* they do not wait for the provider or for a reset of the peer.           *)
(***************************************************************************)
EXTENDS NSVC

CONSTANTS Bss, Sgsn,   \* the two ends
          Lossy,       \* PDUs that may be lost
          MaxLosses    \* bound: how many are

ASSUME EndsAssumption ==
    /\ Bss # Sgsn
    /\ Vcs = {Bss, Sgsn} /\ Linked = Vcs
    /\ SgsnVcs = {Sgsn}
    /\ Lossy \subseteq Pdus
    /\ MaxLosses \in Nat

VARIABLE losses   \* how many PDUs were lost

vars == <<nsvcVars, losses>>

Init == NSVCInit /\ losses = 0

\* The path loses the oldest PDU under way to v.
Lose(v) ==
    /\ losses < MaxLosses
    /\ air[v] # <<>>
    /\ Head(air[v]) \in Lossy
    /\ air' = [air EXCEPT ![v] = Tail(@)]
    /\ losses' = losses + 1
    /\ UNCHANGED <<vc_state, running, link, spQ, upQ, alive>>

Receive(v) ==
    \/ RxReset(v) \/ RxResetAck(v) \/ RxAlive(v) \/ RxAliveAck(v)
    \/ RxUnblock(v) \/ RxUnblockAgain(v) \/ RxOther(v)

\* Tns-reset and Tns-block may expire while the answer is under way; an NS-VC
\* only sends another NS-ALIVE on a path that has become idle.
Timeout(v) ==
    \/ ResetTimeout(v)
    \/ BlockTimeout(v)
    \/ (\A u \in Vcs : air[u] = <<>>) /\ TestTimeout(v)

Next ==
    \E v \in Vcs :
        \/ (LinkUp(v) \/ Receive(v) \/ Timeout(v)) /\ UNCHANGED losses
        \/ Lose(v)

Spec == Init /\ [][Next]_vars

\* Providers come up, what arrives is handled and the timers that repeat a PDU
\* expire.  (Nothing rests on Tns-test.)
FairSpec ==
    /\ Spec
    /\ \A v \in Vcs :
          /\ WF_nsvcVars(LinkUp(v))
          /\ WF_nsvcVars(Receive(v))
          /\ WF_nsvcVars(ResetTimeout(v))
          /\ WF_nsvcVars(BlockTimeout(v))

-----------------------------------------------------------------------------

\* The BSS side only considers the NS-VC unblocked when the SGSN side does,
\* however often resets and unblocks were repeated: a late duplicate of NS-RESET
\* never blocks the NS-VC behind the back of the BSS side.
UnblockedTogether == Unblocked(Bss) => Unblocked(Sgsn)

\* Both sides end up ALIVE_UNBLOCKED, for good, in spite of the losses.
Converges == <>[](Unblocked(Bss) /\ Unblocked(Sgsn))
=============================================================================
