-------------------------------- MODULE NSE ---------------------------------
(***************************************************************************)
(* One NS entity of library/NS_Emulation.ttcnpp: the NS-VCs of NSVC, the   *)
(* component NS_CT that keeps a table of their states and the lists of     *)
(* unblocked ones, and a user that sends NS-UNITDATA requests and, through *)
(* NS_CTRL, disables and enables NS-VCs.                                   *)
(*                                                                         *)
(* NS_CT learns the state of an NS-VC from the indications in its NSVC     *)
(* port, so its table lags behind; the user learns the state of the entity *)
(* from the indications that NS_CT marks as the first or the last.         *)
(*                                                                         *)
(* Far ends that are not disruptive neither block nor reset an NS-VC that  *)
(* is unblocked, and a user that does not enable has no NS-VC enabled.     *)
(***************************************************************************)
EXTENDS NSVC

CONSTANTS UserRequests,  \* what the user does: a subset of Requests
          MaxRequests    \* bound: requests under way to one NS-VC

ASSUME UserAssumption == UserRequests \subseteq Requests /\ MaxRequests \in Nat
ASSUME FarEndsAssumption == Linked = {}

VARIABLES
    g_nsvcs,     \* g_nsvcs[v]: the state of v as NS_CT knows it
    g_unblocked_nsvcs_sig,
    g_unblocked_nsvcs_data,
    userUp,      \* the last first_or_last indication the user got was UNBLOCKED
    nsct,        \* "running", or "error" after a dynamic testcase error
    disruptive,  \* the far ends are disruptive; never changes
    enabling     \* the user may enable NS-VCs; never changes

surroundings == <<disruptive, enabling>>
nseVars == <<g_nsvcs, g_unblocked_nsvcs_sig, g_unblocked_nsvcs_data, userUp,
             nsct, surroundings>>
vars == <<nsvcVars, nseVars>>

Init ==
    /\ NSVCInit
    /\ g_nsvcs = [v \in Vcs |-> "DEAD_BLOCKED"]
    /\ g_unblocked_nsvcs_sig = {}
    /\ g_unblocked_nsvcs_data = {}
    /\ userUp = FALSE
    /\ nsct = "running"
    /\ disruptive \in BOOLEAN /\ enabling \in BOOLEAN

-----------------------------------------------------------------------------
(* Indications from the NS-VCs: as_ns_common_status, as_ns_common. *)

\* f_count_nsvcs_in_state
UnblockedIn(table) == {v \in Vcs : table[v] = "ALIVE_UNBLOCKED"}

ListAfter_NeverRemoved(list, carriers, v, new) ==
    IF new = "ALIVE_UNBLOCKED" THEN list \cup ({v} \cap carriers) ELSE list

\* What f_nsvc_update_state makes of one of the lists; entries are unique, and
\* their order is only used to spread the load.
ListAfter(list, carriers, v, new) ==
    IF g_nsvcs[v] # "ALIVE_UNBLOCKED" /\ new = "ALIVE_UNBLOCKED"
    THEN list \cup ({v} \cap carriers)
    ELSE IF g_nsvcs[v] = "ALIVE_UNBLOCKED" /\ new # "ALIVE_UNBLOCKED"
    THEN list \ {v}
    ELSE list

UpdateState(v, new) ==
    /\ g_nsvcs' = [g_nsvcs EXCEPT ![v] = new]
    /\ g_unblocked_nsvcs_sig' = ListAfter(g_unblocked_nsvcs_sig, SigVcs, v, new)
    /\ g_unblocked_nsvcs_data' = ListAfter(g_unblocked_nsvcs_data, DataVcs, v, new)

TakeIndication(ind) ==
    /\ alive
    /\ nsct = "running"
    /\ upQ # <<>>
    /\ ind = Head(upQ)
    /\ upQ' = Tail(upQ)
    /\ UNCHANGED <<vc_state, running, link, spQ, air, alive, nsct, surroundings>>

FirstUnblocked_CountedAfter == UnblockedIn(g_nsvcs') = {}
FirstUnblocked == UnblockedIn(g_nsvcs) = {}

\* "check if this one is the first to be unblocked": counted before the update
StatusUnblocked(ind) ==
    /\ TakeIndication(ind)
    /\ ind.ind = "STATUS" /\ ind.new = "ALIVE_UNBLOCKED"
    /\ UpdateState(ind.vc, ind.new)
    /\ userUp' = IF FirstUnblocked THEN TRUE ELSE userUp

LastBlocked_CountedBefore == UnblockedIn(g_nsvcs) = {}
LastBlocked == UnblockedIn(g_nsvcs') = {}

\* "check if this one is the last to be blocked": counted after the update
StatusDead(ind) ==
    /\ TakeIndication(ind)
    /\ ind.ind = "STATUS" /\ ind.new = "DEAD_BLOCKED"
    /\ UpdateState(ind.vc, ind.new)
    /\ userUp' = IF LastBlocked THEN FALSE ELSE userUp

\* Other states are passed on as they are, never as the first or the last.
StatusOther(ind) ==
    /\ TakeIndication(ind)
    /\ ind.ind = "STATUS" /\ ind.new \notin {"ALIVE_UNBLOCKED", "DEAD_BLOCKED"}
    /\ UpdateState(ind.vc, ind.new)
    /\ UNCHANGED userUp

\* NS-UNITDATA.ind for the user
UnitdataUp(ind) ==
    /\ TakeIndication(ind)
    /\ ind.ind = "UD"
    /\ UNCHANGED <<g_nsvcs, g_unblocked_nsvcs_sig, g_unblocked_nsvcs_data, userUp>>

-----------------------------------------------------------------------------
(* Requests from the user. *)

Request(r) ==
    /\ alive
    /\ nsct = "running"
    /\ r \in UserRequests
    /\ UNCHANGED <<vc_state, running, link, upQ, air, alive, g_nsvcs,
                   g_unblocked_nsvcs_sig, g_unblocked_nsvcs_data, userUp, surroundings>>

PassOn(v, r) ==
    /\ Len(spQ[v]) < MaxRequests
    /\ spQ' = [spQ EXCEPT ![v] = Append(@, r)]

\* NsDisableVcRequest, NsEnableVcRequest
Control(v, r) ==
    /\ r \in {"DISABLE"} \cup (IF enabling THEN {"ENABLE"} ELSE {})
    /\ Request(r)
    /\ PassOn(v, r)
    /\ UNCHANGED nsct

Candidates(r) ==
    IF r = "UD_SIG" THEN g_unblocked_nsvcs_sig ELSE g_unblocked_nsvcs_data

\* The "load distribution function": any lsp, so any of the candidates.
SendUnitdata(r) ==
    /\ userUp
    /\ r \in Unitdata
    /\ Request(r)
    /\ \E v \in Candidates(r) : PassOn(v, r)
    /\ UNCHANGED nsct

\* lsp mod lengthof({}) is a dynamic testcase error.
SendUnitdataFails(r) ==
    /\ userUp
    /\ r \in Unitdata
    /\ Request(r)
    /\ Candidates(r) = {}
    /\ nsct' = "error"
    /\ UNCHANGED spQ

-----------------------------------------------------------------------------

NSCT ==
    \/ upQ # <<>> /\ LET ind == Head(upQ) IN
         StatusUnblocked(ind) \/ StatusDead(ind) \/ StatusOther(ind) \/ UnitdataUp(ind)
    \/ \E r \in UserRequests :
         SendUnitdata(r) \/ SendUnitdataFails(r) \/ \E v \in Vcs : Control(v, r)

\* The far end of v blocks or resets it.
Disrupted(v) == Unblocked(v) /\ Blocked(v)'

Next ==
    \/ \E v \in Vcs : /\ NSVCStep(v) /\ UNCHANGED nseVars
                      /\ Disrupted(v) => disruptive
    \/ NSCT

Spec == Init /\ [][Next]_vars

HandleRequest(v) ==
    (TxUnitdata(v) \/ Disable(v) \/ Enable(v) \/ Drop(v)) /\ UNCHANGED nseVars

\* NS_CT keeps up with the indications, and an NS-VC handles the request at the
\* head of NS_SP whenever it has an alternative for it: the bound MaxUp may
\* disable that alternative for a while, which is no reason never to take it.
\* Nothing is assumed of the far ends, the links and the user.
FairSpec ==
    /\ Spec
    /\ []<>(upQ = <<>>)
    /\ \A v \in Vcs : SF_vars(HandleRequest(v))

-----------------------------------------------------------------------------

TypeOK ==
    /\ NSVCTypeOK
    /\ g_nsvcs \in [Vcs -> States]
    /\ g_unblocked_nsvcs_sig \subseteq Vcs
    /\ g_unblocked_nsvcs_data \subseteq Vcs
    /\ userUp \in BOOLEAN
    /\ nsct \in {"running", "error"}
    /\ disruptive \in BOOLEAN /\ enabling \in BOOLEAN

\* The lists used to distribute load hold exactly the NS-VCs that the table
\* shows as unblocked and that may carry that kind of traffic.
ListsMatchTable ==
    /\ g_unblocked_nsvcs_sig = UnblockedIn(g_nsvcs) \cap SigVcs
    /\ g_unblocked_nsvcs_data = UnblockedIn(g_nsvcs) \cap DataVcs

IsReport(ind, v) == ind.ind = "STATUS" /\ ind.vc = v

\* An entry of v that holds from holds to once the indications in q are read.
ReadsAs(q, v, from, to) ==
    \/ from = to /\ \A i \in DOMAIN q : ~IsReport(q[i], v)
    \/ \E i \in DOMAIN q :
          /\ IsReport(q[i], v) /\ q[i].new = to
          /\ \A j \in DOMAIN q : j > i => ~IsReport(q[j], v)

\* f_sendReset does not inform NS_CT of WAIT_RESET.
Shown(v) == IF vc_state[v] = "WAIT_RESET" THEN "DEAD_BLOCKED" ELSE vc_state[v]

\* The table of NS_CT catches up with the NS-VCs: once it has read what is under
\* way, it shows the state of each, or DEAD_BLOCKED during a reset procedure.
TableCatchesUp == \A v \in Vcs : ReadsAs(upQ, v, g_nsvcs[v], Shown(v))

\* "check if this one is the last to be blocked": once no NS-VC is unblocked the
\* user has been told that the last one is gone.
UserKnowsLast == userUp => UnblockedIn(g_nsvcs) # {}

\* As far as the code keeps it: when the NS-VCs are lost by timeouts, their links
\* or the user, and not because far ends block or reset them.
ToldUserKnowsLast == ~disruptive => UserKnowsLast

\* The user learns of the first unblocked NS-VC at once.
UserKnowsFirst == UnblockedIn(g_nsvcs) # {} => userUp

\* A leftover Tns-alive or Tns-test never ends a reset procedure: WAIT_RESET is
\* left for an acknowledgement or a reset of the peer, the loss of the link or
\* a disable request only.  An enable request restarts Tns-test and spoils it.
ToldResetNotAbandoned ==
    [][\A v \in Vcs : ~enabling /\ vc_state[v] = "WAIT_RESET" /\ vc_state'[v] # "WAIT_RESET" =>
          vc_state'[v] \in {"ALIVE_BLOCKED", "DISABLED"} \/ ~link'[v]]_vars

\* An NS-VC that was asked to becomes disabled ("Wait until gbproxy notices that
\* the NSVCs are down", gbproxy/GBProxy_Tests.ttcn).
DisableTakesEffect ==
    \A v \in Vcs : (\E i \in DOMAIN spQ[v] : spQ[v][i] = "DISABLE")
                       ~> vc_state[v] = "DISABLED" \/ ~alive
=============================================================================
