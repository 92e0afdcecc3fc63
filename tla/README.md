# TLA+ models of osmo-ttcn3-hacks

The repository holds TTCN-3 test suites for cellular network elements and the
library they share (`src/library`, `src/<suite>`).  A testcase talks to the
implementation under test (IUT) through *emulations*: components of their own
that speak one protocol, keep tables, run timers and hand each message to the
parallel component that plays one subscriber, channel or session.  The
emulations run concurrently with their users; a testcase that trips over a race
inside one of them fails although the IUT is fine.  They are the core of the
repository's own logic and one subject of this project.  The other is the code in
C and C++ that a test calls and that has no other judge than the IUT: manual
codecs, the authentication of a UE, and the client side of an SM-DP+.

Contents: inventory, conventions, one section per modelled subsystem
(correspondence, runs, properties, proofs), what is not modelled, findings.

## Inventory

### Components

| Component (source) | State | Operations | Modules |
| --- | --- | --- | --- |
| Mutex (`library/Mutex.ttcn`) | `locked`, `g_mutex_ref`; `g_mutex_ref` of every client | lock (blocking call with timeout), unlock (non-blocking call), shutdown | `Mutex` |
| NS-VC (`library/NS_Emulation.ttcnpp`, `NSVC_CT`) | `vc_state`, timers Tns-alive, Tns-test, Tns-block, Tns-reset, provider link | reset, block/unblock and alive procedures, NS-UNITDATA, disable/enable, link up/down | `NSVC`, `NSLink` |
| NS entity (same file, `NS_CT`) | `g_nsvcs`, `g_unblocked_nsvcs_sig/_data` | status indications, first/last notification, load distribution, disable/enable, IP SNS | `NSE` |
| GSUP emulation (`library/GSUP_Emulation.ttcn`) | `GsupImsiTable`, `GsupExpectTable` | routing by IMSI, expect, unexpect, unregister, change of ConnHdlr | `GSUP`, `Router` |
| PFCP emulation (`library/PFCP_Emulation.ttcn`) with its users in `s1gw` and `hnbgw` | lists by sequence number, SEID and broadcast, next sequence number; per ConnHdlr its sessions | subscribe and unsubscribe, route, broadcast, forward, answer heartbeats; association, session establishment, modification, deletion | `PFCP`, `PFCPSessions` |
| Manual codecs (`RLCMAC_EncDec.cc`, `IuUP_EncDec.cc`, `BSSGP_Helper.cc`, `MNCC_EncDec.cc`) | version of the MNCC socket | encode, decode, checksums, length conversion | `RLCMAC`, `IuUP`, `BSSGPHelper`, `MNCC`, `Codecs` |
| MILENAGE and key derivation (`milenage.c`, `lte_crypto`, `ng_crypto`), 5G UE (`5gc/ConnHdlr.ttcn`) | the UE's challenge, resynchronisation allowed | check of AUTN, AUTS, f1..f5, derived keys; registration | `Milenage`, `KeyDerivation`, `AKA` |
| SM-DP+ client (`smdpp/*.cc`, `smdpp_Tests.ttcn`) | registry of clients, certificates, one-time keys, session and profile protection keys | load certificates, TLS and signature checks, PrepareDownload, package protection and processing | `Certificates`, `RSPClient`, `BSP`, `SMDPP` |
| NS providers (`NS_Provider_IPL4`, `NS_Provider_FR`) | `g_nsvc[16]`; `link_available`, `pvc_active` | add/delete an NS-VC, link events, PDUs by socket or DLCI | - |
| BSSGP (`BSSGP_Emulation.ttcnpp`) | BVC states, T1/T2, client table (64), N(U) | BVC reset, block, unblock, flow control, routing by TLLI/IMSI/BVCI | - |
| RAN (`RAN_Emulation.ttcnpp`) | connection, expect, IMSI, CTRL tables (16 each), N(SD) | connect, data, disconnect, expects, reset, MGCP routing by CIC and transaction | - |
| RSL (`RSL_Emulation.ttcn`) | connection, last-activation (64), TRX map, wait queue, suspension | channel activation, routing by TRX and channel, suspend/resume, register/unregister | `RSL`, `RSLBsc`, `RSLBts` |
| S1AP, NGAP (`S1AP_Emulation.ttcn`, `NGAP_Emulation.ttcn`) | association tables by MME/AMF and eNB/gNB UE id, NAS security state | routing, learning of ids, NAS protection, release | - |
| S1GW UE mux (`s1gw/S1GW_UEMux.ttcn`) | table of subscribed UEs | subscribe, route, E-RAB procedures over REST | - |
| IPA (`IPA_Emulation.ttcnpp`) | mode, connection, CCM state | CCM identity exchange, ping, multiplexing of protocols | - |
| GTPv2, GTPv1 | tables by TEID, IMSI and sequence number | subscribe, route | - |
| MNCC, SGsAP, SMPP, SIP, BSSAP-LE, DIAMETER, MGCP | connection and expect tables | the scheme of the GSUP emulation under other keys | - |
| Iuh, IuUP, RTP, OSMUX, LAPDm | transport and media state, periodic timers | transport, media | - |
| SIMtrace, mDNS, HTTP, StatsD, CTRL, VTY | one request at a time | request/response helpers | - |
| PCU suite (`pcu/PCUIF_Components`, `GPRS_Components`, `GPRS_TBF`) | burst queue, clock, TBF blocks | RTS scheduling, block bookkeeping | - |
| Suites' ConnHdlrs and testcases | one subscriber, session or scenario | sequential scripts | environment of the models |
| Codec ports, templates, ASN.1, SNOW 3G, test environment, scripts | - | - | - |

`PROJECT.json` lists every component with its sources and the reason where it is
not modelled.

### Interactions

* **Messages**: a port is a FIFO queue per component; senders never block.  An
  `alt` looks at the ports in the order of its alternatives, but a message
  may still be under way, so an earlier alternative on another port or a timeout
  has no priority over it.
* **Procedure ports**: `call` with or without `nowait`, `getcall` and `reply`.
  The dispatchers of the emulations serve the calls of their ConnHdlrs between
  messages; only some of the calls have a timeout.
* **Ends**: `setverdict(fail)` with `mtc.stop`, `testcase.stop`, or a dynamic
  testcase error (send to a component that ended, index out of range) end the
  run.  A component may also simply end while others still address it.
* **Calls**: codecs, MILENAGE and the SM-DP+ client are external functions; a call
  returns before its caller goes on, what it throws ends the testcase.
* **Layers**: provider - NS-VC - NS entity - BSSGP - ConnHdlr on Gb;
  IPA - GSUP/RSL/SCCP - ConnHdlr elsewhere; the mutex beside PFCP and MGCP.

### What is hard, and what makes each component correct

| Component | Hard | Correct when |
| --- | --- | --- |
| Mutex | asynchronous unlock, call timeout, repeated unlock, shutdown under a holder | one holder; a stale reference releases nothing; every lock returns |
| NS-VC | timers racing late answers, repeated and crossed procedures, link failure in any state, ignored PDUs | both ends agree; some timer supervises every state that needs one; procedures are not abandoned |
| NS entity | its table lags behind the NS-VCs; first/last decided from the table | lists and table agree, the table catches up, the user knows whether an NS-VC is usable |
| GSUP and similar routers | takeover, release and expect racing PDUs; ended handlers; full tables | a PDU reaches the handler responsible when it is handled; nothing left behind; calls return |
| RAN | slots reused with fields of the old connection; crossing disconnects; N(SD) over takeovers | no PDU or MGCP command reaches a connection that does not own it; slots return |
| RSL | suspension blocks the head of a FIFO; registration after the first message; stale tables; links lost | queued messages reach their handler; a channel's messages reach its user; the TRX map follows the links |
| S1AP, NGAP, UE mux | ids learnt on the way, entries reused | no state of an earlier UE; no PDU to another UE |
| BSSGP | start while NS is already up; crossed procedures; calls without an answer | BVCs come up; both ends agree; calls return |
| PFCP | the establishment requests of all ConnHdlrs carry SEID 0; subscriptions, PDUs and the mutex take three different ways | a PDU reaches the ConnHdlr of its session, every ConnHdlr gets what it waits for |
| Codecs | header bits that do not end at an octet, lengths at their limits, fields that do not fit | what was sent is what is received, damage is noticed |
| Authentication | order of the checks of AUTN, resynchronisation, one secret behind many keys | both ends get the same keys, different ones for different purposes; a registration ends |
| SM-DP+ client | a dozen checks over certificates, nonces, transactions and keys in three tests; chained MACs, a change of keys in mid-package | only the right server's package is accepted, an honest one always |
| GTP | sequence number collisions, foreign deletion | responses reach the requester |

The hazards of `PROJECT.json` place these at lines of the source and name the
properties that cover them.

## Conventions of the modules

* One action per alternative, handler or call; names follow the source
  (`vc_state`, `g_unblocked_nsvcs_sig`, `GsupImsiTable`).  Helpers that change
  state are part of the action that calls them.
* Messages are reduced to what the properties tell apart.  Logging, verdict texts and
  encodings are left out.
* Constants carry named assumptions; bounds start with `Max` and are marked
  `bound:` where they are declared.  A bound only stops the environment (another
  request, PDU or loss) or a queue from growing, never a reaction.
* `X_Mistake`, or `X_` with what goes wrong, before `X` is `X` as a plausible slip would have it.  No
  specification uses it; each property is listed with one that breaks it.
* A run asks all that is to be asked of one subsystem, safety and liveness
  together.  Where some properties hold in a restricted environment only, a variable
  that never changes says which environment it is (`wild` of `GSUP`, `disruptive` and
  `enabling` of `NSE`, `testcase` of `RSLBsc`, and `suite`, `scenario` of MC modules); the property says
  which it is about.
* `MCxxx` modules add what a configuration needs (scenarios, the far-end
  function); `xxxProofs` hold the theorems.
* `CHECK_DEADLOCK FALSE` appears where the modelled run may end (testcase ended
  or stopped, handlers gone, bounds used up): quiescence is then legal.
* `RECURSIVE` appears in `BSSGPHelper` only; nothing is proved about the codecs.
* The type invariants of `Mutex`, `NSE`, `NSLink`, `GSUP`, `BSP`, `AKA`, `RSLBts` and `RSLBsc` are
  proved for every instance (`BspTypes` in `SMDPPProofs`, `LinkTypes` in `NSLinkProofs`, `Types`
  in `RSLBtsProofs` and, with `QueueTypes`, in `RSLBscProofs`).  The runs spend their properties
  on behaviour.

## Mutex and PFCP (`Mutex`, `PFCP`, `PFCPSessions`, `MCMutex`, `MutexProofs`)

`Mutex`: the dispatcher `f_MutexDisp_main` is `Grant` (guarded `getcall` of
`MUTEX_LOCK`: new reference, reply), `Release`, `RejectNotLocked` and `RejectOtherRef`
(the branches of `MUTEX_UNLOCK`; the rejections call `f_shutdown`).  A client
calls (`CallLock`), gets its reply or times out (`LockTimeout`, then
`f_shutdown`), unlocks without waiting (`CallUnlock`) and may be aborted in its
critical section.  `f_shutdown` asks the main component to stop; other
components go on until `StopTestcase`.  A client may be *careless*: it repeats
an unlock with the reference it still has.

`PFCP` is the dispatcher of `PFCP_Emulation.ttcn`: its three lists, one action per
alternative of `main`, and what a ConnHdlr does at its ports.  It can tell the
ConnHdlrs apart by the SEID or the sequence number of a PDU, but a Session
Establishment Request has neither that it knows.  So the testcases subscribe to SEID 0
under the mutex, and `PFCPSessions` composes the two dispatchers with those who rely on
them: the association (`f_ConnHdlr_pfcp_assoc_setup`), the ConnHdlrs of `s1gw` (several
E-RABs, SEID 0 given back after the last response) and of `hnbgw` (one session, SEID 0
and the mutex given back before the response), `TC_pfcp_heartbeat`, and the system under
test, which sends its requests in order and does not wait for answers.  `stage` says
between which statements a ConnHdlr is; a PDU names its `owner`, which no dispatcher
sees, for the properties.

| Run | Shows |
| --- | --- |
| `mutex` | `suite = "none"`: three clients, one of them careless, two rounds each, timeouts and shutdowns in between: never two inside, a disciplined client's unlock is never rejected, every lock returns or the testcase stops.  The other suites: a PDU only ever reaches the ConnHdlr of its session or request (`EachToItsOwn`), and while no timer expires every ConnHdlr gets what it waits for, each subscription, and ends (`SessionsComplete`) |

Bounds: three clients let one hold, one wait and one release; two
rounds let a stale reference meet a later holder.  Two ConnHdlrs with two sessions each are the least
where an early unlock or a subscription that stays behind can hit another one; one heartbeat of the system
under test among their PDUs; in `hnbgw` with timers one repeated request.  Sequence numbers of
the dispatcher and of the system under test do not meet: the former start at a
multiple of 10000, and a testcase has few PDUs.  A PDU for a ConnHdlr that has
ended (a repeated deletion) stays in its port; in TTCN-3 sending it would end the testcase.

An establishment request that is *repeated* (`RepeatsEstablishment`) is beyond what the
mutex can protect: its answer may not have reached the system under test when another
ConnHdlr subscribes to SEID 0, and with the constant TRUE TLC finds `EachToItsOwn`
violated in `hnbgw`, where `ConnHdlr.ttcn:840` says that "at this point we no longer
expect to receive" such requests (and in `s1gw`, when `MCInit` lets requests be repeated
there).  The run leaves that case out.  Repeated modifications and deletions are
in it: at worst they end the testcase (`Amiss`).

Fairness: weak for the dispatcher's and the clients' steps that need nobody
else, and for the stop of the testcase: TTCN-3 components are scheduled independently and a
running `alt` takes an alternative that stays possible.  With PFCP a run is finite, so
it is enough that something happens while anybody but a timer can do something.

Proved for any set of clients, careless or not: `MutexExclusion`,
`MutexHolder`, `MutexFreshReference`, `MutexDiscipline`, `MutexTypes`.  The inductive invariant
`MutexInv` says that references held, granted or queued for release never exceed
the counter, that at most one client or message carries the current
reference while locked, and that none does while the mutex is free: mutual
exclusion alone is not inductive, as it says nothing of replies and releases
under way.  `MutexDiscipline` (the rejecting alternatives never take an unlock of a
client that pairs them with locks) needs more: no two clients have the same reference
(`DistinctRefs`), and an unlock under way with the reference of such a client is the
only one and current (`PairedUnlocks`), so that no careless client can have sent it.

Proved of `PFCPSessions` (`SessionsSpec`, of which `MCInit` restricts the initial states), for
any number of ConnHdlrs, sessions and requests: `SessionsExclusion` and `SessionsDiscipline`,
whatever is repeated, and `PfcpEachToItsOwn` under `~RepeatsEstablishment`.  The inductive
invariant `SessionsInv` says, in this order:

* who is between the lock and the unlock of the mutex holds the current reference and no unlock
  with it is under way (`Region`), so that by `MutexInv` no other one is;
* each ConnHdlr has at most one call at the dispatcher and waits for its reply where it made it,
  and whoever is listed for SEID 0, or asks to be, is between lock and unlock and will
  unsubscribe before it unlocks, as the unsubscription is answered first (`CallsInv`); so one
  ConnHdlr at most is listed for it;
* an establishment request that is still to be routed is for a ConnHdlr that waits for it: the
  system under test sends one per session, and the loop over the E-RABs does not end before
  each was answered (`EstInv`).  This is where a repeated one would break the proof, as it
  breaks the property;
* the numbers the dispatcher gave to the heartbeat requests that are listed or under way are
  distinct although they wrap around (`Recent`: since the oldest in use it has handed out fewer
  than there are ConnHdlrs that have sent theirs), and a PDU under such a number is for the one
  listed for it (`Listing`);
* what is queued at a ConnHdlr is for it (`Addressed`), and the PDU it is about to answer is
  still the first (`Heads`).

`SessionsAssumption` asks for that: SEIDs of the ConnHdlrs that are neither 0 nor one
another's (a random prefix and the UE's number, or 1000 and more), and no more ConnHdlrs than
there are sequence numbers.  `LockReturns` and `SessionsComplete` are only model-checked.

## Network Service (`NSVC`, `NSE`, `NSLink`, `MCNSE`, `MCNSLink`, `NSEProofs`, `NSLinkProofs`)

`NSVC` is the component `NSVC_CT` for a set of NS-VCs: `f_ScanEvents` with its
altsteps by state, one action per alternative, the four timers as a set
`running`, its indications to `NS_CT` in `upQ`, requests from it in `spQ`.
`[T.running] T.timeout` is read as "T was started".  Far ends come in
two kinds: a *free* one sends any PDU of `FreePdus` at any time; a *linked* one
is another NS-VC of the model, its PDUs kept in `air`.

`NSE` adds `NS_CT` (`g_nsvcs`, the two load-distribution lists, the decision on
`first_or_last`) and a user that sends signalling or user data and disables or
enables NS-VCs.  `lsp mod lengthof(list)` is any member of the list, and an
error for an empty list.  `disruptive` says whether far ends may block or reset an
NS-VC that is unblocked, `enabling` whether the user may enable; both are chosen at the
start.  `NSLink` puts a BSS and an SGSN side back to back over a
path that keeps order and loses PDUs of the reset and unblock procedures.

| Run | Shows |
| --- | --- |
| `nse` | two NS-VCs of the BSS side with different weights, chaotic far ends and links, a user that does everything: lists match the table, the table catches up with the NS-VCs, an alive or resetting NS-VC is supervised by a timer, the user learns of the first unblocked one.  Unless far ends are `disruptive` the user also learns when the last one is gone (`ToldUserKnowsLast`); unless the user is `enabling` a reset procedure is never abandoned (`ToldResetNotAbandoned`) |
| `nse_blocked` | finding: the far end blocks the last one and the user is not told |
| `nse_disable` | finding: a disable request stuck behind user data |
| `ns_link` | both ends become and stay unblocked in spite of any three losses, the BSS side never before the SGSN side |

Bounds: two NS-VCs are the least with a first and a last that differ, and with
different weights; `MaxUp = 2` lets the table of `NS_CT` lag by two
indications, `MaxRequests = 1` lets a request wait while the NS-VC changes
state.  In `NSLink` three losses hit each of the procedure's messages and their
repetitions in any combination; the path holds 8 PDUs, more than the two
sides ever have under way there.

Fairness: `NSE!FairSpec` assumes that `NS_CT` reads its indications and that an
NS-VC takes a request it has an alternative for (strong, only because `MaxUp`
may disable the step for a while); nothing about far ends or the user.
`NSLink!FairSpec` assumes that providers come up, that what
arrives is handled and that Tns-reset and Tns-block expire; NS-ALIVE is assumed
neither lost nor late: an NS-VC in DEAD_BLOCKED waits for its provider or
a reset of the peer, so convergence would not hold otherwise.

Proved for any NS-VCs, roles, weights and bounds, with free far ends:
`NSETable`, `NSELists`, `NSEUserKnowsFirst`, `NSEUserKnowsLast`, `NSESupervised`,
`NSEResetNotAbandoned`, `NSETypes`.  `NSEInv` joins the types and supervision of
the NS-VCs, "no service without a link", the lists and `TableCatchesUp`, which is the
heart of it: for each NS-VC the table together with the *last* of its
indications still in the queue shows its present state.  Each action
of `NSVC` appends at most a few indications, so its preservation is a
lemma on appending and one on taking the head.  `NSVC` hides one state from
`NS_CT`: `f_sendReset` enters WAIT_RESET without an indication
(`Shown`).

`NSEUserKnowsLast` adds `LossReported` to `NSEInv`: without disruptive far ends the
report that follows one of ALIVE_UNBLOCKED, in the table or in the queue, is
DEAD_BLOCKED, whose alternative of `as_ns_common_status` does recognise the last NS-VC.
Blocking and resets are just what breaks it (finding `nse_blocked`).
`NSEResetNotAbandoned` adds `ResetInv`: while nobody enables, neither Tns-alive nor
Tns-test runs in WAIT_RESET, DISABLED or without a link, so no leftover of them can end
the reset procedure; an enable request starts Tns-test before the reset.

`LinkUnblockedTogether` is proved for `NSLink` with any weights, losses and bounds.
`UnblockedTogether` relates two ends that see each other's past only; `LinkInv` says what
is under way: no NS-RESET behind an NS-UNBLOCK on the way to the SGSN (the path keeps the
order and the BSS side leaves the reset procedure for good), and whenever the BSS side is unblocked
or an NS-UNBLOCK-ACK is on its way to it, the SGSN side is unblocked and nothing that
would block it is left in the path.  It covers repetitions of NS-RESET by Tns-reset whose
answers cross.

## GSUP (`GSUP`, `Router`, `GSUPProofs`)

`Router` is the promise, with no table: each key has at most one owner and a
number of registered expectations per handler; a PDU goes to the owner, or to a handler that
expects it, which becomes the owner and uses up one expectation; calls change
owners and expectations; the end is final.

`GSUP` is the code: two tables of records with first-free insertion and
first-match lookup, the loop of `main`, its four procedures, and ConnHdlrs.
An IMSI in `wild`, some subset of the constant `Wild` chosen at the start, sees any
call of any ConnHdlr at any time; the others are used
as the hlr and msc testcases do: register an expect, trigger the IUT,
read, hand over or release, end.  A failure (`mtc.stop`, a dynamic error) sets
`outcome`.  PDUs from a ConnHdlr to the socket pass through without touching
any state and are left out.

| Run | Shows |
| --- | --- |
| `gsup` | any calls on a wild IMSI beside an IMSI used with discipline, expects that exceed the slots: one entry per IMSI, `Routing` (the tables implement `Router`), PDUs of the disciplined IMSI reach its user, calls, which have no timeout, return.  With `wild = {}`, all IMSIs used with discipline and a slot for each, the testcase is never ended (`UsedNeverFails`) |

Refinement mapping: `owner[k]` is the component of the first entry for `k`,
`expected[k, h]` the number of slots for `k` and `h`, `open` says that the
testcase runs, `inbox` is itself.  Bounds: two handlers and two IMSIs
are enough for a takeover beside an independent subscriber; two slots
make both tables run full; one PDU per inbox with
a wild IMSI (`MaxPdusWild`), two without (`MaxPdus`).  Fairness: the dispatcher
routes what arrived and serves each caller.

Proved for any sets and table sizes: `GSUPRouting` (`Spec => Routing`, initial
states and every step), `GSUPOneEntry`, `GSUPTypes`.  The invariant
`TypeOK /\ OneEntryPerImsi` is needed because the mapping reads the first
matching slot while removal clears a slot; lemmas say what adding, clearing and
reassigning a slot do to owners and counts.

The second half of `GSUPProofs` proves what the discipline is good for, whatever is done
with the wild IMSIs beside it: `GSUPRoutedToUser`, and `GSUPUsedNeverFails` when no IMSI is wild and
the tables have a slot for each of finitely many IMSIs (`Roomy`, which the run's
constants meet; with less room two subscribers at once end the testcase).  The invariant
`UseInv` says for each stage of the use of an IMSI who expects it, who owns it and who is
waiting in a call for it: e.g. while it is "heard" by a new ConnHdlr the owner is still the old
one, and the new one is in `f_change`, or the owner is the new one and nobody calls.  A PDU may
be under way only in stages with an owner or an expectation, hence it is
never without its ConnHdlr; that `f_create_expect` and the first PDU find a slot follows by
counting: a used slot has an IMSI, different slots have different ones, and the
one at hand has none.  `CallReturns` is only model-checked.

## RSL (`RSL`, `RSLBsc`, `RSLBts`, `MCRSLBsc`, `MCRSLBts`, `RSLBscProofs`, `RSLBtsProofs`)

`RSL` is the dispatcher of `RSL_Emulation.ttcn` in both roles: the connection
table (first match, first free), the last activation of each channel, the map of
transceivers, the wait queue and the suspension.  One action per alternative of
`main`.  A logical channel stands for stream id and channel number, a random
reference for RA and frame number.  A message of `IPA_PT` that no
alternative may take now (a dedicated channel while suspended) stays at the
head, as in the port.  What one handler sends and calls is served in its order;
handlers and links are not ordered with each other.

`RSLBsc` adds the BSC under test and the handlers of suite `bsc`: channel
request (`f_chan_est`), assignment with the wait queue
(`f_establish_fully`, `as_assignment`), handover with the suspension
(`as_handover`), release (`f_perform_clear`).  `RSLBts` adds the
BTS under test, the main component that waits for the transceivers (`f_init_rsl`),
and the handlers of suite `bts`: registration, activation, release, random access.

| Run | Shows |
| --- | --- |
| `rsl_bsc` | a testcase that is `Calm`, an assignment of one handler and a handover of another: no failure, every message reaches the user of its channel; the assignment and the handover complete unless they hold each other up.  In another one two assignments share the queue, with three slots, channels reused at once and link loss: the activation read is the own one, no message is left in a disabled queue |
| `rsl_bts` | two transceivers come up and may be lost, two of three handlers share a channel in turn: bring-up to its end, the map and its count follow the links, the right handler, its RACH confirmation; only a lost link ends the testcase |

What the testcases provide is needed.  The fields of `testcase` and the constants say what;
`Calm` joins what concerns suite `bsc`:

* one assignment at a time (`assigners`): the queue is global, and
  `f_WaitingQueue_dispatch` ends the testcase when a message of the other one has no
  handler yet;
* a released channel is not given to another handler before it is unregistered
  (`earlyReuse`): `RSLEM_unregister` follows the release acknowledgement and frees
  the first entry of the channel, whoever it belongs to; without that
  condition TLC finds `CalmRoutedToUser` violated;
* the announcement of a RACH is taken before the access burst arrives (`Prompt`):
  `f_rach_req_wait_chan_rqd` does not wait for the dispatcher, whose alternatives for
  the link come first, and with `Prompt = FALSE` TLC finds `RachConfirmed` violated;
  in practice the radio path is slower than the port;
* the BSC's link is not lost (`mayLose`), and each handler has a slot, or two for an assignment.

`ProceduresComplete` makes an exception for other handlers on the BTS that is
entered: suspension is meant for messages of dedicated channels, but one of
them at the head of the port holds back what is behind it, the channel
activation the handover waits for included.  The handover testcases have no such
handler.

Bounds: two or three handlers and channels, in the BTS role on separate
transceivers; one handler expects a RACH (`Callers`); `MaxData`
(`maxData` of `testcase`) unread messages per channel; as many slots as handlers use, and one
fewer than two assignments use in the other testcase of `rsl_bsc`.  IPA connections are not reopened: `IPA_Emulation` stops on the first
loss.  Fairness: the dispatcher
serves its ports, the system under test answers, a handler goes on when what it waits
for is there; no handler has to start anything.

Proved for `RSLBts` with any number of transceivers, channels, handlers and slots, the
latter enough for the channels and the announced random accesses (`SlotsSuffice`; the
code has 64 and checks nothing): `BtsNeverFails`, `BtsMapFollowsLinks`,
`BtsRoutedToUser`, and, when announcements are taken before the access burst
(`Prompt`), `BtsRachConfirmed`.  The invariant `BtsInv` has four parts: the types; the
links (an `ID_RESP` is under way at most once and before everything else of its
transceiver, so that the map is set once and, after a loss, cleared once); the table
(it holds one entry per registered handler and one per random access that is expected,
and nothing else, so the first match is the only one and the free slots can be counted);
and the channels, the heart of it: the release of a channel is followed from the handler's
queue over the BTS to the handler's inbox, at each place with "nothing of that channel is
behind it".  That no message of a channel comes after its last one is why
a handler may unregister, and end, without anything left for it in `IPA_PT`, and why the
next user of the channel gets nothing of the previous one.

Proved for `RSLBsc` with any testcase (calm or not), handlers, channels and slots:
`OwnActivationStored` (`OwnActivation`) and `NoneForgotten` (`NoneStranded`).  The invariant
`OwnInv` goes through the hands a channel passes: the types of variables and queues; for each
handler which channel its stage promises it (`HdlrInv`); for each channel what the BSC's state
says of its user and of `LastActTable` (`LchanInv`); whose channels the table names
(`EntryInv`: those of the handler, or of one that is past its assignment); and for each
message in one of the queues what holds while it is there (`Means`: with a
CHANNEL ACTIVATION under way the channel is being activated for that handler, with a
release it is given up, ...).  None of that is inductive without `SingleInv`: of each
procedure at most one message is in *all* queues together, those of the BSC, the wait queue and
the handlers' included.  Otherwise, when a message is read, a second one of the same kind might still
claim what its reading has just changed; and it is the wait queue, from which messages
return to handlers late and in another order, that makes this an argument about all queues
instead of one per handler.  `CalmNeverFails` and `CalmRoutedToUser` would need on top
of it the order of the messages on each channel, and are left to TLC.

Left out: the paging broadcast, messages that name their transceiver (from
handlers or from the main component), `ID_ACK`, and
`RSLEM_set_auto_chan_act_ack(false)`.

## Codecs (`RLCMAC`, `IuUP`, `BSSGPHelper`, `MNCC`, `Codecs`, `MCCodecs`)

Each codec is a module of operators with the names of the functions.  Buffers are
sequences of octets, bit positions are computed as in the code, a dynamic error of the
runtime is the value `Error`, and octets read behind the end of a buffer are any of
`Junk` (in `MNCC`, where structures are read, the one value `Overread` or, of a text, `Overrun`).  The generated codec of the fields around a checksum or a control block is
external: such parts are kept as octets.  `Codecs` sends one message: `Encode`, damage
on the way (`Flip`, `Truncate`), `Decode`.

| Run | Shows |
| --- | --- |
| `codecs` | round trips of RLC/MAC blocks (uplink CS-1..4, MCS-1..4), downlink blocks as TS 44.060 lays them out, which fields of an MNCC message arrive, are cut, or are read on into the next member; flipped bits in IuUP and LLC are noticed; NS/BSSGP elements survive both conversions and a cut one is an error |
| `codecs_selftest` | finding: a block of `PCU_selftest.ttcn` does not come back as it was |

Bounds: every coding scheme and header type, optional parts present and absent,
lengths at and next to the limits, lists of up to three LLC PDUs, every pair of flipped
bits; MNCC texts one octet below, at and above the size of their array, next to members that are
zero and not, data frames with all, some and none of the bits of their type.

## Authentication (`Milenage`, `KeyDerivation`, `AKA`, `MCAKA`, `AKAProofs`)

`Milenage` and `KeyDerivation` are the C files symbolically: AES and HMAC are ideal, a
string of octets is the set of atoms whose exclusive or it is, so that XOR, rotations
and constants cancel exactly where they do in the code.  `AKA` is the registration of
`5gc/ConnHdlr.ttcn` against a network that counts SQN, may start with an old one
(resynchronisation), may hold another key and may have one bit of AUTN flipped.

| Run | Shows |
| --- | --- |
| `aka` | the UE answers only an unaltered challenge of a network with its key and a new SQN, both ends then have the same keys; no two of the derived keys are equal; every registration with the right key ends registered, or fails after an altered AUTN |

Bounds: SQN up to 12 from four starting points, three registrations, flips of SQN, AMF
and MAC bits.  Fairness: both ends handle the message that arrived.

Proved for any numbers of challenges and registrations, any sequence numbers and any
flipped bits of AUTN: `AKAKeysAgree`.  The argument has two halves.  About the functions:
equal MACs show equal keys, sequence numbers and AMF (`MacDetermines`), so what
`milenage_check` accepts is an unaltered challenge made with the UE's key, and not the one
with sequence number 0 (`GenuineMeans`); for such a challenge the keys of both sides are
the same term (`AnsweredMeans`).  About the messages: `AkaInv` says for each point of
`f_register` which message can be under way and what the network believes, so that the
challenge the UE has answered is still the network's when the answer is judged.  Which
sequence number a valid AUTS hands the network (`ResyncMeans`) is needed for the types only
(`AKATypes`).  `AKAKeysSeparated` is about the functions alone: what is derived by a KDF
differs by function code or first parameter (`DerivedOnce`), the outputs of MILENAGE by the
constant in the cipher's input (`InputsDiffer`), their parts by offset and length, and Kc
still has a half of CK that IK cannot cancel (`GsmIs`).

## SM-DP+ client (`Certificates`, `RSPClient`, `BSP`, `SMDPP`, `MCSMDPP`, `SMDPPProofs`)

`Certificates` is the loading and checking of certificates by directory, curve and
role; `RSPClient` the client and the registry of handles behind the external
functions; `BSP` the protection of a package: the chain of MACs, the block counter,
the change to the profile protection keys, and the receiver's loop, one step per
segment, with a channel that loses, repeats, swaps, alters or truncates.  `SMDPP` is the flow
of three tests (`f_TC_rsp_complete_flow`, `f_TC_ES2Plus_ES9Plus_FullFlow`, the retried
confirmation code) against a server with one of 29 faults.  Cryptography is ideal: a
signature is its key and data, a session key what the KDF was given.

| Run | Shows |
| --- | --- |
| `smdpp` | `flow`: only the right server's package is accepted, and an honest server's always; `bsp`: an instance of the receiver has verified exactly a prefix of what the sender protected, an accepted package carries what was sent |

Bounds: both curves of SGP.26; packages of two metadata and two profile
segments with one disturbance by themselves, one of each within the flow.

Proved for any keys, data, lengths and number of disturbances:
`VerifiedInOrderThm` and `AcceptedAsSentThm`.  The invariant of the former (`BspInv`) joins
the property to the types and to `MacsMade`: every segment on its way that bears a valid
MAC was protected by the sender, with exactly the chain before it.  Disturbances make no
MACs; without that part nothing would be known of the segment that is verified next.  The
latter adds the order of the sender (`SenderInOrder`: what its instances have protected
is the package in the order of `BspCrypto`, counted by the block number) and what the
receiver has read so far (`ReceiverInOrder`: of each kind of segment, those verified and no
other).  Together a package whose first segments verify has them from the sender in the
sender's order, and what is handed out for them is what they carry.

`UndisturbedAcceptedThm` is the other direction: between sides with the same session keys a
package nobody disturbed is accepted with its whole profile, with and without the
replacement of the keys.  Its invariant (`MirrorInv`) says where each segment stands in the
sender's chain (`Intact`) and that the receiver's loops are at the place its chains have
reached (`InStep`), so that the next MAC and the next block are the expected ones.

`OnlyRightServerThm` follows `f_TC_rsp_complete_flow` for any set of servers, of any faults, and
any certificate files of the layout of `smdpp/sgp26` (`LayoutAssumption`: what signs itself is
a key of the CI, the CI's directory holds nothing else, the eUICC's certificate for a curve
has a key on it and the EID, and the CI signs keys on the curve of its own;
`SessionKeysAssumption`: `Keys` has what these one-time keys give the KDF).  Its invariant
(`FlowInv`) adds to that of the package what each place of the flow has established (`Phase`): the
client's certificates are from the files, the challenge and the transaction were answered,
both roles shown, the package asked for with the first one-time key.  The test checks these
in five places, the chain of the certificates at the very end with a CI it looks up anew;
`ChainSigner` shows what a path through that directory leaves: an issuer who signed the
certificate with the very key of that CI.  The path is stated over sets closed under issuing
(`PathTo`), which needs no induction, and the keys of both sides agree because the first
segment verified.

`HonestServerPassesThm` is its converse: with an honest server of the test's curve and a
package nobody disturbed (and whose replaced keys are the ones it was protected with) all three
tests end with the verdict "pass" and an empty registry.  `HonestAssumption` says
what such a server shows: certificates of its two roles, on its curve, current and issued by
the CI of that curve, the only one of `smdpp/sgp26` that signs itself there (on ES2+, where the
client always takes the files of NIST, by the CI of NIST); and no fault
but to ask for a confirmation code.  The eUICC and EUM of the curve must have their files.  The
CI must be there in two files (there it is, as DER and as PEM): the constructor of the client
takes the root out of the pool, and only the copy from the other file keeps it among the
certificates in which `postJson()` has TLS look for a root.  The invariant (`HonestInv`) joins
`FlowInv` and `MirrorInv` to `HonestPhase`: at each place of a test with an honest server the
clients are `Ready` for it (root, pool, eUICC and EUM files), the transaction and the
certificates are the server's, the request carries the first one-time key and the hash
of the right code when the package is fetched, and both sides' sessions have the same key.

## What is only model-checked

Liveness (`LockReturns`, `SessionsComplete`, `DisableTakesEffect`, `Converges`,
`CallReturns`, `RegistrationEnds`, `ComesUp` and `ProceduresComplete` of RSL), as the
prover does not handle fairness and ENABLED; the codecs, whose functions recurse over
data, which the prover has no induction for; and of the suite `bsc` of RSL what holds in calm
testcases (`CalmNeverFails`, `CalmRoutedToUser`).

The proof modules are `MutexProofs`, `NSEProofs`, `NSLinkProofs`, `GSUPProofs`,
`RSLBscProofs`, `RSLBtsProofs`, `SMDPPProofs` and `AKAProofs`.  They assume no more than the named
assumptions of the modules they extend, `Roomy`, `Prompt` and `~RepeatsEstablishment` where the
theorem says so.

## Findings

* `nse_blocked` (`NS_Emulation.ttcnpp:457`): the comment says that the last NS-VC
  to be blocked is recognised, but the alternative for ALIVE_BLOCKED never marks its
  indication; the user goes on believing the entity is up and its next request
  divides by zero.
* `nse_disable` (`NS_Emulation.ttcnpp:774`): a disable request queued behind
  an NS-UNITDATA request is never handled once the NS-VC can no longer send.
* `codecs_selftest` (`RLCMAC_EncDec.cc:528`): octets behind the last LLC PDU are dropped
  by the decoder, so that encoding again gives padding instead.

Observed while modelling, without a run of their own; where a property would be
affected it says so or leaves the case out:

* RSL: in the BTS role an `ASP_IPA_EVENT_DOWN` ends the testcase ("Trying to unregister an
  unknown conn_id") although `RSL_Emulation.ttcn:512` says that the upper layers are to be
  notified.
* PFCP: entries of the sequence number list are removed only when a PDU with that number
  arrives, so every response a ConnHdlr sends leaves one behind; the result of
  `f_PFCPEM_conns_seqnr_add` is ignored (line 280).
* RLC/MAC: the uplink TLLI of EGPRS is reversed by the encoder and not by the decoder; the
  header of uplink MCS-7..9 is overwritten for an aligned offset, TI and E of MCS-5/6 land
  in rsb/pi; the decoders of uplink header types 1 and 2 and the encoders of the downlink EGPRS
  headers are stubs; with E=1 the payload of a downlink EGPRS block is read from the
  unaligned buffer; the bit order of `spb` differs between encoder and decoder.
* IuUP: the first payload octet of a PDU of type 1 is overwritten by 0.  BSSGP: the
  length check of expand and compact ignores the offset.  MNCC: keypad is
  written to signal and read from its own member.  A text that fills the array of facility, ssversion,
  imsi or the sdp of an RTP message is read on behind it; longer ones are silently cut.
* MNCC data frames cannot be sent: `MNCC_EncDec.cc:209` joins header and payload with `&`, which
  for octet strings of the runtime is the bitwise and (`+` concatenates, `BSSGP_Helper.cc:148`).
  Payloads of another length than the header's 8 octets end in a dynamic error; one of 8
  is lost, and changes the message type, so that the decoder may read a longer structure behind
  the end of the frame.  The call reference is not encoded either.  `MnccRoundTrip`
  states what is left of a frame; no doc or test says that frames arrive, so there is no
  run of its own.
* Cryptography: the SNOW 3G wrapper passes octets where bits are expected,
  `f_nas_encrypt` drops its result; `milenage_check` judges SQN before it
  verifies the MAC; the UE's own SQN is always 0 (`5gc/ConnHdlr.ttcn:274`).
* SM-DP+: a segment of 1010 octets exceeds the size limit when encrypted; the output of
  `generate_replace_session_keys_data` is not what `parse_replace_session_keys` reads;
  a package without its last profile segments is accepted; a signature
  without DER whose r starts with 5f3740 is stripped and rejected; `verifyECDHCompatible`
  accepts keys of different curves; the authentication parameters are set on the ES9+
  client while the request goes out on ES2+; `cc_retry` does not compare the
  transaction of the AuthenticateClient answer; failures of HTTP return without cleanup.

## Hazards without a property

`PROJECT.json` keeps two that bite modelled or neighbouring code and that no property
covers: the index modulo zero of `NS_Emulation.ttcnpp:496` and the stale CIC of
`RAN_Emulation.ttcnpp:476`.  Others were met in code that is not modelled or only partly:

* NS: an NS-VC in DEAD_BLOCKED only sends NS-ALIVE (783); Tns-test of an enable
  request may expire during the reset (836); the inner `alt` of the SNS procedure takes
  no NS-UNITDATA (655).
* RAN: crossing disconnects (403); N(SD) over a takeover (882); the slot of a released
  expect keeps `sccp_cr_without_payload` (1796).
* S1AP: a reused entry keeps keys and counters (252); the MME UE id is learnt
  from the first PDU (166).  S1GW UE mux: a UE subscribes after its first PDU (136).
* BSSGP: start while NS is already up (405); a request for the component of an
  unknown BVCI is never answered (536).

## Not modelled

`PROJECT.json` gives the reason for every component.  In groups:

* *The same scheme under other keys*: S1AP, NGAP, UE mux, GTP, MNCC, SGsAP, SMPP, SIP,
  BSSAP-LE, DIAMETER, MGCP.  Their tables add, look up and delete like those of GSUP,
  RSL or PFCP.
* *Decided elsewhere*: RAN and the SCCP adapter rest on the external SCCP emulation,
  GTPv1-U on a daemon, LAPDm on trxcon, whose sources are not here; a model would
  mostly be of those.
* *Another protocol on a modelled layer*: BSSGP over the NS entity, IP SNS inside it.
* *Rate and content rather than control*: IuUP, RTP and OSMUX streams, the PCU
  suite's clock and burst queue, SNOW 3G.
* *No state of its own*: codec ports, link adapters, request/response helpers,
  types and templates, scripts; and the testcases, sequential scripts against an IUT
  that is not in the repository.

Within modelled components: of RSL the paging broadcast, escape messages, `ID_ACK` and
manual acknowledgement of activations; of PFCP the helpers that force or await an
association on the main component; of the SM-DP+ client the notification and
cancel procedures and the other tests; of the 5G ConnHdlr everything after the security
mode.
