------------------------------- MODULE Mutex --------------------------------
(***************************************************************************)
(* The mutex of library/Mutex.ttcn: a dispatcher component owns the flag   *)
(* "locked" and the counter g_mutex_ref; parallel components lock it with  *)
(* a blocking procedure call (MUTEX_LOCK, guarded by a timer) and unlock   *)
(* it with a non-blocking one (MUTEX_UNLOCK) that carries the reference    *)
(* handed out with the lock.                                               *)
(*                                                                         *)
(* A port is the FIFO queue of the calls or replies sent to it.  Some of   *)
(* them may still be on their way to the component, so an alternative on   *)
(* one port does not wait for an earlier alternative on another port, nor  *)
(* a timeout for a queued reply.                                           *)
(*                                                                         *)
(* A component that calls f_shutdown asks the main test component to stop  *)
(* and does nothing more; the other components keep running until the stop *)
(* takes effect.                                                           *)
(*                                                                         *)
(* A definition X_Y placed before X is X with the mistake Y: it is used by *)
(* no specification and shows what the properties would catch.             *)
(***************************************************************************)
EXTENDS Integers, Sequences

CONSTANTS Clients,    \* the components connected with f_MutexDisp_connect
          Careless,   \* those that may unlock a mutex they no longer hold
          MaxRounds   \* bound: calls of f_Mutex_unlock per client

ASSUME CarelessAssumption == Careless \subseteq Clients
ASSUME MaxRoundsAssumption == MaxRounds \in Nat

VARIABLES
    locked,       \* f_MutexDisp_main: locked
    g_mutex_ref,  \* the dispatcher's counter
    lockQ,        \* LOCK port of the dispatcher: callers, oldest first
    unlockQ,      \* UNLOCK port of the dispatcher: references, oldest first
    inbox,        \* inbox[c]: LOCK port of client c, replies to MUTEX_LOCK
    ref,          \* ref[c]: g_mutex_ref of client c
    pc,           \* where client c is in lock ... critical section ... unlock
    rounds,       \* rounds[c]: number of unlocks of client c so far
    disp,         \* "serving", or "rejected" after a failed alternative
    testcase      \* "running", "stopping" (mtc.stop requested), "stopped"

vars == <<locked, g_mutex_ref, lockQ, unlockQ, inbox, ref, pc, rounds, disp,
          testcase>>

dispatcherVars == <<locked, g_mutex_ref, disp>>
clientVars == <<ref, pc, rounds>>

Unbound == -1   \* the value of a variable nothing was assigned to

Init ==
    /\ locked = FALSE
    /\ g_mutex_ref = 0
    /\ lockQ = <<>>
    /\ unlockQ = <<>>
    /\ inbox = [c \in Clients |-> <<>>]
    /\ ref = [c \in Clients |-> Unbound]
    /\ pc = [c \in Clients |-> "outside"]
    /\ rounds = [c \in Clients |-> 0]
    /\ disp = "serving"
    /\ testcase = "running"

Alive == testcase # "stopped"

\* Misc_Helpers.f_shutdown from a component other than the mtc: mtc.stop.
Shutdown == testcase' = "stopping"

-----------------------------------------------------------------------------
(* The clients. *)

\* f_Mutex_lock: the call arrives at the LOCK port, its caller blocks.
CallLock(c) ==
    /\ Alive
    /\ pc[c] = "outside"
    /\ rounds[c] < MaxRounds
    /\ pc' = [pc EXCEPT ![c] = "waiting"]
    /\ lockQ' = Append(lockQ, c)
    /\ UNCHANGED <<unlockQ, inbox, ref, rounds, testcase, dispatcherVars>>

\* The reference a reply stores in the client's g_mutex_ref.
ReplyRef_KeepsFirst(c) == IF ref[c] = Unbound THEN Head(inbox[c]) ELSE ref[c]
ReplyRef(c) == Head(inbox[c])

\* f_Mutex_lock: getreply, the client enters its critical section.
GetReply(c) ==
    /\ Alive
    /\ pc[c] = "waiting"
    /\ inbox[c] # <<>>
    /\ ref' = [ref EXCEPT ![c] = ReplyRef(c)]
    /\ inbox' = [inbox EXCEPT ![c] = Tail(@)]
    /\ pc' = [pc EXCEPT ![c] = "critical"]
    /\ UNCHANGED <<lockQ, unlockQ, rounds, testcase, dispatcherVars>>

\* f_Mutex_lock: catch(timeout).  The call may still be queued at the
\* dispatcher, and be answered later, or the reply may be under way.
LockTimeout(c) ==
    /\ Alive
    /\ pc[c] = "waiting"
    /\ pc' = [pc EXCEPT ![c] = "shutdown"]
    /\ Shutdown
    /\ UNCHANGED <<lockQ, unlockQ, inbox, ref, rounds, dispatcherVars>>

\* An unlock needs a g_mutex_ref: reading an unbound variable is an error.
HasRef(c) == ref[c] # Unbound

\* f_Mutex_unlock: the caller does not wait for the dispatcher.
CallUnlock(c) ==
    /\ Alive
    /\ \/ pc[c] = "critical"
       \/ /\ c \in Careless
          /\ pc[c] = "outside"
          /\ HasRef(c)
          /\ rounds[c] < MaxRounds
    /\ unlockQ' = Append(unlockQ, ref[c])
    /\ pc' = [pc EXCEPT ![c] = "outside"]
    /\ rounds' = [rounds EXCEPT ![c] = @ + 1]
    /\ UNCHANGED <<lockQ, inbox, ref, testcase, dispatcherVars>>

\* A ConnHdlr whose critical section fails (no MGCP or PFCP message in time)
\* leaves through f_shutdown, without unlocking.
AbortCritical(c) ==
    /\ Alive
    /\ pc[c] = "critical"
    /\ pc' = [pc EXCEPT ![c] = "shutdown"]
    /\ Shutdown
    /\ UNCHANGED <<lockQ, unlockQ, inbox, ref, rounds, dispatcherVars>>

-----------------------------------------------------------------------------
(* The dispatcher: the alternatives of f_MutexDisp_main, first to last. *)

Serving == Alive /\ disp = "serving"

\* The guard of the first alternative.
MayGrant_Always == TRUE
MayGrant == ~locked

Grant ==
    /\ Serving
    /\ MayGrant
    /\ lockQ # <<>>
    /\ inbox' = [inbox EXCEPT ![Head(lockQ)] = Append(@, g_mutex_ref)]
    /\ lockQ' = Tail(lockQ)
    /\ locked' = TRUE
    /\ UNCHANGED <<g_mutex_ref, unlockQ, disp, testcase, clientVars>>

\* The template of the second alternative: MUTEX_UNLOCK:{g_mutex_ref}.
RefAccepted(r) == r = g_mutex_ref

NextRef(r) == r + 1

Release_StaysLocked ==
    /\ Serving
    /\ locked
    /\ unlockQ # <<>>
    /\ RefAccepted(Head(unlockQ))
    /\ unlockQ' = Tail(unlockQ)
    /\ g_mutex_ref' = NextRef(g_mutex_ref)
    /\ UNCHANGED <<locked, lockQ, inbox, disp, testcase, clientVars>>

Release ==
    /\ Serving
    /\ locked
    /\ unlockQ # <<>>
    /\ RefAccepted(Head(unlockQ))
    /\ unlockQ' = Tail(unlockQ)
    /\ g_mutex_ref' = NextRef(g_mutex_ref)
    /\ locked' = FALSE
    /\ UNCHANGED <<lockQ, inbox, disp, testcase, clientVars>>

Reject ==
    /\ unlockQ' = Tail(unlockQ)
    /\ disp' = "rejected"
    /\ Shutdown
    /\ UNCHANGED <<locked, g_mutex_ref, lockQ, inbox, clientVars>>

\* "mutex unlock without prior lock"
RejectNotLocked ==
    /\ Serving
    /\ ~locked
    /\ unlockQ # <<>>
    /\ Reject

\* An unlock with a reference other than the current one.
RejectOtherRef ==
    /\ Serving
    /\ locked
    /\ unlockQ # <<>>
    /\ ~RefAccepted(Head(unlockQ))
    /\ Reject

-----------------------------------------------------------------------------

\* The requested mtc.stop takes effect and ends every component.
StopTestcase ==
    /\ testcase = "stopping"
    /\ testcase' = "stopped"
    /\ UNCHANGED <<lockQ, unlockQ, inbox, clientVars, dispatcherVars>>

\* Nothing happens once the testcase was stopped or every client has returned.
Finished ==
    /\ \/ testcase = "stopped"
       \/ \A c \in Clients : pc[c] = "outside" /\ rounds[c] = MaxRounds
    /\ UNCHANGED vars

Client(c) ==
    \/ CallLock(c)
    \/ GetReply(c)
    \/ LockTimeout(c)
    \/ CallUnlock(c)
    \/ AbortCritical(c)

Dispatcher == Grant \/ Release \/ RejectNotLocked \/ RejectOtherRef

Next ==
    \/ \E c \in Clients : Client(c)
    \/ Dispatcher
    \/ StopTestcase
    \/ Finished

Spec == Init /\ [][Next]_vars

\* The dispatcher's alt never stops being evaluated, a client picks up its reply
\* and leaves its critical section (by the unlock or by its own timer), and a
\* requested stop is carried out.  No fairness on calling f_Mutex_lock, and
\* none on the timer of the call.
FairSpec ==
    /\ Spec
    /\ WF_vars(Dispatcher)
    /\ WF_vars(StopTestcase)
    /\ \A c \in Clients : /\ WF_vars(GetReply(c))
                          /\ WF_vars(CallUnlock(c) \/ AbortCritical(c))

-----------------------------------------------------------------------------

\* Every variable keeps the type its TTCN-3 declaration and the protocol give it.
TypeOK ==
    /\ locked \in BOOLEAN
    /\ g_mutex_ref \in Nat
    /\ lockQ \in Seq(Clients)
    /\ unlockQ \in Seq(Nat)
    /\ inbox \in [Clients -> Seq(Nat)]
    /\ ref \in [Clients -> Nat \cup {Unbound}]
    /\ pc \in [Clients -> {"outside", "waiting", "critical", "shutdown"}]
    /\ rounds \in [Clients -> Nat]
    /\ disp \in {"serving", "rejected"}
    /\ testcase \in {"running", "stopping", "stopped"}

\* "This code block cannot be executed by more than one component at a time"
\* (hnbgw/ConnHdlr.ttcn): no two components are between the return of
\* f_Mutex_lock and f_Mutex_unlock, although the unlock is asynchronous, late
\* replies exist and careless components repeat their last unlock.
MutualExclusion ==
    \A c, d \in Clients : pc[c] = "critical" /\ pc[d] = "critical" => c = d

\* While a component is inside, the dispatcher knows the mutex as locked under
\* exactly the reference that component holds, so its unlock will be accepted
\* and nobody else's can be.
HolderHasCurrentRef ==
    \A c \in Clients : pc[c] = "critical" => locked /\ ref[c] = g_mutex_ref

\* The two failing alternatives of f_MutexDisp_main never take an unlock of a
\* component that pairs each unlock with a lock, whatever timeouts, shutdowns
\* and careless components there are around it.
DisciplineSuffices ==
    [][disp' # disp => \A c \in Clients \ Careless : ref[c] # Head(unlockQ)]_vars

\* A reference is never handed out twice: the dispatcher replies with a larger
\* one than every reference a client holds or ever released with.
FreshReference ==
    [][\A c \in Clients : Len(inbox'[c]) > Len(inbox[c]) =>
          /\ \A d \in Clients : ref[d] < g_mutex_ref /\ inbox[d] = <<>>
          /\ \A i \in DOMAIN unlockQ : unlockQ[i] < g_mutex_ref]_vars

\* f_Mutex_lock returns or the testcase is stopped: no caller is forgotten in
\* the queue of the LOCK port.
LockReturns ==
    \A c \in Clients : pc[c] = "waiting" ~> pc[c] = "critical" \/ ~Alive
=============================================================================
