---------------------------- MODULE MutexProofs -----------------------------
(***************************************************************************)
(* Mutual exclusion of library/Mutex.ttcn for every set of clients, every  *)
(* set of careless ones among them and every number of rounds, and what it *)
(* is for: with the mutex around it the establishment requests of all      *)
(* ConnHdlrs, that carry the same SEID 0, come to the right one.           *)
(***************************************************************************)
EXTENDS PFCPSessions, SequenceTheorems, FiniteSetTheorems, TLAPS

\* Client c holds the current reference, or the reply that carries it.
HasCurrent(c) == inbox[c] # <<>> \/ ref[c] = g_mutex_ref

\* While the mutex is free no reference in the system is the current one.
FreeMeansStale ==
    ~locked =>
        /\ \A c \in Clients : inbox[c] = <<>> /\ ref[c] < g_mutex_ref
        /\ \A i \in DOMAIN unlockQ : unlockQ[i] < g_mutex_ref

\* While it is locked one client at most has the current reference; the
\* others' references are older, and a reply in a LOCK port is the only one.
OneHasCurrent ==
    locked =>
        /\ \A c \in Clients : ref[c] <= g_mutex_ref
        /\ \A c \in Clients : inbox[c] # <<>> =>
              inbox[c] = <<g_mutex_ref>> /\ ref[c] < g_mutex_ref
        /\ \A c, d \in Clients : HasCurrent(c) /\ HasCurrent(d) => c = d
        /\ \A i \in DOMAIN unlockQ : unlockQ[i] <= g_mutex_ref

\* An unlock on its way that would free the mutex means its holder has left.
PendingRelease ==
    (\E i \in DOMAIN unlockQ : unlockQ[i] = g_mutex_ref) =>
        \A c \in Clients : pc[c] # "critical" /\ inbox[c] = <<>>

\* The inductive invariant.
MutexInv ==
    /\ TypeOK
    /\ FreeMeansStale
    /\ OneHasCurrent
    /\ PendingRelease
    /\ HolderHasCurrentRef

-----------------------------------------------------------------------------

\* What a port's queue holds after an arrival, and after its head is taken.
LEMMA AppendElements ==
  ASSUME NEW s \in Seq(Nat), NEW e \in Nat
  PROVE  \A i \in DOMAIN Append(s, e) :
            \/ Append(s, e)[i] = e
            \/ \E j \in DOMAIN s : s[j] = Append(s, e)[i]
  OBVIOUS

LEMMA TailElements ==
  ASSUME NEW S, NEW s \in Seq(S), s # <<>>
  PROVE  /\ Tail(s) \in Seq(S)
         /\ Head(s) = s[1] /\ 1 \in DOMAIN s /\ Head(s) \in S
         /\ \A i \in DOMAIN Tail(s) : \E j \in DOMAIN s : s[j] = Tail(s)[i]
<1>1. \A i \in DOMAIN Tail(s) : i + 1 \in DOMAIN s /\ s[i + 1] = Tail(s)[i]
  BY HeadTailProperties
<1> QED  BY <1>1

LEMMA SingletonQueue ==
  ASSUME NEW e \in Nat
  PROVE  /\ Append(<<>>, e) = <<e>>
         /\ <<e>> \in Seq(Nat)
         /\ <<e>> # <<>>
         /\ Head(<<e>>) = e
         /\ Tail(<<e>>) = <<>>
  OBVIOUS

\* The inductive invariant holds initially: the mutex is free and no client
\* has a reference yet.
LEMMA InitMutexInv == Init => MutexInv
<1> SUFFICES ASSUME Init PROVE MutexInv
  OBVIOUS
<1> USE DEF Init, Unbound
<1>1. TypeOK
  <2>1. lockQ \in Seq(Clients) /\ unlockQ \in Seq(Nat)
    OBVIOUS
  <2>2. inbox \in [Clients -> Seq(Nat)]
    OBVIOUS
  <2> QED  BY <2>1, <2>2 DEF TypeOK
<1>2. FreeMeansStale
  BY DEF FreeMeansStale
<1>3. OneHasCurrent
  BY DEF OneHasCurrent
<1>4. PendingRelease
  BY DEF PendingRelease
<1>5. HolderHasCurrentRef
  BY DEF HolderHasCurrentRef
<1> QED  BY <1>1, <1>2, <1>3, <1>4, <1>5 DEF MutexInv

\* A call that arrives at the LOCK port leaves references alone.
LEMMA CallLockInv ==
  ASSUME MutexInv, NEW c \in Clients, CallLock(c)
  PROVE  MutexInv'
<1> USE DEF MutexInv, CallLock, dispatcherVars
<1>1. TypeOK'
  BY DEF TypeOK
<1>2. FreeMeansStale'
  BY DEF TypeOK, FreeMeansStale, HolderHasCurrentRef
<1>3. OneHasCurrent'
  BY DEF TypeOK, FreeMeansStale, OneHasCurrent, HolderHasCurrentRef, HasCurrent
<1>4. PendingRelease'
  BY DEF TypeOK, FreeMeansStale, OneHasCurrent, PendingRelease, HolderHasCurrentRef, HasCurrent
<1>5. HolderHasCurrentRef'
  BY DEF TypeOK, FreeMeansStale, OneHasCurrent, PendingRelease, HolderHasCurrentRef, HasCurrent
<1> QED  BY <1>1, <1>2, <1>3, <1>4, <1>5

\* The reply moves its reference from the client's port to the client.
LEMMA GetReplyInv ==
  ASSUME MutexInv, NEW c \in Clients, GetReply(c)
  PROVE  MutexInv'
<1> USE DEF MutexInv, GetReply, ReplyRef, dispatcherVars
<1>6. /\ locked
      /\ Head(inbox[c]) = g_mutex_ref
      /\ Tail(inbox[c]) = <<>>
      /\ inbox' = [inbox EXCEPT ![c] = <<>>]
      /\ ref' = [ref EXCEPT ![c] = g_mutex_ref]
  <2>1. locked /\ inbox[c] = <<g_mutex_ref>> /\ g_mutex_ref \in Nat
    BY DEF TypeOK, FreeMeansStale, OneHasCurrent
  <2> QED  BY <2>1, SingletonQueue
<1>1. TypeOK'
  BY <1>6 DEF TypeOK
<1>2. FreeMeansStale'
  BY <1>6 DEF FreeMeansStale
<1>3. OneHasCurrent'
  BY <1>6 DEF TypeOK, OneHasCurrent, HasCurrent
<1>4. PendingRelease'
  BY <1>6 DEF TypeOK, PendingRelease
<1>5. HolderHasCurrentRef'
  BY <1>6 DEF TypeOK, HolderHasCurrentRef
<1> QED  BY <1>1, <1>2, <1>3, <1>4, <1>5

\* A timed-out caller stops; nothing was granted to it yet.
LEMMA LockTimeoutInv ==
  ASSUME MutexInv, NEW c \in Clients, LockTimeout(c)
  PROVE  MutexInv'
<1> USE DEF MutexInv, LockTimeout, Shutdown, dispatcherVars
<1>1. TypeOK'
  BY DEF TypeOK
<1>2. FreeMeansStale'
  BY DEF TypeOK, FreeMeansStale, HolderHasCurrentRef
<1>3. OneHasCurrent'
  BY DEF TypeOK, FreeMeansStale, OneHasCurrent, HolderHasCurrentRef, HasCurrent
<1>4. PendingRelease'
  BY DEF TypeOK, FreeMeansStale, OneHasCurrent, PendingRelease, HolderHasCurrentRef, HasCurrent
<1>5. HolderHasCurrentRef'
  BY DEF TypeOK, FreeMeansStale, OneHasCurrent, PendingRelease, HolderHasCurrentRef, HasCurrent
<1> QED  BY <1>1, <1>2, <1>3, <1>4, <1>5

\* An unlock carries the current reference only if its sender was the last holder.
LEMMA CallUnlockInv ==
  ASSUME MutexInv, NEW c \in Clients, CallUnlock(c)
  PROVE  MutexInv'
<1> USE DEF MutexInv, CallUnlock, HasRef, dispatcherVars
<1>6. ref[c] \in Nat
  BY DEF TypeOK, HolderHasCurrentRef
<1>7. /\ \A i \in DOMAIN unlockQ' :
            unlockQ'[i] = ref[c] \/ \E j \in DOMAIN unlockQ : unlockQ[j] = unlockQ'[i]
      /\ unlockQ' \in Seq(Nat)
  BY <1>6, AppendElements DEF TypeOK
<1>1. TypeOK'
  BY <1>7 DEF TypeOK
<1>2. FreeMeansStale'
  BY <1>7 DEF FreeMeansStale
<1>3. OneHasCurrent'
  BY <1>7 DEF OneHasCurrent, HasCurrent
<1>4. PendingRelease'
  <2> SUFFICES ASSUME NEW i \in DOMAIN unlockQ', unlockQ'[i] = g_mutex_ref,
                      NEW d \in Clients
               PROVE  pc'[d] # "critical" /\ inbox[d] = <<>>
    BY DEF PendingRelease
  <2>1. CASE ref[c] = g_mutex_ref
    <3>1. locked
      BY <2>1 DEF FreeMeansStale, TypeOK
    <3>2. HasCurrent(c) /\ (d # c => ~HasCurrent(d))
      BY <2>1, <3>1 DEF OneHasCurrent, HasCurrent
    <3>3. d # c => inbox[d] = <<>> /\ pc[d] # "critical"
      BY <3>2 DEF HasCurrent, HolderHasCurrentRef
    <3>4. inbox[c] = <<>>
      BY <2>1, <3>1, <1>6 DEF OneHasCurrent, TypeOK
    <3> QED  BY <3>3, <3>4 DEF TypeOK
  <2>2. CASE ref[c] # g_mutex_ref
    <3>1. \E j \in DOMAIN unlockQ : unlockQ[j] = g_mutex_ref
      BY <2>2, <1>7
    <3> QED  BY <3>1 DEF PendingRelease, TypeOK
  <2> QED  BY <2>1, <2>2
<1>5. HolderHasCurrentRef'
  BY DEF TypeOK, FreeMeansStale, OneHasCurrent, PendingRelease, HolderHasCurrentRef, HasCurrent
<1> QED  BY <1>1, <1>2, <1>3, <1>4, <1>5

\* A holder that shuts down keeps its reference and never unlocks.
LEMMA AbortCriticalInv ==
  ASSUME MutexInv, NEW c \in Clients, AbortCritical(c)
  PROVE  MutexInv'
<1> USE DEF MutexInv, AbortCritical, Shutdown, dispatcherVars
<1>1. TypeOK'
  BY DEF TypeOK
<1>2. FreeMeansStale'
  BY DEF TypeOK, FreeMeansStale, HolderHasCurrentRef
<1>3. OneHasCurrent'
  BY DEF TypeOK, FreeMeansStale, OneHasCurrent, HolderHasCurrentRef, HasCurrent
<1>4. PendingRelease'
  BY DEF TypeOK, FreeMeansStale, OneHasCurrent, PendingRelease, HolderHasCurrentRef, HasCurrent
<1>5. HolderHasCurrentRef'
  BY DEF TypeOK, FreeMeansStale, OneHasCurrent, PendingRelease, HolderHasCurrentRef, HasCurrent
<1> QED  BY <1>1, <1>2, <1>3, <1>4, <1>5

\* Granting hands the current reference to one client; all others are stale.
LEMMA GrantInv ==
  ASSUME MutexInv, Grant
  PROVE  MutexInv'
<1> USE DEF MutexInv, Grant, MayGrant, Serving, clientVars
<1> DEFINE h == Head(lockQ)
<1>6. h \in Clients /\ Tail(lockQ) \in Seq(Clients)
  BY TailElements DEF TypeOK
<1>7. inbox' = [inbox EXCEPT ![h] = <<g_mutex_ref>>] /\ <<g_mutex_ref>> \in Seq(Nat)
  <2>1. inbox[h] = <<>> /\ g_mutex_ref \in Nat
    BY <1>6 DEF TypeOK, FreeMeansStale
  <2> QED  BY <2>1, SingletonQueue
<1> HIDE DEF h
<1>1. TypeOK'
  BY <1>6, <1>7 DEF TypeOK
<1>2. FreeMeansStale'
  BY DEF FreeMeansStale
<1>3. OneHasCurrent'
  <2>1. <<g_mutex_ref>> # <<>> /\ g_mutex_ref \in Nat
    BY SingletonQueue DEF TypeOK
  <2>2. \A d \in Clients : /\ ref[d] < g_mutex_ref
                          /\ inbox'[d] = IF d = h THEN <<g_mutex_ref>> ELSE <<>>
    BY <1>6, <1>7 DEF TypeOK, FreeMeansStale
  <2>3. \A d \in Clients : ref[d] \in Int
    BY DEF TypeOK, Unbound
  <2>4. \A d \in Clients : HasCurrent(d)' => d = h
    <3>1. ref' = ref /\ g_mutex_ref' = g_mutex_ref
      OBVIOUS
    <3>2. \A d \in Clients : ref[d] # g_mutex_ref
      BY <2>1, <2>2, <2>3
    <3> QED  BY <2>2, <3>1, <3>2 DEF HasCurrent
  <2>5. \A i \in DOMAIN unlockQ : unlockQ[i] \in Nat
    BY DEF TypeOK
  <2>6. \A d \in Clients : inbox'[d] # <<>> =>
           inbox'[d] = <<g_mutex_ref>> /\ ref[d] < g_mutex_ref
    BY <2>2
  <2>7. \A i \in DOMAIN unlockQ : unlockQ[i] <= g_mutex_ref
    BY <2>1, <2>5 DEF FreeMeansStale
  <2> QED  BY <2>1, <2>2, <2>3, <2>4, <2>6, <2>7 DEF OneHasCurrent
<1>4. PendingRelease'
  BY DEF TypeOK, FreeMeansStale, PendingRelease
<1>5. HolderHasCurrentRef'
  BY DEF FreeMeansStale, HolderHasCurrentRef
<1> QED  BY <1>1, <1>2, <1>3, <1>4, <1>5

\* The unlock that frees the mutex makes every reference stale.
LEMMA ReleaseInv ==
  ASSUME MutexInv, Release
  PROVE  MutexInv'
<1> USE DEF MutexInv, Release, RefAccepted, NextRef, Serving, clientVars
<1>6. /\ unlockQ' \in Seq(Nat)
      /\ \A i \in DOMAIN unlockQ' : \E j \in DOMAIN unlockQ : unlockQ[j] = unlockQ'[i]
      /\ \E j \in DOMAIN unlockQ : unlockQ[j] = g_mutex_ref
  BY TailElements DEF TypeOK
<1>1. TypeOK'
  <2>1. unlockQ' \in Seq(Nat)
    BY <1>6
  <2>2. g_mutex_ref + 1 \in Nat
    BY DEF TypeOK
  <2>3. g_mutex_ref' \in Nat
    BY <2>2
  <2>4. locked' \in BOOLEAN
    OBVIOUS
  <2> QED  BY <2>1, <2>3, <2>4 DEF TypeOK
<1>2. FreeMeansStale'
  <2>1. \A d \in Clients : inbox[d] = <<>> /\ ref[d] <= g_mutex_ref
    BY <1>6 DEF OneHasCurrent, PendingRelease
  <2>2. \A i \in DOMAIN unlockQ' : unlockQ'[i] <= g_mutex_ref
    BY <1>6 DEF OneHasCurrent
  <2>3. /\ g_mutex_ref \in Nat
        /\ \A d \in Clients : ref[d] \in Int
        /\ \A i \in DOMAIN unlockQ' : unlockQ'[i] \in Nat
    BY <1>6 DEF TypeOK, Unbound
  <2> QED  BY <2>1, <2>2, <2>3 DEF FreeMeansStale
<1>3. OneHasCurrent'
  BY DEF OneHasCurrent
<1>4. PendingRelease'
  BY <1>6 DEF PendingRelease
<1>5. HolderHasCurrentRef'
  BY <1>6 DEF HolderHasCurrentRef, PendingRelease
<1> QED  BY <1>1, <1>2, <1>3, <1>4, <1>5

\* A rejected unlock leaves the queue; the rest is untouched.
LEMMA RejectNotLockedInv ==
  ASSUME MutexInv, RejectNotLocked
  PROVE  MutexInv'
<1> USE DEF MutexInv, RejectNotLocked, Reject, Serving, Shutdown, clientVars
<1>6. /\ unlockQ' \in Seq(Nat)
      /\ \A i \in DOMAIN unlockQ' : \E j \in DOMAIN unlockQ : unlockQ[j] = unlockQ'[i]
  BY TailElements DEF TypeOK
<1>1. TypeOK'
  BY <1>6 DEF TypeOK
<1>2. FreeMeansStale'
  BY <1>6 DEF FreeMeansStale
<1>3. OneHasCurrent'
  BY <1>6 DEF OneHasCurrent, HasCurrent
<1>4. PendingRelease'
  BY <1>6 DEF PendingRelease
<1>5. HolderHasCurrentRef'
  BY DEF HolderHasCurrentRef
<1> QED  BY <1>1, <1>2, <1>3, <1>4, <1>5

\* An unlock with an older reference is dropped, the holder keeps the mutex.
LEMMA RejectOtherRefInv ==
  ASSUME MutexInv, RejectOtherRef
  PROVE  MutexInv'
<1> USE DEF MutexInv, RejectOtherRef, Reject, Serving, Shutdown, clientVars
<1>6. /\ unlockQ' \in Seq(Nat)
      /\ \A i \in DOMAIN unlockQ' : \E j \in DOMAIN unlockQ : unlockQ[j] = unlockQ'[i]
  BY TailElements DEF TypeOK
<1>1. TypeOK'
  BY <1>6 DEF TypeOK
<1>2. FreeMeansStale'
  BY <1>6 DEF FreeMeansStale
<1>3. OneHasCurrent'
  BY <1>6 DEF OneHasCurrent, HasCurrent
<1>4. PendingRelease'
  BY <1>6 DEF PendingRelease
<1>5. HolderHasCurrentRef'
  BY DEF HolderHasCurrentRef
<1> QED  BY <1>1, <1>2, <1>3, <1>4, <1>5

\* Every step of the system preserves the inductive invariant.
LEMMA StepMutexInv == MutexInv /\ [Next]_vars => MutexInv'
<1> SUFFICES ASSUME MutexInv, [Next]_vars PROVE MutexInv'
  OBVIOUS
<1>1. ASSUME NEW c \in Clients, Client(c) PROVE MutexInv'
  BY <1>1, CallLockInv, GetReplyInv, LockTimeoutInv, CallUnlockInv,
     AbortCriticalInv DEF Client
<1>2. CASE Dispatcher
  BY <1>2, GrantInv, ReleaseInv, RejectNotLockedInv, RejectOtherRefInv
  DEF Dispatcher
<1>3. CASE StopTestcase
  BY <1>3 DEF StopTestcase, MutexInv, TypeOK, FreeMeansStale, OneHasCurrent,
              HasCurrent, PendingRelease, HolderHasCurrentRef,
              clientVars, dispatcherVars
<1>4. CASE Finished \/ UNCHANGED vars
  BY <1>4 DEF Finished, vars, MutexInv, TypeOK, FreeMeansStale, OneHasCurrent,
              HasCurrent, PendingRelease, HolderHasCurrentRef
<1> QED  BY <1>1, <1>2, <1>3, <1>4 DEF Next

\* f_MutexDisp_main and the clients' f_Mutex_lock / f_Mutex_unlock keep the
\* inductive invariant in every reachable state.
THEOREM MutexInvariant == Spec => []MutexInv
  BY InitMutexInv, StepMutexInv, PTL DEF Spec

\* The variables keep their types: in particular no unlock is ever sent with an
\* unbound g_mutex_ref.
THEOREM MutexTypes == Spec => []TypeOK
<1>1. MutexInv => TypeOK
  BY DEF MutexInv
<1> QED  BY <1>1, MutexInvariant, PTL

\* The dispatcher knows the mutex as locked under the holder's reference.
THEOREM MutexHolder == Spec => []HolderHasCurrentRef
<1>1. MutexInv => HolderHasCurrentRef
  BY DEF MutexInv
<1> QED  BY <1>1, MutexInvariant, PTL

LEMMA ExclusionInv == MutexInv => MutualExclusion
<1> SUFFICES ASSUME MutexInv, NEW c \in Clients, NEW d \in Clients,
                    pc[c] = "critical", pc[d] = "critical"
             PROVE  c = d
  BY DEF MutualExclusion
<1>1. locked /\ HasCurrent(c) /\ HasCurrent(d)
  BY DEF MutexInv, HolderHasCurrentRef, HasCurrent
<1> QED  BY <1>1 DEF MutexInv, OneHasCurrent

\* No two components are between f_Mutex_lock and f_Mutex_unlock at a time, even
\* if careless components repeat unlocks.
THEOREM MutexExclusion == Spec => []MutualExclusion
  BY ExclusionInv, MutexInvariant, PTL

\* A grant never repeats a reference: when the dispatcher replies, every
\* reference held, granted or queued for release is older than the new one.
THEOREM MutexFreshReference == Spec => FreshReference
<1>1. ASSUME MutexInv, [Next]_vars
      PROVE  [\A c \in Clients : Len(inbox'[c]) > Len(inbox[c]) =>
                /\ \A d \in Clients : ref[d] < g_mutex_ref /\ inbox[d] = <<>>
                /\ \A i \in DOMAIN unlockQ : unlockQ[i] < g_mutex_ref]_vars
  <2> SUFFICES ASSUME NEW c \in Clients, Len(inbox'[c]) > Len(inbox[c])
               PROVE  ~locked
    BY <1>1 DEF MutexInv, FreeMeansStale
  <2> USE DEF MutexInv, TypeOK
  <2>1. inbox' # inbox
    BY <1>1
  <2>2. CASE \E d \in Clients : GetReply(d)
    <3> PICK d \in Clients : GetReply(d)
      BY <2>2
    <3>1. d = c /\ Len(inbox[c]) \in Nat /\ Len(Tail(inbox[c])) = Len(inbox[c]) - 1
      BY <1>1, HeadTailProperties DEF GetReply
    <3>2. inbox'[c] = Tail(inbox[c])
      BY <1>1, <3>1 DEF GetReply
    <3> QED  BY <3>1, <3>2
  <2>3. CASE Grant
    BY <2>3 DEF Grant, MayGrant
  <2> QED
    BY <1>1, <2>1, <2>2, <2>3
    DEF Next, Client, Dispatcher, CallLock, LockTimeout, CallUnlock,
        AbortCritical, Release, RejectNotLocked, RejectOtherRef, Reject,
        StopTestcase, Finished, vars
<1> QED  BY <1>1, MutexInvariant, PTL DEF Spec, FreshReference

-----------------------------------------------------------------------------
(* Discipline: a component that pairs each unlock with a lock.             *)

\* No two clients have the same reference.
DistinctRefs ==
    \A c, d \in Clients : ref[c] = ref[d] /\ ref[c] # Unbound => c = d

\* An unlock under way that carries the reference of a component which pairs
\* its unlocks with locks is the only such unlock, and it will be accepted.
PairedUnlocks ==
    \A c \in Clients \ Careless : \A i \in DOMAIN unlockQ :
        unlockQ[i] = ref[c] =>
            /\ locked
            /\ ref[c] = g_mutex_ref
            /\ \A j \in DOMAIN unlockQ : unlockQ[j] = ref[c] => j = i

\* The inductive invariant behind DisciplineSuffices.
DisciplineInv ==
    /\ MutexInv
    /\ DistinctRefs
    /\ PairedUnlocks

\* The current reference was handed out once: a reply in a LOCK port carries a
\* reference no client has yet.
LEMMA StepDistinctRefs ==
  ASSUME MutexInv, DistinctRefs, [Next]_vars
  PROVE  DistinctRefs'
<1> USE DEF MutexInv, DistinctRefs
<1>1. CASE \E c \in Clients : GetReply(c)
  <2> PICK c \in Clients : GetReply(c)
    BY <1>1
  <2>1. locked /\ inbox[c] = <<g_mutex_ref>>
    BY DEF GetReply, FreeMeansStale, OneHasCurrent
  <2>2. ref' = [ref EXCEPT ![c] = g_mutex_ref]
    BY <2>1, SingletonQueue DEF GetReply, ReplyRef, TypeOK
  <2>3. \A d \in Clients : d # c => ref[d] # g_mutex_ref
    BY <2>1 DEF GetReply, OneHasCurrent, HasCurrent
  <2> QED  BY <2>2, <2>3 DEF TypeOK
<1>2. CASE ~\E c \in Clients : GetReply(c)
  <2>1. ref' = ref
    BY <1>2 DEF Next, Client, Dispatcher, CallLock, LockTimeout, CallUnlock,
                AbortCritical, Grant, Release, RejectNotLocked, RejectOtherRef,
                Reject, StopTestcase, Finished, vars, clientVars
  <2> QED  BY <2>1
<1> QED  BY <1>1, <1>2

\* What is left in the UNLOCK port after its head was taken still satisfies the
\* claim; nothing with the reference of the head is left.
LEMMA PairedTail ==
  ASSUME MutexInv, PairedUnlocks, unlockQ # <<>>, unlockQ' = Tail(unlockQ),
         ref' = ref,
         \/ locked' = locked /\ g_mutex_ref' = g_mutex_ref
         \/ locked /\ Head(unlockQ) = g_mutex_ref
  PROVE  PairedUnlocks'
<1> SUFFICES ASSUME NEW c \in Clients \ Careless, NEW i \in DOMAIN Tail(unlockQ),
                    Tail(unlockQ)[i] = ref[c]
             PROVE  /\ locked'
                    /\ ref[c] = g_mutex_ref'
                    /\ \A j \in DOMAIN Tail(unlockQ) :
                          Tail(unlockQ)[j] = ref[c] => j = i
  BY DEF PairedUnlocks
<1>1. unlockQ \in Seq(Nat)
  BY DEF MutexInv, TypeOK
<1>2. \A j \in DOMAIN Tail(unlockQ) :
         j \in Nat /\ j + 1 \in DOMAIN unlockQ /\ unlockQ[j + 1] = Tail(unlockQ)[j]
  BY <1>1, HeadTailProperties
<1>3. /\ locked
      /\ ref[c] = g_mutex_ref
      /\ \A j \in DOMAIN unlockQ : unlockQ[j] = ref[c] => j = i + 1
  BY <1>2 DEF PairedUnlocks
<1>4. Head(unlockQ) # g_mutex_ref
  <2>1. Head(unlockQ) = unlockQ[1] /\ 1 \in DOMAIN unlockQ
    BY <1>1, TailElements
  <2>2. 1 # i + 1
    BY <1>2
  <2> QED  BY <1>3, <2>1, <2>2
<1>5. \A j \in DOMAIN Tail(unlockQ) : Tail(unlockQ)[j] = ref[c] => j = i
  <2> SUFFICES ASSUME NEW j \in DOMAIN Tail(unlockQ), Tail(unlockQ)[j] = ref[c]
               PROVE  j = i
    OBVIOUS
  <2>1. j + 1 = i + 1
    BY <1>2, <1>3
  <2> QED  BY <2>1, <1>2
<1> QED  BY <1>3, <1>4, <1>5

\* A disciplined component unlocks from its critical section only, where the
\* reference it holds is current and no unlock with it is under way.
LEMMA PairedCallUnlock ==
  ASSUME MutexInv, DistinctRefs, PairedUnlocks, NEW d \in Clients, CallUnlock(d)
  PROVE  PairedUnlocks'
<1> SUFFICES ASSUME NEW c \in Clients \ Careless, NEW i \in DOMAIN unlockQ',
                    unlockQ'[i] = ref[c]
             PROVE  /\ locked
                    /\ ref[c] = g_mutex_ref
                    /\ \A j \in DOMAIN unlockQ' : unlockQ'[j] = ref[c] => j = i
  BY DEF PairedUnlocks, CallUnlock, dispatcherVars
<1>0. unlockQ \in Seq(Nat) /\ Len(unlockQ) \in Nat /\ ref[d] \in Nat
  <2>1. pc[d] = "critical" => ref[d] \in Nat
    BY DEF MutexInv, TypeOK, HolderHasCurrentRef
  <2> QED  BY <2>1 DEF MutexInv, TypeOK, CallUnlock, HasRef, Unbound
<1>1. /\ unlockQ' = Append(unlockQ, ref[d])
      /\ DOMAIN unlockQ = 1 .. Len(unlockQ)
      /\ DOMAIN unlockQ' = 1 .. (Len(unlockQ) + 1)
      /\ unlockQ'[Len(unlockQ) + 1] = ref[d]
      /\ \A j \in DOMAIN unlockQ : unlockQ'[j] = unlockQ[j]
  BY <1>0 DEF CallUnlock
<1>2. CASE c = d
  <2>1. pc[c] = "critical"
    BY <1>2 DEF CallUnlock
  <2>2. locked /\ ref[c] = g_mutex_ref
    BY <2>1 DEF MutexInv, HolderHasCurrentRef
  <2>3. \A j \in DOMAIN unlockQ : unlockQ[j] # ref[c]
    BY <2>1, <2>2 DEF MutexInv, PendingRelease
  <2> QED  BY <1>0, <1>1, <2>2, <2>3
<1>3. CASE c # d
  <2>1. ref[c] # ref[d]
    BY <1>0, <1>3 DEF DistinctRefs, Unbound
  <2>2. \A j \in DOMAIN unlockQ' : unlockQ'[j] = ref[c] =>
            j \in DOMAIN unlockQ /\ unlockQ[j] = ref[c]
    BY <1>0, <1>1, <2>1
  <2> QED  BY <2>2 DEF PairedUnlocks
<1> QED  BY <1>2, <1>3

LEMMA StepPairedUnlocks ==
  ASSUME MutexInv, DistinctRefs, PairedUnlocks, [Next]_vars
  PROVE  PairedUnlocks'
<1>1. ASSUME NEW c \in Clients, GetReply(c)
      PROVE  PairedUnlocks'
  <2>1. locked /\ inbox[c] = <<g_mutex_ref>> /\ inbox[c] # <<>>
    BY <1>1 DEF MutexInv, GetReply, FreeMeansStale, OneHasCurrent
  <2>2. /\ ref' = [ref EXCEPT ![c] = g_mutex_ref]
        /\ locked' = locked /\ g_mutex_ref' = g_mutex_ref /\ unlockQ' = unlockQ
    BY <1>1, <2>1, SingletonQueue
    DEF GetReply, ReplyRef, MutexInv, TypeOK, dispatcherVars
  <2>3. \A i \in DOMAIN unlockQ : unlockQ[i] # g_mutex_ref
    BY <2>1 DEF MutexInv, PendingRelease
  <2>4. \A d \in Clients : ref'[d] = ref[d] \/ ref'[d] = g_mutex_ref
    BY <2>2 DEF MutexInv, TypeOK
  <2> SUFFICES ASSUME NEW d \in Clients \ Careless, NEW i \in DOMAIN unlockQ,
                      unlockQ[i] = ref'[d]
               PROVE  /\ locked
                      /\ ref'[d] = g_mutex_ref
                      /\ \A j \in DOMAIN unlockQ : unlockQ[j] = ref'[d] => j = i
    BY <2>2 DEF PairedUnlocks
  <2>5. ref'[d] = ref[d]
    BY <2>3, <2>4
  <2> QED  BY <2>5 DEF PairedUnlocks
<1>2. ASSUME NEW c \in Clients, CallUnlock(c)
      PROVE  PairedUnlocks'
  BY <1>2, PairedCallUnlock
<1>3. CASE Dispatcher
  <2>1. CASE Grant
    BY <2>1 DEF Grant, PairedUnlocks, clientVars, MayGrant
  <2>2. CASE Release
    BY <2>2, PairedTail DEF Release, RefAccepted, clientVars
  <2>3. CASE RejectNotLocked
    BY <2>3, PairedTail DEF RejectNotLocked, Reject, clientVars
  <2>4. CASE RejectOtherRef
    BY <2>4, PairedTail DEF RejectOtherRef, Reject, clientVars
  <2> QED  BY <1>3, <2>1, <2>2, <2>3, <2>4 DEF Dispatcher
<1>4. CASE /\ unlockQ' = unlockQ /\ ref' = ref
           /\ locked' = locked /\ g_mutex_ref' = g_mutex_ref
  BY <1>4 DEF PairedUnlocks
<1>5. ASSUME NEW c \in Clients,
             CallLock(c) \/ LockTimeout(c) \/ AbortCritical(c)
      PROVE  PairedUnlocks'
  BY <1>4, <1>5 DEF CallLock, LockTimeout, AbortCritical, dispatcherVars
<1> QED
  BY <1>1, <1>2, <1>3, <1>4, <1>5
  DEF Next, Client, StopTestcase, Finished, vars, clientVars, dispatcherVars

LEMMA InitDisciplineInv == Init => DisciplineInv
<1>1. Init => DistinctRefs /\ PairedUnlocks
  BY DEF Init, DistinctRefs, PairedUnlocks
<1> QED  BY <1>1, InitMutexInv DEF DisciplineInv

\* DisciplineInv holds in every reachable state.
THEOREM MutexDisciplineInvariant == Spec => []DisciplineInv
<1>1. DisciplineInv /\ [Next]_vars => DisciplineInv'
  BY StepMutexInv, StepDistinctRefs, StepPairedUnlocks DEF DisciplineInv
<1> QED  BY <1>1, InitDisciplineInv, PTL DEF Spec

\* Whose unlock a step rejects has not paired it with a lock.
LEMMA RejectsCareless ==
  ASSUME DisciplineInv, [Next]_vars, disp' # disp, NEW c \in Clients \ Careless
  PROVE  ref[c] # Head(unlockQ)
<1> SUFFICES ASSUME ref[c] = Head(unlockQ) PROVE FALSE
  OBVIOUS
<1>1. RejectNotLocked \/ RejectOtherRef
  BY DEF Next, Client, Dispatcher, CallLock, GetReply, LockTimeout, CallUnlock,
         AbortCritical, Grant, Release, StopTestcase, Finished, vars, dispatcherVars
<1>2. unlockQ # <<>>
  BY <1>1 DEF RejectNotLocked, RejectOtherRef
<1>3. Head(unlockQ) = unlockQ[1] /\ 1 \in DOMAIN unlockQ
  BY <1>2, TailElements DEF DisciplineInv, MutexInv, TypeOK
<1>4. locked /\ ref[c] = g_mutex_ref
  BY <1>3 DEF DisciplineInv, PairedUnlocks
<1> QED  BY <1>1, <1>4 DEF RejectNotLocked, RejectOtherRef, RefAccepted

\* The failing alternatives of f_MutexDisp_main never take an unlock of a
\* component that pairs each unlock with a lock, whatever the others do.
THEOREM MutexDiscipline == Spec => DisciplineSuffices
<1>1. ASSUME DisciplineInv, [Next]_vars
      PROVE  [disp' # disp => \A c \in Clients \ Careless : ref[c] # Head(unlockQ)]_vars
  BY <1>1, RejectsCareless
<1> QED  BY <1>1, MutexDisciplineInvariant, PTL DEF Spec, DisciplineSuffices

-----------------------------------------------------------------------------
(* The ConnHdlrs that share the PFCP dispatcher, for any number of them    *)
(* and of their sessions: the mutex keeps their subscriptions to SEID 0    *)
(* apart, so that each PDU reaches the ConnHdlr it is for.                 *)

Elems(s) == {s[i] : i \in 1..Len(s)}

\* At most one element of the queue is in S.
Once(s, S) == \A i, j \in 1..Len(s) : s[i] \in S /\ s[j] \in S => i = j

RequestKinds == {"est_req", "mod_req", "del_req", "assoc_req", "heartbeat_req"}
AnswerKinds == {"est_resp", "mod_resp", "del_resp", "assoc_resp", "heartbeat_resp"}
PduKinds == RequestKinds \cup AnswerKinds
Ops == {"subscribe_bcast", "unsubscribe_bcast", "subscribe_seid", "unsubscribe_seid",
        "get_recovery_timestamp"}
Stages == {"start", "assoc", "assoc_answer", "assoc_send", "locking", "trigger", "establish",
           "establish_answer", "unlock", "setup", "modify", "modified", "delete", "deleted",
           "heartbeat", "heartbeat_sent", "done"}

\* Whom a PDU is for; SEIDs of the ConnHdlrs, and all; sequence numbers of the
\* dispatcher, and all.
Owners == ConnHdlrs \X Nat
OwnSeids == Users \X Sessions
Seids == {SEID0, NoSeid} \cup OwnSeids
Numbers == {<<n>> : n \in Nat}
Seqnrs == Numbers \cup (PduKinds \X Owners)

Pdus == [kind : PduKinds, seqnr : Seqnrs, seid : Seids, owner : Owners]

\* The sequence number the system under test gave to a request or an answer to it.
Named(pdu) == \E kind \in PduKinds : pdu.seqnr = <<kind, pdu.owner>>

\* A request of the system under test.
IsRequest(pdu) ==
    /\ pdu.kind \in RequestKinds /\ Named(pdu)
    /\ pdu.kind = "est_req" => pdu.seid = SEID0 /\ pdu.owner \in OwnSeids
    /\ pdu.kind \in {"mod_req", "del_req"} => pdu.seid = pdu.owner /\ pdu.owner \in OwnSeids
    /\ pdu.kind \in {"assoc_req", "heartbeat_req"} =>
          pdu.seid = NoSeid /\ pdu.owner[1] = Associator

\* A heartbeat of a ConnHdlr, or the answer to it, under a number of the dispatcher.
IsNumbered(pdu) == pdu.seqnr \in Numbers /\ pdu.seid = NoSeid /\ pdu.owner[1] \in Users
IsAnswer(pdu) == pdu.kind = "heartbeat_resp" /\ IsNumbered(pdu)

FromIut == {pdu \in Pdus : IsRequest(pdu) \/ IsAnswer(pdu)}
ToIut == {pdu \in Pdus : IF pdu.kind = "heartbeat_req" THEN IsNumbered(pdu) ELSE Named(pdu)}

\* What a ConnHdlr sends: an answer, or a heartbeat request without a number.
FromHdlrs ==
    {c \in [from : ConnHdlrs, pdu : Pdus] :
        /\ c.from = c.pdu.owner[1]
        /\ \/ Named(c.pdu) /\ c.pdu.kind # "heartbeat_req"
           \/ /\ c.pdu.kind = "heartbeat_req" /\ c.pdu.seqnr = <<0>>
              /\ c.pdu.seid = NoSeid /\ c.from \in Users}

CallRecords == [from : ConnHdlrs, op : Ops, seid : Seids]

\* Who is listed for the number of a request sent it, or is its addressee.
SeqnrEntries ==
    {conn \in [vc_conn : ConnHdlrs, key : Seqnrs] :
        \/ conn.key \in Numbers
        \/ \E kind \in PduKinds, owner \in Owners :
              conn.key = <<kind, owner>> /\ conn.vc_conn = owner[1]}

SessionTypes ==
    /\ g_conns_bcast \subseteq [vc_conn : ConnHdlrs, key : ConnHdlrs]
    /\ g_conns_seqnr \subseteq SeqnrEntries
    /\ g_conns_seid \subseteq [vc_conn : ConnHdlrs, key : Seids]
    /\ g_next_sequence_nr_state \in Nat
    /\ rxQ \in Seq(FromIut) /\ txQ \in Seq(ToIut)
    /\ clientQ \in Seq(FromHdlrs) /\ procQ \in Seq(CallRecords)
    /\ result \in [ConnHdlrs -> {"waiting", "true", "false"}]
    /\ pfcp \in [ConnHdlrs -> Seq(FromIut)]
    /\ stage \in [ConnHdlrs -> Stages]
    /\ erab \in [Users -> Nat]
    /\ procedure \in [Users -> {"none", "est", "mod", "del"}]
    /\ progress \in [Users -> [Sessions -> {"idle", "requested", "done"}]]
    /\ heartbeats \in Nat

\* What is at the port of a ConnHdlr is for it.
Addressed == \A h \in ConnHdlrs : \A pdu \in Elems(pfcp[h]) : pdu.owner[1] = h

\* A ConnHdlr that is about to answer has the request at the head of its port.
Heads ==
    /\ \A h \in Users : stage[h] = "establish_answer" \/ (stage[h] = "unlock" /\ suite = "hnbgw") =>
          pfcp[h] # <<>> /\ Head(pfcp[h]).kind = "est_req"
    /\ stage[Associator] \in {"assoc_answer", "assoc_send"} =>
          pfcp[Associator] # <<>> /\ Head(pfcp[Associator]).kind = "assoc_req"

-----------------------------------------------------------------------------
(* Calls and subscriptions. *)

CallsBy(h) == {c \in CallRecords : c.from = h}
Pending(h, op, seid) == [from |-> h, op |-> op, seid |-> seid] \in Elems(procQ)

\* A call waits for its reply where its caller made it.
InPlace(c) ==
    /\ result[c.from] = "waiting"
    /\ c.op = "subscribe_bcast" => c.from = Associator /\ stage[Associator] = "assoc"
    /\ c.op = "subscribe_seid" =>
          \/ c.seid = SEID0 /\ c.from \in Users /\ stage[c.from] = "trigger"
          \/ c.seid \in OwnSeids /\ c.from = c.seid[1]
    /\ c.op = "unsubscribe_seid" /\ c.seid = SEID0 => stage[c.from] = "unlock"

\* Who is subscribed to SEID 0 will unsubscribe before it unlocks the mutex.
Subscribed == {"trigger", "establish", "establish_answer"}
WillUnsubscribe(h) ==
    \/ stage[h] \in Subscribed
    \/ stage[h] = "unlock" /\ Pending(h, "unsubscribe_seid", SEID0)

SeidInPlace(conn) ==
    \/ conn.key = SEID0 /\ conn.vc_conn \in Users /\ WillUnsubscribe(conn.vc_conn)
    \/ conn.key \in OwnSeids /\ conn.vc_conn = conn.key[1]

BcastInPlace(conn) ==
    /\ conn.key = Associator
    /\ \/ stage[Associator] = "assoc"
       \/ stage[Associator] = "assoc_answer" /\ Pending(Associator, "unsubscribe_bcast", NoSeid)

CallsInv ==
    /\ \A h \in ConnHdlrs : Once(procQ, CallsBy(h))
    /\ \A c \in Elems(procQ) : InPlace(c)
    /\ \A conn \in g_conns_seid : SeidInPlace(conn)
    /\ \A conn \in g_conns_bcast : BcastInPlace(conn)

\* Before the association is set up the testcase has not begun.
Begun ==
    /\ \A h \in Users : stage[h] # "start" => Associated /\ suite # "none"
    /\ \A pdu \in Elems(rxQ) \cup Elems(txQ) : pdu.owner[1] \in Users => Associated
    /\ \A c \in Elems(clientQ) : c.from \in Users => Associated

-----------------------------------------------------------------------------
(* Establishment requests. *)

EstRequests(h, e) == {pdu \in FromIut : pdu.kind = "est_req" /\ pdu.owner = <<h, e>>}
Coming(h, e) == \E pdu \in Elems(rxQ) : pdu \in EstRequests(h, e)
Come(h, e) == \E pdu \in Elems(pfcp[h]) : pdu \in EstRequests(h, e)

Early(h) == stage[h] \in {"start", "locking", "trigger"}
Establishing(h) == stage[h] \in {"establish", "establish_answer"}

\* h has taken the e-th establishment request from its port.
Answered(h, e) ==
    \/ stage[h] = "establish" /\ e < erab[h]
    \/ stage[h] = "establish_answer" /\ e <= erab[h]
    \/ stage[h] \in {"unlock", "setup"}

HdlrEst(h) ==
    /\ procedure[h] = "none" => \A e \in Sessions : progress[h][e] # "requested"
    /\ Early(h) => erab[h] = 1 /\ procedure[h] = "none"
    /\ (procedure[h] = "est") <=> (Establishing(h) \/ stage[h] \in {"unlock", "setup"})
    /\ Establishing(h) => erab[h] \in SessionsOf

SessionEst(h, e) ==
    /\ Coming(h, e) => Establishing(h)
    /\ Coming(h, e) \/ Come(h, e) => e \in SessionsOf /\ ~Early(h)
    /\ procedure[h] = "est" /\ progress[h][e] = "idle" => ~Coming(h, e) /\ ~Come(h, e)
    /\ procedure[h] = "est" /\ Come(h, e) => ~Coming(h, e)
    /\ Answered(h, e) /\ e \in SessionsOf => ~Coming(h, e) /\ progress[h][e] # "idle"
    /\ Once(rxQ, EstRequests(h, e))

EstInv == \A h \in Users : HdlrEst(h) /\ \A e \in Sessions : SessionEst(h, e)

-----------------------------------------------------------------------------
(* The mutex. *)

\* Between its lock and its unlock h has the current reference.
Inside(h) == stage[h] \in Subscribed \cup {"unlock"}
HasMutex(h) ==
    /\ pc[h] \in {"critical", "shutdown"}
    /\ locked /\ ref[h] = g_mutex_ref
    /\ \A i \in DOMAIN unlockQ : unlockQ[i] # g_mutex_ref

Region == \A h \in Users : Inside(h) => HasMutex(h)

-----------------------------------------------------------------------------
(* The dispatcher's sequence numbers. *)

HeartbeatsOf(h) == {c \in FromHdlrs : c.from = h /\ c.pdu.kind = "heartbeat_req"}
Queued(h) == \E c \in Elems(clientQ) : c \in HeartbeatsOf(h)

\* A ConnHdlr sends one heartbeat request.
HeartbeatInv ==
    \A h \in Users : /\ Once(clientQ, HeartbeatsOf(h))
                     /\ Queued(h) => stage[h] \in {"heartbeat_sent", "done"}

\* The ConnHdlrs whose heartbeat request has got a number.
Forwarded == {h \in Users : stage[h] \in {"heartbeat_sent", "done"} /\ ~Queued(h)}

InUse(n) ==
    \/ \E conn \in g_conns_seqnr : conn.key = <<n>>
    \/ \E pdu \in Elems(rxQ) \cup Elems(txQ) : pdu.seqnr = <<n>>

\* How many numbers the dispatcher has handed out since n.
Since(n) ==
    IF n <= g_next_sequence_nr_state THEN g_next_sequence_nr_state - n
    ELSE g_next_sequence_nr_state + LastSeqnr - n

Recent ==
    \A n \in Nat : InUse(n) =>
        /\ n \in 1..LastSeqnr /\ g_next_sequence_nr_state \in 1..LastSeqnr
        /\ Since(n) < Cardinality(Forwarded)

\* Who is listed under the number of a heartbeat has sent it.
Listing ==
    \A conn \in g_conns_seqnr : \A pdu \in Elems(rxQ) \cup Elems(txQ) :
        conn.key \in Numbers /\ pdu.seqnr = conn.key => pdu.owner[1] = conn.vc_conn

NumbersInv == HeartbeatInv /\ Recent /\ Listing

-----------------------------------------------------------------------------
SessionsInv ==
    /\ MutexInv /\ Region
    /\ SessionTypes /\ Addressed /\ Heads
    /\ CallsInv /\ Begun /\ EstInv /\ NumbersInv

-----------------------------------------------------------------------------
(* Queues. *)

LEMMA QueueAppend ==
  ASSUME NEW T, NEW s \in Seq(T), NEW m \in T
  PROVE  /\ Append(s, m) \in Seq(T) /\ Append(s, m) # <<>>
         /\ s # <<>> => Head(Append(s, m)) = Head(s)
         /\ Elems(Append(s, m)) = Elems(s) \cup {m}
         /\ \A S : Once(s, S) /\ (m \in S => \A x \in Elems(s) : x \notin S) => Once(Append(s, m), S)
<1> DEFINE r == Append(s, m)
           n == Len(s) + 1
<1>1. /\ r \in Seq(T) /\ r[n] = m /\ n \in 1..Len(r) /\ n \notin 1..Len(s)
      /\ \A i \in 1..Len(s) : i \in 1..Len(r) /\ r[i] = s[i]
      /\ \A i \in 1..Len(r) : i \in 1..Len(s) \/ i = n
  OBVIOUS
<1>2. r # <<>> /\ (s # <<>> => Head(r) = Head(s))
  <2>3. r # <<>>
    <3>1. Len(<<>>) = 0 /\ Len(r) # 0
      BY <1>1
    <3> HIDE DEF r
    <3> QED  BY <3>1
  <2>1. s # <<>> => s[1] = Head(s) /\ 1 \in 1..Len(s)
    OBVIOUS
  <2>2. r \in Seq(T) => Head(r) = r[1]
    OBVIOUS
  <2> QED  BY <2>1, <2>2, <2>3, <1>1
<1> HIDE DEF r, n
<1>3. Elems(r) = Elems(s) \cup {m}
  BY <1>1 DEF Elems
<1>4. \A S : Once(s, S) /\ (m \in S => \A x \in Elems(s) : x \notin S) => Once(r, S)
  BY <1>1 DEF Elems, Once
<1> QED  BY <1>1, <1>2, <1>3, <1>4 DEF r

LEMMA QueueTake ==
  ASSUME NEW T, NEW s \in Seq(T), s # <<>>
  PROVE  /\ Tail(s) \in Seq(T) /\ Head(s) \in T /\ Head(s) \in Elems(s)
         /\ Elems(Tail(s)) \subseteq Elems(s)
         /\ \A x \in Elems(s) : x = Head(s) \/ x \in Elems(Tail(s))
         /\ \A S : Once(s, S) => /\ Once(Tail(s), S)
                                 /\ Head(s) \in S => \A x \in Elems(Tail(s)) : x \notin S
<1> DEFINE r == Tail(s)
           h == Head(s)
<1>1. /\ r \in Seq(T) /\ h \in T /\ h = s[1] /\ 1 \in 1..Len(s)
      /\ \A i \in 1..Len(r) : i + 1 \in 1..Len(s) /\ r[i] = s[i + 1] /\ i + 1 # 1
      /\ \A i \in 1..Len(s) : i = 1 \/ (i - 1 \in 1..Len(r) /\ r[i - 1] = s[i])
  OBVIOUS
<1>2. \A i, j \in 1..Len(r) : i + 1 = j + 1 => i = j
  OBVIOUS
<1> HIDE DEF r, h
<1>3. h \in Elems(s) /\ Elems(r) \subseteq Elems(s)
  BY <1>1 DEF Elems
<1>4. \A x \in Elems(s) : x = h \/ x \in Elems(r)
  BY <1>1 DEF Elems
<1>5. \A S : Once(s, S) => Once(r, S)
  BY <1>1, <1>2 DEF Once
<1>6. ASSUME NEW S, Once(s, S), h \in S, NEW x \in Elems(r), x \in S PROVE FALSE
  <2> PICK i \in 1..Len(r) : r[i] = x
    BY <1>6 DEF Elems
  <2> QED  BY <1>1, <1>6 DEF Once
<1> QED  BY <1>1, <1>3, <1>4, <1>5, <1>6 DEF r, h

LEMMA QueueElems ==
  ASSUME NEW T, NEW s \in Seq(T) PROVE Elems(s) \subseteq T
  BY DEF Elems

LEMMA QueueEmpty == Elems(<<>>) = {} /\ \A S : Once(<<>>, S)
  BY DEF Elems, Once

LEMMA NamesAreNoNumbers ==
  ASSUME NEW a, NEW b, NEW n PROVE <<a, b>> # <<n>>
<1>1. Len(<<a, b>>) = 2 /\ Len(<<n>>) = 1
  OBVIOUS
<1> QED  BY <1>1

-----------------------------------------------------------------------------
(* Constants, and the PDUs each side makes. *)

LEMMA Hdlrs ==
  /\ Associator \in ConnHdlrs /\ Associator \notin Users
  /\ \A h \in Users : h \in Clients /\ h \in ConnHdlrs /\ h # Associator
  /\ NoOne \notin ConnHdlrs
  /\ Users \subseteq Clients /\ Users \subseteq ConnHdlrs
  BY SessionsAssumption, PFCPAssumption

LEMMA SeidsAre ==
  /\ SEID0 \notin OwnSeids /\ NoSeid \notin OwnSeids /\ SEID0 # NoSeid
  /\ SEID0 \in Seids /\ NoSeid \in Seids
  /\ \A h \in Users : \A e \in Sessions :
        /\ LocSeid(h, e) = <<h, e>> /\ <<h, e>> \in OwnSeids /\ <<h, e>> \in Seids
        /\ <<h, e>> \in Owners /\ <<h, e>>[1] = h /\ <<h, e>>[2] = e
  /\ \A s \in OwnSeids : s[1] \in Users /\ s[2] \in Sessions /\ s = <<s[1], s[2]>>
<1>1. SEID0 \notin OwnSeids /\ NoSeid \notin OwnSeids /\ SEID0 # NoSeid
  BY SessionsAssumption DEF OwnSeids, Sessions
<1>2. SEID0 \in Seids /\ NoSeid \in Seids
  BY DEF Seids
<1>3. ASSUME NEW h \in Users, NEW e \in Sessions
      PROVE  /\ LocSeid(h, e) = <<h, e>> /\ <<h, e>> \in OwnSeids /\ <<h, e>> \in Seids
             /\ <<h, e>> \in Owners /\ <<h, e>>[1] = h /\ <<h, e>>[2] = e
  <2>1. h \in ConnHdlrs /\ e \in Nat
    BY Hdlrs, SessionsAssumption DEF Sessions
  <2> QED  BY <2>1 DEF LocSeid, OwnSeids, Seids, Owners
<1>4. \A s \in OwnSeids : s[1] \in Users /\ s[2] \in Sessions /\ s = <<s[1], s[2]>>
  BY DEF OwnSeids
<1> QED  BY <1>1, <1>2, <1>3, <1>4

LEMMA SessionsAre ==
  /\ SessionsOf \subseteq Sessions /\ 1 \in SessionsOf /\ 1 \in Sessions
  /\ suite # "s1gw" => SessionsOf = {1}
  /\ suite = "s1gw" => SessionsOf = Sessions
  /\ Sessions = 1..NumErabs /\ NumErabs \in Nat \ {0}
  BY SessionsAssumption DEF SessionsOf, Sessions

LEMMA NoNumber ==
  ASSUME NEW pdu, Named(pdu) PROVE pdu.seqnr \notin Numbers
<1> PICK kind \in PduKinds : pdu.seqnr = <<kind, pdu.owner>>
  BY DEF Named
<1> QED  BY NamesAreNoNumbers DEF Numbers

\* A request for a session, under a number of its own.
SessionPdu(kind, h, e) ==
    PDU(kind, <<kind, <<h, e>>>>, IF kind = "est_req" THEN SEID0 ELSE LocSeid(h, e), <<h, e>>)

LEMMA RequestMade ==
  ASSUME NEW h \in Users, NEW e \in Sessions, NEW kind \in {"est_req", "mod_req", "del_req"},
         NEW pdu, pdu = SessionPdu(kind, h, e)
  PROVE  /\ pdu \in FromIut /\ pdu.kind = kind /\ pdu.owner = <<h, e>>
         /\ pdu.seqnr \notin Numbers /\ pdu.owner[1] = h
<1>1. /\ LocSeid(h, e) = <<h, e>> /\ <<h, e>> \in OwnSeids /\ <<h, e>> \in Seids
      /\ <<h, e>> \in Owners /\ <<h, e>>[1] = h /\ SEID0 \in Seids
  BY SeidsAre
<1> PICK seid : seid = IF kind = "est_req" THEN SEID0 ELSE LocSeid(h, e)
  OBVIOUS
<1>7. pdu = PDU(kind, <<kind, <<h, e>>>>, seid, <<h, e>>)
  BY DEF SessionPdu
<1>2. /\ pdu.kind = kind /\ pdu.owner = <<h, e>> /\ pdu.seid = seid
      /\ pdu.seqnr = <<kind, <<h, e>>>>
  BY <1>7 DEF PDU
<1>3. kind \in PduKinds /\ kind \in RequestKinds /\ <<kind, <<h, e>>>> \in Seqnrs
  BY <1>1 DEF PduKinds, RequestKinds, Seqnrs
<1>4. Named(pdu)
  BY <1>2, <1>3 DEF Named
<1>5. pdu \in Pdus
  BY <1>1, <1>3, <1>7 DEF Pdus, PDU
<1>6. IsRequest(pdu)
  BY <1>1, <1>2, <1>3, <1>4 DEF IsRequest
<1> QED  BY <1>1, <1>2, <1>4, <1>5, <1>6, NoNumber DEF FromIut

LEMMA AssociatorRequestMade ==
  ASSUME NEW kind \in {"assoc_req", "heartbeat_req"}, NEW n \in Nat,
         NEW pdu, pdu = PDU(kind, <<kind, <<Associator, n>>>>, NoSeid, <<Associator, n>>)
  PROVE  /\ pdu \in FromIut /\ pdu.kind = kind /\ pdu.owner[1] = Associator
         /\ pdu.seqnr \notin Numbers
<1>1. /\ <<Associator, n>> \in Owners /\ <<Associator, n>>[1] = Associator /\ NoSeid \in Seids
  BY Hdlrs DEF Owners, Seids
<1>2. /\ pdu.kind = kind /\ pdu.owner = <<Associator, n>> /\ pdu.seid = NoSeid
      /\ pdu.seqnr = <<kind, <<Associator, n>>>>
  BY DEF PDU
<1>3. kind \in PduKinds /\ kind \in RequestKinds /\ <<kind, <<Associator, n>>>> \in Seqnrs
  BY <1>1 DEF PduKinds, RequestKinds, Seqnrs
<1>4. Named(pdu)
  BY <1>2, <1>3 DEF Named
<1>5. pdu \in Pdus
  BY <1>1, <1>3 DEF Pdus, PDU
<1>6. IsRequest(pdu)
  BY <1>1, <1>2, <1>3, <1>4 DEF IsRequest
<1> QED  BY <1>1, <1>2, <1>4, <1>5, <1>6, NoNumber DEF FromIut

\* The same PDU as an answer.
AsAnswer(p, kind) == [p EXCEPT !.kind = kind, !.seid = NoSeid]

LEMMA AnswerMade ==
  ASSUME NEW h \in ConnHdlrs, NEW p \in FromIut, p.owner[1] = h,
         p.kind \in {"est_req", "mod_req", "del_req", "assoc_req"},
         NEW kind \in AnswerKinds, NEW pdu, pdu = AsAnswer(p, kind),
         NEW c, c = [from |-> h, pdu |-> pdu]
  PROVE  c \in FromHdlrs /\ c.from = h /\ c.pdu.kind # "heartbeat_req"
<1>1. p \in Pdus /\ Named(p)
  BY DEF FromIut, IsRequest, IsAnswer
<1>2. kind \in PduKinds /\ kind # "heartbeat_req" /\ NoSeid \in Seids
  BY SeidsAre DEF AnswerKinds, PduKinds
<1>3. pdu \in Pdus /\ pdu.kind = kind /\ pdu.owner = p.owner /\ pdu.seqnr = p.seqnr
  BY <1>1, <1>2 DEF Pdus, AsAnswer
<1>4. Named(pdu)
  BY <1>1, <1>3 DEF Named
<1>5. /\ c \in [from : ConnHdlrs, pdu : Pdus] /\ c.from = h /\ c.pdu = pdu
  BY <1>3
<1> QED  BY <1>2, <1>3, <1>4, <1>5 DEF FromHdlrs

LEMMA HeartbeatMade ==
  ASSUME NEW h \in Users
  PROVE  \A c : c = [from |-> h, pdu |-> PDU("heartbeat_req", <<0>>, NoSeid, <<h, 1>>)]
                 => c \in HeartbeatsOf(h)
<1> TAKE c
<1> HAVE c = [from |-> h, pdu |-> PDU("heartbeat_req", <<0>>, NoSeid, <<h, 1>>)]
<1> DEFINE pdu == PDU("heartbeat_req", <<0>>, NoSeid, <<h, 1>>)
<1>1. /\ h \in ConnHdlrs /\ <<h, 1>> \in Owners /\ NoSeid \in Seids /\ <<0>> \in Seqnrs
      /\ "heartbeat_req" \in PduKinds
  BY Hdlrs, SeidsAre DEF Owners, Seqnrs, Numbers, PduKinds, RequestKinds
<1>2. /\ pdu.kind = "heartbeat_req" /\ pdu.seqnr = <<0>> /\ pdu.seid = NoSeid
      /\ pdu.owner = <<h, 1>> /\ pdu.owner[1] = h
  BY DEF PDU
<1>3. pdu \in Pdus
  BY <1>1 DEF Pdus, PDU
<1> HIDE DEF pdu
<1>4. c \in [from : ConnHdlrs, pdu : Pdus] /\ c.from = h /\ c.pdu = pdu
  BY <1>1, <1>3 DEF pdu
<1> QED  BY <1>2, <1>4 DEF HeartbeatsOf, FromHdlrs

-----------------------------------------------------------------------------
(* Calls and subscriptions. *)

LEMMA CallsFrame ==
  ASSUME CallsInv, UNCHANGED <<procQ, result, stage, g_conns_seid, g_conns_bcast>>
  PROVE  CallsInv'
  BY DEF CallsInv, InPlace, SeidInPlace, BcastInPlace, WillUnsubscribe, Pending

\* A ConnHdlr that runs has no call under way.
LEMMA NoneUnderWay ==
  ASSUME SessionTypes, CallsInv, NEW h \in ConnHdlrs, result[h] = "true"
  PROVE  /\ \A c \in Elems(procQ) : c.from # h /\ c.from \in ConnHdlrs
         /\ ~Pending(h, "unsubscribe_seid", SEID0) /\ ~Pending(h, "unsubscribe_bcast", NoSeid)
<1>1. \A c \in Elems(procQ) : c.from # h
  BY DEF CallsInv, InPlace
<1>2. Elems(procQ) \subseteq CallRecords
  BY QueueElems DEF SessionTypes
<1>3. \A c \in CallRecords : c.from \in ConnHdlrs
  BY DEF CallRecords
<1>4. \A op, seid : [from |-> h, op |-> op, seid |-> seid].from = h
  OBVIOUS
<1>5. \A op, seid : ~Pending(h, op, seid)
  BY <1>1, <1>4 DEF Pending
<1> QED  BY <1>1, <1>2, <1>3, <1>5

LEMMA CallsQuiet ==
  ASSUME SessionTypes, CallsInv, NEW h \in ConnHdlrs, result[h] = "true",
         NEW s \in Stages, stage' = [stage EXCEPT ![h] = s],
         UNCHANGED <<procQ, result, g_conns_seid, g_conns_bcast>>,
         stage[h] \in Subscribed => s \in Subscribed,
         h = Associator => stage[h] # "assoc"
  PROVE  CallsInv'
<1>0. stage \in [ConnHdlrs -> Stages] /\ procQ \in Seq(CallRecords)
  BY DEF SessionTypes
<1>1. /\ \A c \in Elems(procQ) : c.from # h /\ c.from \in ConnHdlrs
      /\ ~Pending(h, "unsubscribe_seid", SEID0) /\ ~Pending(h, "unsubscribe_bcast", NoSeid)
  BY NoneUnderWay
<1>2. \A x \in ConnHdlrs : x # h => stage'[x] = stage[x]
  BY <1>0
<1>3. stage'[h] = s
  BY <1>0
<1>4. \A c \in Elems(procQ') : InPlace(c)'
  <2> SUFFICES ASSUME NEW c \in Elems(procQ) PROVE InPlace(c)'
    OBVIOUS
  <2>1. InPlace(c) /\ stage'[c.from] = stage[c.from]
    BY <1>1, <1>2 DEF CallsInv
  <2> QED  BY <2>1, <1>1 DEF InPlace
<1>5. \A conn \in g_conns_seid' : SeidInPlace(conn)'
  <2> SUFFICES ASSUME NEW conn \in g_conns_seid PROVE SeidInPlace(conn)'
    OBVIOUS
  <2>1. SeidInPlace(conn) /\ conn.vc_conn \in ConnHdlrs
    BY DEF CallsInv, SessionTypes
  <2>2. WillUnsubscribe(conn.vc_conn) => WillUnsubscribe(conn.vc_conn)'
    BY <2>1, <1>1, <1>2, <1>3 DEF WillUnsubscribe, Pending
  <2> QED  BY <2>1, <2>2 DEF SeidInPlace
<1>6. \A conn \in g_conns_bcast' : BcastInPlace(conn)'
  BY <1>1, <1>2, <1>3, Hdlrs DEF CallsInv, BcastInPlace, Pending
<1> QED  BY <1>4, <1>5, <1>6 DEF CallsInv

LEMMA CallsAsk ==
  ASSUME SessionTypes, CallsInv, NEW h \in ConnHdlrs, result[h] = "true",
         NEW s \in Stages, stage' = [stage EXCEPT ![h] = s],
         NEW op \in Ops, NEW seid \in Seids, Call(h, op, seid),
         UNCHANGED <<g_conns_seid, g_conns_bcast>>,
         stage[h] \in Subscribed =>
            s \in Subscribed \/ (s = "unlock" /\ op = "unsubscribe_seid" /\ seid = SEID0),
         h = Associator /\ stage[h] = "assoc" =>
            s = "assoc_answer" /\ op = "unsubscribe_bcast" /\ seid = NoSeid,
         op = "subscribe_bcast" => h = Associator /\ s = "assoc",
         op = "subscribe_seid" => \/ seid = SEID0 /\ h \in Users /\ s = "trigger"
                                  \/ seid \in OwnSeids /\ h = seid[1],
         op = "unsubscribe_seid" /\ seid = SEID0 => s = "unlock"
  PROVE  CallsInv' /\ procQ' \in Seq(CallRecords)
         /\ result' \in [ConnHdlrs -> {"waiting", "true", "false"}]
<1> DEFINE new == [from |-> h, op |-> op, seid |-> seid]
<1>0. /\ stage \in [ConnHdlrs -> Stages] /\ procQ \in Seq(CallRecords)
      /\ result \in [ConnHdlrs -> {"waiting", "true", "false"}]
  BY DEF SessionTypes
<1>1. /\ \A c \in Elems(procQ) : c.from # h /\ c.from \in ConnHdlrs
      /\ ~Pending(h, "unsubscribe_seid", SEID0) /\ ~Pending(h, "unsubscribe_bcast", NoSeid)
  BY NoneUnderWay
<1>2. /\ \A x \in ConnHdlrs : x # h => stage'[x] = stage[x] /\ result'[x] = result[x]
      /\ stage'[h] = s /\ result'[h] = "waiting"
      /\ result' \in [ConnHdlrs -> {"waiting", "true", "false"}]
  BY <1>0 DEF Call
<1>3. new \in CallRecords /\ new.from = h /\ new.op = op /\ new.seid = seid
  BY DEF CallRecords
<1>4. /\ procQ' \in Seq(CallRecords) /\ Elems(procQ') = Elems(procQ) \cup {new}
      /\ \A S : Once(procQ, S) /\ (new \in S => \A c \in Elems(procQ) : c \notin S)
            => Once(procQ', S)
  <2>1. procQ' = Append(procQ, new)
    BY DEF Call
  <2> HIDE DEF new
  <2> QED  BY <2>1, <1>0, <1>3, QueueAppend
<1>P. \A x \in ConnHdlrs : \A o \in Ops : \A d \in Seids : Pending(x, o, d) => Pending(x, o, d)'
  BY <1>4 DEF Pending
<1>N. Pending(h, op, seid)'
  BY <1>4 DEF Pending
<1> HIDE DEF new
<1>5. \A x \in ConnHdlrs : Once(procQ', CallsBy(x))
  <2> SUFFICES ASSUME NEW x \in ConnHdlrs PROVE Once(procQ', CallsBy(x))
    OBVIOUS
  <2>1. Once(procQ, CallsBy(x))
    BY DEF CallsInv
  <2>2. new \in CallsBy(x) => \A c \in Elems(procQ) : c \notin CallsBy(x)
    BY <1>1, <1>3 DEF CallsBy
  <2> QED  BY <2>1, <2>2, <1>4
<1>6. \A c \in Elems(procQ') : InPlace(c)'
  <2> SUFFICES ASSUME NEW c \in Elems(procQ) \cup {new} PROVE InPlace(c)'
    BY <1>4
  <2>1. CASE c \in Elems(procQ)
    <3>1. InPlace(c) /\ stage'[c.from] = stage[c.from] /\ result'[c.from] = result[c.from]
          /\ c.from # h /\ c.from \in ConnHdlrs
      BY <2>1, <1>1, <1>2 DEF CallsInv
    <3>2. c.op = "subscribe_bcast" => stage'[Associator] = stage[Associator]
      BY <3>1 DEF InPlace
    <3> QED  BY <3>1, <3>2 DEF InPlace
  <2>2. CASE c = new
    BY <2>2, <1>2, <1>3 DEF InPlace
  <2> QED  BY <2>1, <2>2
<1>7. \A conn \in g_conns_seid' : SeidInPlace(conn)'
  <2> SUFFICES ASSUME NEW conn \in g_conns_seid PROVE SeidInPlace(conn)'
    OBVIOUS
  <2>1. SeidInPlace(conn) /\ conn.vc_conn \in ConnHdlrs
    BY DEF CallsInv, SessionTypes
  <2>2. WillUnsubscribe(conn.vc_conn) => WillUnsubscribe(conn.vc_conn)'
    <3>1. CASE conn.vc_conn # h
      <4>1. stage'[conn.vc_conn] = stage[conn.vc_conn]
        BY <2>1, <3>1, <1>2
      <4>2. Pending(conn.vc_conn, "unsubscribe_seid", SEID0)
               => Pending(conn.vc_conn, "unsubscribe_seid", SEID0)'
        BY <2>1, <1>P, SeidsAre DEF Ops
      <4> QED  BY <4>1, <4>2 DEF WillUnsubscribe
    <3>2. CASE conn.vc_conn = h
      BY <3>2, <1>1, <1>2, <1>N DEF WillUnsubscribe
    <3> QED  BY <3>1, <3>2
  <2> QED  BY <2>1, <2>2 DEF SeidInPlace
<1>8. \A conn \in g_conns_bcast' : BcastInPlace(conn)'
  <2> SUFFICES ASSUME NEW conn \in g_conns_bcast PROVE BcastInPlace(conn)'
    OBVIOUS
  <2>1. BcastInPlace(conn)
    BY DEF CallsInv
  <2>2. CASE Associator # h
    <3>1. stage'[Associator] = stage[Associator]
      BY <2>2, <1>2, Hdlrs
    <3>2. Pending(Associator, "unsubscribe_bcast", NoSeid)
             => Pending(Associator, "unsubscribe_bcast", NoSeid)'
      BY <1>P, Hdlrs, SeidsAre DEF Ops
    <3> QED  BY <2>1, <3>1, <3>2 DEF BcastInPlace
  <2>3. CASE Associator = h
    BY <2>1, <2>3, <1>1, <1>2, <1>N DEF BcastInPlace
  <2> QED  BY <2>2, <2>3
<1> QED  BY <1>2, <1>4, <1>5, <1>6, <1>7, <1>8 DEF CallsInv

\* The dispatcher answers the first call in its port.
LEMMA ReplyTakes ==
  ASSUME SessionTypes, CallsInv, NEW op, NEW res, Reply(op, res)
  PROVE  /\ Head(procQ) \in CallRecords /\ Head(procQ).op = op /\ InPlace(Head(procQ))
         /\ procQ' \in Seq(CallRecords) /\ Elems(procQ') \subseteq Elems(procQ)
         /\ \A c \in Elems(procQ) : c = Head(procQ) \/ c \in Elems(procQ')
         /\ \A x \in ConnHdlrs : Once(procQ', CallsBy(x))
         /\ \A c \in Elems(procQ') : c.from # Head(procQ).from
         /\ result' \in [ConnHdlrs -> {"waiting", "true", "false"}]
         /\ \A x \in ConnHdlrs : x # Head(procQ).from => result'[x] = result[x]
<1> DEFINE c0 == Head(procQ)
<1>1. procQ \in Seq(CallRecords) /\ result \in [ConnHdlrs -> {"waiting", "true", "false"}]
  BY DEF SessionTypes
<1>2. procQ # <<>> /\ procQ' = Tail(procQ) /\ c0.op = op
  BY DEF Reply
<1>3. /\ c0 \in CallRecords /\ c0 \in Elems(procQ) /\ procQ' \in Seq(CallRecords)
      /\ Elems(procQ') \subseteq Elems(procQ)
      /\ \A c \in Elems(procQ) : c = c0 \/ c \in Elems(procQ')
      /\ \A S : Once(procQ, S) => /\ Once(procQ', S)
                                  /\ c0 \in S => \A c \in Elems(procQ') : c \notin S
  BY <1>1, <1>2, QueueTake
<1>4. result' = [result EXCEPT ![c0.from] = IF res THEN "true" ELSE "false"]
  BY DEF Reply
<1> HIDE DEF c0
<1>5. InPlace(c0) /\ c0.from \in ConnHdlrs
  BY <1>3 DEF CallsInv, CallRecords
<1>6. \A x \in ConnHdlrs : Once(procQ', CallsBy(x))
  BY <1>3 DEF CallsInv
<1>7. ASSUME NEW c \in Elems(procQ') PROVE c.from # c0.from
  <2>1. c \in CallRecords
    BY <1>3, QueueElems
  <2>2. Once(procQ, CallsBy(c0.from)) /\ c0 \in CallsBy(c0.from)
    BY <1>3, <1>5 DEF CallsInv, CallsBy
  <2>3. c \notin CallsBy(c0.from)
    BY <1>3, <2>2
  <2> QED  BY <2>1, <2>3 DEF CallsBy
<1>8. result' \in [ConnHdlrs -> {"waiting", "true", "false"}]
      /\ \A x \in ConnHdlrs : x # c0.from => result'[x] = result[x]
  BY <1>1, <1>4
<1> QED  BY <1>2, <1>3, <1>5, <1>6, <1>7, <1>8 DEF c0

LEMMA AddedConn ==
  ASSUME NEW list, NEW h, NEW key, NEW conn \in conns_add(list, h, key)
  PROVE  conn \in list \/ conn = [vc_conn |-> h, key |-> key]
  BY DEF conns_add

LEMMA DeletedConn ==
  ASSUME NEW list, NEW key, NEW conn \in conns_del(list, key)
  PROVE  conn \in list /\ conn.key # key
  BY DEF conns_del

\* What a reply leaves in its place.
LEMMA ReplyKeeps ==
  ASSUME SessionTypes, CallsInv, NEW op, NEW res, Reply(op, res), stage' = stage
  PROVE  /\ \A c \in Elems(procQ') : InPlace(c)'
         /\ \A conn \in g_conns_seid :
               \/ SeidInPlace(conn)'
               \/ conn.key = SEID0 /\ op = "unsubscribe_seid" /\ Head(procQ).seid = SEID0
         /\ \A conn \in g_conns_bcast :
               \/ BcastInPlace(conn)'
               \/ op = "unsubscribe_bcast" /\ conn.key = Head(procQ).from
<1> DEFINE c0 == Head(procQ)
<1>1. /\ c0 \in CallRecords /\ c0.op = op
      /\ Elems(procQ') \subseteq Elems(procQ)
      /\ \A c \in Elems(procQ) : c = c0 \/ c \in Elems(procQ')
      /\ \A c \in Elems(procQ') : c.from # c0.from
      /\ \A x \in ConnHdlrs : x # c0.from => result'[x] = result[x]
  BY ReplyTakes
<1>2. Elems(procQ) \subseteq CallRecords
  BY QueueElems DEF SessionTypes
<1> HIDE DEF c0
<1>3. ASSUME NEW c \in Elems(procQ') PROVE InPlace(c)'
  <2>1. c \in Elems(procQ) /\ c.from \in ConnHdlrs /\ result'[c.from] = result[c.from]
    BY <1>1, <1>2 DEF CallRecords
  <2>2. InPlace(c)
    BY <2>1 DEF CallsInv
  <2> QED  BY <2>1, <2>2 DEF InPlace
<1>4. ASSUME NEW conn \in g_conns_seid
      PROVE  \/ SeidInPlace(conn)'
             \/ conn.key = SEID0 /\ op = "unsubscribe_seid" /\ c0.seid = SEID0
  <2> DEFINE c == [from |-> conn.vc_conn, op |-> "unsubscribe_seid", seid |-> SEID0]
  <2>1. SeidInPlace(conn)
    BY DEF CallsInv
  <2>2. c = c0 => op = "unsubscribe_seid" /\ c0.seid = SEID0
    BY <1>1
  <2>3. c # c0 /\ WillUnsubscribe(conn.vc_conn) => WillUnsubscribe(conn.vc_conn)'
    BY <1>1 DEF WillUnsubscribe, Pending
  <2> HIDE DEF c
  <2> QED  BY <2>1, <2>2, <2>3 DEF SeidInPlace
<1>5. ASSUME NEW conn \in g_conns_bcast
      PROVE  \/ BcastInPlace(conn)'
             \/ op = "unsubscribe_bcast" /\ conn.key = c0.from
  <2> DEFINE c == [from |-> Associator, op |-> "unsubscribe_bcast", seid |-> NoSeid]
  <2>1. BcastInPlace(conn)
    BY DEF CallsInv
  <2>2. c = c0 => op = "unsubscribe_bcast" /\ c0.from = Associator
    BY <1>1
  <2>3. c # c0 /\ Pending(Associator, "unsubscribe_bcast", NoSeid)
           => Pending(Associator, "unsubscribe_bcast", NoSeid)'
    BY <1>1 DEF Pending
  <2> HIDE DEF c
  <2> QED  BY <2>1, <2>2, <2>3 DEF BcastInPlace
<1> QED  BY <1>3, <1>4, <1>5 DEF c0

LEMMA CallsReply ==
  ASSUME SessionTypes, CallsInv, stage' = stage,
         \/ SubscribeBcast \/ UnsubscribeBcast \/ SubscribeSeid \/ UnsubscribeSeid
         \/ GetRecoveryTimestamp
  PROVE  /\ CallsInv'
         /\ procQ' \in Seq(CallRecords)
         /\ result' \in [ConnHdlrs -> {"waiting", "true", "false"}]
         /\ g_conns_bcast' \subseteq [vc_conn : ConnHdlrs, key : ConnHdlrs]
         /\ g_conns_seid' \subseteq [vc_conn : ConnHdlrs, key : Seids]
<1> PICK c0 : c0 = Head(procQ)
  OBVIOUS
<1>0. /\ g_conns_bcast \subseteq [vc_conn : ConnHdlrs, key : ConnHdlrs]
      /\ g_conns_seid \subseteq [vc_conn : ConnHdlrs, key : Seids]
  BY DEF SessionTypes
<1>1. PICK op, res : /\ Reply(op, res)
                     /\ op = "subscribe_bcast" => SubscribeBcast
                     /\ op = "unsubscribe_bcast" => UnsubscribeBcast
                     /\ op = "subscribe_seid" => SubscribeSeid
                     /\ op = "unsubscribe_seid" => UnsubscribeSeid
                     /\ op \notin {"subscribe_bcast", "unsubscribe_bcast", "subscribe_seid",
                                   "unsubscribe_seid"}
                           => UNCHANGED <<g_conns_bcast, g_conns_seid>>
  BY DEF SubscribeBcast, UnsubscribeBcast, SubscribeSeid, UnsubscribeSeid, GetRecoveryTimestamp
<1>2. /\ c0 \in CallRecords /\ c0.op = op /\ InPlace(c0)
      /\ procQ' \in Seq(CallRecords)
      /\ \A x \in ConnHdlrs : Once(procQ', CallsBy(x))
      /\ result' \in [ConnHdlrs -> {"waiting", "true", "false"}]
  BY <1>1, ReplyTakes
<1>3. /\ \A c \in Elems(procQ') : InPlace(c)'
      /\ \A conn \in g_conns_seid :
            \/ SeidInPlace(conn)'
            \/ conn.key = SEID0 /\ op = "unsubscribe_seid" /\ c0.seid = SEID0
      /\ \A conn \in g_conns_bcast :
            BcastInPlace(conn)' \/ (op = "unsubscribe_bcast" /\ conn.key = c0.from)
  BY <1>1, ReplyKeeps
<1>4. c0.from \in ConnHdlrs /\ c0.seid \in Seids
  BY <1>2 DEF CallRecords
<1>5. /\ op = "subscribe_bcast" => g_conns_bcast' = conns_add(g_conns_bcast, c0.from, c0.from)
      /\ op = "unsubscribe_bcast" => g_conns_bcast' = conns_del(g_conns_bcast, c0.from)
      /\ op \notin {"subscribe_bcast", "unsubscribe_bcast"} => g_conns_bcast' = g_conns_bcast
      /\ op = "subscribe_seid" => g_conns_seid' = conns_add(g_conns_seid, c0.from, c0.seid)
      /\ op = "unsubscribe_seid" => g_conns_seid' = conns_del(g_conns_seid, c0.seid)
      /\ op \notin {"subscribe_seid", "unsubscribe_seid"} => g_conns_seid' = g_conns_seid
  BY <1>1 DEF SubscribeBcast, UnsubscribeBcast, SubscribeSeid, UnsubscribeSeid
<1>6. ASSUME NEW conn \in g_conns_seid'
      PROVE  SeidInPlace(conn)' /\ conn \in [vc_conn : ConnHdlrs, key : Seids]
  <2>1. CASE op = "subscribe_seid" /\ conn = [vc_conn |-> c0.from, key |-> c0.seid]
    <3>1. /\ conn.vc_conn = c0.from /\ conn.key = c0.seid
          /\ conn \in [vc_conn : ConnHdlrs, key : Seids]
      BY <2>1, <1>4
    <3>2. c0.seid = SEID0 => WillUnsubscribe(c0.from)'
      BY <2>1, <1>2, SeidsAre DEF InPlace, WillUnsubscribe, Subscribed
    <3> QED  BY <2>1, <3>1, <3>2, <1>2 DEF InPlace, SeidInPlace
  <2>2. CASE op = "subscribe_seid" /\ conn # [vc_conn |-> c0.from, key |-> c0.seid]
    <3>1. conn \in g_conns_seid
      BY <2>2, <1>5, AddedConn
    <3> QED  BY <3>1, <2>2, <1>0, <1>3
  <2>3. CASE op = "unsubscribe_seid"
    <3>1. conn \in g_conns_seid /\ conn.key # c0.seid
      BY <2>3, <1>5, DeletedConn
    <3> QED  BY <3>1, <1>0, <1>3
  <2>4. CASE op \notin {"subscribe_seid", "unsubscribe_seid"}
    BY <2>4, <1>5, <1>0, <1>3
  <2> QED  BY <2>1, <2>2, <2>3, <2>4
<1>7. ASSUME NEW conn \in g_conns_bcast'
      PROVE  BcastInPlace(conn)' /\ conn \in [vc_conn : ConnHdlrs, key : ConnHdlrs]
  <2>1. CASE op = "subscribe_bcast" /\ conn = [vc_conn |-> c0.from, key |-> c0.from]
    <3>1. /\ conn.vc_conn = c0.from /\ conn.key = c0.from
          /\ conn \in [vc_conn : ConnHdlrs, key : ConnHdlrs]
      BY <2>1, <1>4
    <3> QED  BY <2>1, <3>1, <1>2 DEF InPlace, BcastInPlace
  <2>2. CASE op = "subscribe_bcast" /\ conn # [vc_conn |-> c0.from, key |-> c0.from]
    <3>1. conn \in g_conns_bcast
      BY <2>2, <1>5, AddedConn
    <3> QED  BY <3>1, <2>2, <1>0, <1>3
  <2>3. CASE op = "unsubscribe_bcast"
    <3>1. conn \in g_conns_bcast /\ conn.key # c0.from
      BY <2>3, <1>5, DeletedConn
    <3> QED  BY <3>1, <1>0, <1>3
  <2>4. CASE op \notin {"subscribe_bcast", "unsubscribe_bcast"}
    BY <2>4, <1>5, <1>0, <1>3
  <2> QED  BY <2>1, <2>2, <2>3, <2>4
<1>8. CallsInv'
  BY <1>2, <1>3, <1>6, <1>7 DEF CallsInv
<1> QED  BY <1>2, <1>6, <1>7, <1>8

-----------------------------------------------------------------------------
(* What a step of a ConnHdlr may do, whatever the step. *)

HeartbeatSent == {"heartbeat_sent", "done"}

\* h goes on to stage s.
Goes(h, s) ==
    /\ stage' = [stage EXCEPT ![h] = s] /\ s \in Stages \ {"start"}
    /\ stage[h] \in HeartbeatSent => s \in HeartbeatSent
Moves(h) == (h \in Users => Associated) /\ \E s \in Stages : Goes(h, s)

\* A PDU that h sends, and one that it takes from its port.
SendsOne(h) ==
    \E c \in FromHdlrs :
        /\ clientQ' = Append(clientQ, c) /\ c.from = h
        /\ c.pdu.kind = "heartbeat_req" => stage[h] = "heartbeat" /\ stage'[h] = "heartbeat_sent"
TakesOne(h) == pfcp[h] # <<>> /\ pfcp' = [pfcp EXCEPT ![h] = Tail(pfcp[h])]

LoopTypes ==
    /\ erab \in [Users -> Nat]
    /\ procedure \in [Users -> {"none", "est", "mod", "del"}]
    /\ progress \in [Users -> [Sessions -> {"idle", "requested", "done"}]]

HdlrDoes(h) ==
    \/ UNCHANGED <<stage, clientQ, pfcp, erab, procedure, progress>>
    \/ /\ Moves(h) /\ (clientQ' = clientQ \/ SendsOne(h)) /\ (pfcp' = pfcp \/ TakesOne(h))
       /\ LoopTypes'

LEMMA HeadOfPort ==
  ASSUME SessionTypes, Addressed, NEW h \in ConnHdlrs, pfcp[h] # <<>>
  PROVE  /\ Head(pfcp[h]) \in FromIut /\ Head(pfcp[h]).owner[1] = h
         /\ Head(pfcp[h]) \in Elems(pfcp[h])
<1>1. pfcp[h] \in Seq(FromIut)
  BY DEF SessionTypes
<1>2. Head(pfcp[h]) \in FromIut /\ Head(pfcp[h]) \in Elems(pfcp[h])
  BY <1>1, QueueTake
<1> QED  BY <1>2 DEF Addressed

LEMMA HdlrAnswers ==
  ASSUME SessionTypes, Addressed, NEW h \in ConnHdlrs, pfcp[h] # <<>>,
         Head(pfcp[h]).kind \in {"est_req", "mod_req", "del_req", "assoc_req"},
         NEW kind \in AnswerKinds, AnswerPdu(h, kind), TakePdu(h)
  PROVE  SendsOne(h) /\ TakesOne(h)
<1> PICK p : p = Head(pfcp[h])
  OBVIOUS
<1> PICK pdu : pdu = AsAnswer(p, kind)
  OBVIOUS
<1> PICK c : c = [from |-> h, pdu |-> pdu]
  OBVIOUS
<1>1. /\ p \in FromIut /\ p.owner[1] = h
      /\ p.kind \in {"est_req", "mod_req", "del_req", "assoc_req"}
  BY HeadOfPort
<1>2. c \in FromHdlrs /\ c.from = h /\ c.pdu.kind # "heartbeat_req"
  BY <1>1, AnswerMade
<1>3. clientQ' = Append(clientQ, c)
  BY DEF AnswerPdu, SendPdu, AsAnswer
<1>4. TakesOne(h)
  BY DEF TakePdu, TakesOne
<1> QED  BY <1>2, <1>3, <1>4 DEF SendsOne

LEMMA HdlrStep ==
  ASSUME SessionTypes, Addressed, Heads, Begun, NEW h \in Users, UserStep(h)
  PROVE  HdlrDoes(h)
<1>0. h \in ConnHdlrs /\ h # Associator
  BY Hdlrs
<1>1. stage[h] # "start" => Associated
  BY DEF Begun
<1>2. LoopTypes /\ (UNCHANGED <<erab, procedure, progress>> => LoopTypes')
  BY DEF SessionTypes, LoopTypes
<1>3. \A n \in Nat : erab' = [erab EXCEPT ![h] = n] /\ UNCHANGED <<procedure, progress>> => LoopTypes'
  BY <1>2 DEF LoopTypes
<1>4. erab[h] \in Nat /\ erab[h] + 1 \in Nat /\ 1 \in Nat
  BY <1>2 DEF LoopTypes
<1>5. \A what \in {"est", "mod", "del"} : Trigger(h, what) /\ erab' = erab => LoopTypes'
  BY <1>2 DEF LoopTypes, Trigger, AllIdle
<1>6. CASE LockMutex(h)
  <2>1. Goes(h, "locking") /\ Associated
    BY <1>6 DEF LockMutex, At, GoTo, Goes, HeartbeatSent, Stages
  <2> QED  BY <2>1, <1>2, <1>6 DEF HdlrDoes, Moves, LockMutex, pfcpVars, Stages
<1>7. CASE SubscribeSeid0(h)
  <2>1. Goes(h, "trigger") /\ Associated
    BY <1>1, <1>7 DEF SubscribeSeid0, At, GoTo, Goes, HeartbeatSent, Stages
  <2> QED  BY <2>1, <1>2, <1>7 DEF HdlrDoes, Moves, SubscribeSeid0, Stages
<1>8. CASE TriggerEstablishment(h)
  <2>1. Goes(h, "establish") /\ Associated
    BY <1>1, <1>8 DEF TriggerEstablishment, At, GoTo, Goes, HeartbeatSent, Stages
  <2>2. LoopTypes'
    BY <1>5, <1>8 DEF TriggerEstablishment
  <2> QED  BY <2>1, <2>2, <1>8 DEF HdlrDoes, Moves, TriggerEstablishment, Stages
<1>9. CASE ReceiveEstablishment(h)
  <2>1. Goes(h, "establish_answer") /\ Associated
    BY <1>1, <1>9 DEF ReceiveEstablishment, At, GoTo, Goes, HeartbeatSent, Stages
  <2> QED  BY <2>1, <1>2, <1>9 DEF HdlrDoes, Moves, ReceiveEstablishment, Stages
<1>10. CASE AnswerEstablishment(h)
  <2>1. (Goes(h, "establish") \/ Goes(h, "unlock")) /\ Associated
    BY <1>1, <1>10 DEF AnswerEstablishment, At, GoTo, Goes, HeartbeatSent, Stages
  <2>2. pfcp[h] # <<>> /\ Head(pfcp[h]).kind = "est_req"
    BY <1>10 DEF AnswerEstablishment, At, Heads
  <2>3. SendsOne(h) /\ TakesOne(h)
    BY <2>2, <1>0, <1>10, HdlrAnswers DEF AnswerEstablishment, AnswerKinds
  <2>4. LoopTypes'
    BY <1>3, <1>4, <1>10 DEF AnswerEstablishment
  <2> QED  BY <2>1, <2>3, <2>4 DEF HdlrDoes, Moves, Stages
<1>11. CASE UnsubscribeSeid0(h)
  <2>1. Goes(h, "unlock") /\ Associated
    BY <1>1, <1>11 DEF UnsubscribeSeid0, At, GoTo, Goes, HeartbeatSent, Stages
  <2> QED  BY <2>1, <1>2, <1>11 DEF HdlrDoes, Moves, UnsubscribeSeid0, Stages
<1>12. CASE UnlockMutex(h)
  <2>1. Goes(h, "setup") /\ Associated /\ LoopTypes'
    BY <1>1, <1>2, <1>12 DEF UnlockMutex, At, GoTo, Goes, HeartbeatSent, Stages
  <2>2. CASE suite = "hnbgw"
    <3>1. pfcp[h] # <<>> /\ Head(pfcp[h]).kind = "est_req"
      BY <2>2, <1>12 DEF UnlockMutex, At, Heads
    <3>2. SendsOne(h) /\ TakesOne(h)
      BY <2>2, <3>1, <1>0, <1>12, HdlrAnswers DEF UnlockMutex, AnswerKinds
    <3> QED  BY <2>1, <3>2 DEF HdlrDoes, Moves, Stages
  <2>3. CASE suite # "hnbgw"
    BY <2>1, <2>3, <1>12 DEF HdlrDoes, Moves, UnlockMutex, Stages
  <2> QED  BY <2>2, <2>3
<1>13. CASE TriggerModification(h)
  <2>1. Goes(h, "modify") /\ Associated
    BY <1>1, <1>13 DEF TriggerModification, At, GoTo, Goes, HeartbeatSent, Stages
  <2>2. LoopTypes'
    BY <1>5, <1>13 DEF TriggerModification
  <2> QED  BY <2>1, <2>2, <1>13 DEF HdlrDoes, Moves, TriggerModification, Stages
<1>14. CASE AnswerModification(h)
  <2>1. (Goes(h, "modified") \/ Goes(h, "modify")) /\ Associated
    BY <1>1, <1>14 DEF AnswerModification, At, GoTo, Goes, HeartbeatSent, Stages
  <2>2. pfcp[h] # <<>> /\ Head(pfcp[h]).kind = "mod_req"
    BY <1>14 DEF AnswerModification, Received
  <2>3. SendsOne(h) /\ TakesOne(h)
    BY <2>2, <1>0, <1>14, HdlrAnswers DEF AnswerModification, AnswerKinds
  <2>4. LoopTypes'
    BY <1>3, <1>4, <1>14 DEF AnswerModification
  <2> QED  BY <2>1, <2>3, <2>4 DEF HdlrDoes, Moves, Stages
<1>15. CASE TriggerDeletion(h)
  <2>1. Goes(h, "delete") /\ Associated
    BY <1>1, <1>15 DEF TriggerDeletion, At, GoTo, Goes, HeartbeatSent, Stages
  <2>2. LoopTypes'
    BY <1>5, <1>15 DEF TriggerDeletion
  <2> QED  BY <2>1, <2>2, <1>15 DEF HdlrDoes, Moves, TriggerDeletion, Stages
<1>16. CASE AnswerDeletion(h)
  <2>1. (Goes(h, "deleted") \/ Goes(h, "delete")) /\ Associated
    BY <1>1, <1>16 DEF AnswerDeletion, At, GoTo, Goes, HeartbeatSent, Stages
  <2>2. pfcp[h] # <<>> /\ Head(pfcp[h]).kind = "del_req"
    BY <1>16 DEF AnswerDeletion, Received
  <2>3. SendsOne(h) /\ TakesOne(h)
    BY <2>2, <1>0, <1>16, HdlrAnswers DEF AnswerDeletion, AnswerKinds
  <2>4. LoopTypes'
    BY <1>3, <1>4, <1>16 DEF AnswerDeletion
  <2> QED  BY <2>1, <2>3, <2>4 DEF HdlrDoes, Moves, Stages
<1>17. CASE End(h)
  <2>1. Goes(h, "done") /\ Associated
    BY <1>1, <1>17 DEF End, At, GoTo, Goes, HeartbeatSent, Stages
  <2> QED  BY <2>1, <1>2, <1>17 DEF HdlrDoes, Moves, End, Stages
<1>18. CASE HeartbeatTimestamp(h)
  <2>1. Goes(h, "heartbeat") /\ Associated
    BY <1>18 DEF HeartbeatTimestamp, At, GoTo, Goes, HeartbeatSent, Stages
  <2> QED  BY <2>1, <1>2, <1>18 DEF HdlrDoes, Moves, HeartbeatTimestamp, Stages
<1>19. CASE SendHeartbeat(h)
  <2>1. Goes(h, "heartbeat_sent") /\ Associated /\ stage[h] = "heartbeat"
    BY <1>1, <1>19 DEF SendHeartbeat, At, GoTo, Goes, HeartbeatSent, Stages
  <2>2. stage'[h] = "heartbeat_sent"
    BY <2>1, <1>0 DEF SessionTypes, Goes
  <2>3. SendsOne(h)
    <3> PICK c : c = [from |-> h, pdu |-> PDU("heartbeat_req", <<0>>, NoSeid, <<h, 1>>)]
      OBVIOUS
    <3>1. c \in FromHdlrs /\ c.from = h
      BY HeartbeatMade DEF HeartbeatsOf
    <3>2. clientQ' = Append(clientQ, c)
      BY <1>19 DEF SendHeartbeat, SendPdu
    <3> QED  BY <2>1, <2>2, <3>1, <3>2 DEF SendsOne
  <2> QED  BY <2>1, <2>3, <1>2, <1>19 DEF HdlrDoes, Moves, SendHeartbeat, Stages
<1>20. CASE ReceiveHeartbeat(h)
  <2>1. Goes(h, "done") /\ Associated
    BY <1>1, <1>20 DEF ReceiveHeartbeat, At, GoTo, Goes, HeartbeatSent, Stages
  <2>2. TakesOne(h)
    BY <1>20 DEF ReceiveHeartbeat, Received, TakePdu, TakesOne
  <2> QED  BY <2>1, <2>2, <1>2, <1>20 DEF HdlrDoes, Moves, ReceiveHeartbeat, Stages
<1>21. CASE Amiss(h)
  BY <1>21 DEF Amiss, HdlrDoes
<1> QED  BY <1>6, <1>7, <1>8, <1>9, <1>10, <1>11, <1>12, <1>13, <1>14, <1>15, <1>16, <1>17,
            <1>18, <1>19, <1>20, <1>21 DEF UserStep

-----------------------------------------------------------------------------
(* The dispatcher's sequence numbers. *)

LEMMA ForwardedFinite ==
  /\ IsFiniteSet(Forwarded) /\ Cardinality(Forwarded) \in Nat
  /\ Forwarded \subseteq Users /\ IsFiniteSet(Users) /\ Cardinality(Users) \in Nat
  /\ Cardinality(Users) <= LastSeqnr
<1>1. IsFiniteSet(Users) /\ Cardinality(Users) <= LastSeqnr
  BY SessionsAssumption
<1>2. Forwarded \subseteq Users
  BY DEF Forwarded
<1> QED  BY <1>1, <1>2, FS_Subset, FS_CardinalityType

LEMMA NumbersShift ==
  ASSUME Recent, Listing, g_next_sequence_nr_state' = g_next_sequence_nr_state,
         g_next_sequence_nr_state \in Nat,
         Forwarded \subseteq Forwarded',
         \A conn \in g_conns_seqnr' : conn \in g_conns_seqnr \/ conn.key \notin Numbers,
         \A pdu \in Elems(rxQ') \cup Elems(txQ') :
            \/ pdu.seqnr \notin Numbers
            \/ \E q \in Elems(rxQ) \cup Elems(txQ) : q.seqnr = pdu.seqnr /\ q.owner = pdu.owner
  PROVE  Recent' /\ Listing'
<1>1. Cardinality(Forwarded) <= Cardinality(Forwarded')
      /\ Cardinality(Forwarded) \in Nat /\ Cardinality(Forwarded') \in Nat
  <2>1. Forwarded' \subseteq Users
    BY DEF Forwarded
  <2>2. IsFiniteSet(Forwarded') /\ Cardinality(Forwarded') \in Nat
    BY <2>1, ForwardedFinite, FS_Subset, FS_CardinalityType
  <2> QED  BY <2>2, ForwardedFinite, FS_Subset
<1>2. ASSUME NEW n \in Nat, InUse(n)' PROVE InUse(n)
  <2>1. <<n>> \in Numbers
    BY DEF Numbers
  <2>2. CASE \E conn \in g_conns_seqnr' : conn.key = <<n>>
    BY <2>1, <2>2 DEF InUse
  <2>3. CASE \E pdu \in Elems(rxQ') \cup Elems(txQ') : pdu.seqnr = <<n>>
    <3> PICK pdu \in Elems(rxQ') \cup Elems(txQ') : pdu.seqnr = <<n>>
      BY <2>3
    <3> PICK q \in Elems(rxQ) \cup Elems(txQ) : q.seqnr = <<n>>
      BY <2>1
    <3> QED  BY DEF InUse
  <2> QED  BY <1>2, <2>2, <2>3 DEF InUse
<1>3. Recent'
  <2> SUFFICES ASSUME NEW n \in Nat, InUse(n)'
               PROVE  /\ n \in 1..LastSeqnr /\ g_next_sequence_nr_state \in 1..LastSeqnr
                      /\ Since(n) < Cardinality(Forwarded')
    BY DEF Recent, Since
  <2>1. /\ n \in 1..LastSeqnr /\ g_next_sequence_nr_state \in 1..LastSeqnr
        /\ Since(n) < Cardinality(Forwarded)
    BY <1>2 DEF Recent
  <2>2. Since(n) \in Int
    BY <2>1, PFCPAssumption DEF Since
  <2> QED  BY <1>1, <2>1, <2>2
<1>4. Listing'
  <2> SUFFICES ASSUME NEW conn \in g_conns_seqnr', NEW pdu \in Elems(rxQ') \cup Elems(txQ'),
                      conn.key \in Numbers, pdu.seqnr = conn.key
               PROVE  pdu.owner[1] = conn.vc_conn
    BY DEF Listing
  <2>1. conn \in g_conns_seqnr
    OBVIOUS
  <2> PICK q \in Elems(rxQ) \cup Elems(txQ) : q.seqnr = pdu.seqnr /\ q.owner = pdu.owner
    OBVIOUS
  <2> QED  BY <2>1 DEF Listing
<1> QED  BY <1>3, <1>4

\* Nothing of the numbers is touched.
LEMMA NumbersFrame ==
  ASSUME SessionTypes, NumbersInv,
         UNCHANGED <<stage, clientQ, g_conns_seqnr, g_next_sequence_nr_state, rxQ, txQ>>
  PROVE  NumbersInv'
<1>1. HeartbeatInv' /\ Forwarded' = Forwarded
  BY DEF NumbersInv, HeartbeatInv, Forwarded, Queued
<1>2. Recent' /\ Listing'
  BY <1>1, NumbersShift DEF NumbersInv, SessionTypes
<1> QED  BY <1>1, <1>2 DEF NumbersInv

LEMMA HdlrKeeps ==
  ASSUME SessionTypes, Addressed, Begun, NumbersInv, NEW h \in ConnHdlrs, HdlrDoes(h),
         Associated => Associated',
         UNCHANGED <<g_conns_seqnr, g_next_sequence_nr_state, rxQ, txQ, suite>>, suite # "none"
  PROVE  /\ stage' \in [ConnHdlrs -> Stages] /\ clientQ' \in Seq(FromHdlrs)
         /\ pfcp' \in [ConnHdlrs -> Seq(FromIut)] /\ LoopTypes'
         /\ Addressed' /\ Begun' /\ NumbersInv'
<1>1. CASE UNCHANGED <<stage, clientQ, pfcp, erab, procedure, progress>>
  <2>1. NumbersInv'
    BY <1>1, NumbersFrame
  <2> QED  BY <1>1, <2>1 DEF SessionTypes, LoopTypes, Addressed, Begun
<1>2. CASE ~UNCHANGED <<stage, clientQ, pfcp, erab, procedure, progress>>
  <2>0. /\ Moves(h) /\ (clientQ' = clientQ \/ SendsOne(h)) /\ (pfcp' = pfcp \/ TakesOne(h))
        /\ LoopTypes'
    BY <1>2 DEF HdlrDoes
  <2>1. /\ stage \in [ConnHdlrs -> Stages] /\ clientQ \in Seq(FromHdlrs)
        /\ pfcp \in [ConnHdlrs -> Seq(FromIut)]
    BY DEF SessionTypes
  <2>2. PICK s \in Stages : Goes(h, s)
    BY <2>0 DEF Moves
  <2>3. /\ stage' \in [ConnHdlrs -> Stages] /\ stage'[h] = s
        /\ \A x \in ConnHdlrs : x # h => stage'[x] = stage[x]
        /\ stage[h] \in HeartbeatSent => s \in HeartbeatSent
    BY <2>1, <2>2 DEF Goes
  <2>4. pfcp' \in [ConnHdlrs -> Seq(FromIut)] /\ Addressed'
    <3>1. CASE pfcp' = pfcp
      BY <3>1, <2>1 DEF Addressed
    <3>2. CASE TakesOne(h)
      <4>1. Tail(pfcp[h]) \in Seq(FromIut) /\ Elems(Tail(pfcp[h])) \subseteq Elems(pfcp[h])
        BY <3>2, <2>1, QueueTake DEF TakesOne
      <4>2. /\ pfcp' \in [ConnHdlrs -> Seq(FromIut)]
            /\ \A x \in ConnHdlrs : pfcp'[x] = IF x = h THEN Tail(pfcp[h]) ELSE pfcp[x]
        BY <3>2, <4>1, <2>1 DEF TakesOne
      <4>3. \A x \in ConnHdlrs : Elems(pfcp'[x]) \subseteq Elems(pfcp[x])
        BY <4>1, <4>2
      <4> QED  BY <4>2, <4>3 DEF Addressed
    <3> QED  BY <2>0, <3>1, <3>2
  <2>5. /\ clientQ' \in Seq(FromHdlrs)
        /\ \A c \in Elems(clientQ') : c \in Elems(clientQ) \/ (c \in FromHdlrs /\ c.from = h)
        /\ \A c \in HeartbeatsOf(h) : c \in Elems(clientQ') => c \in Elems(clientQ) \/ s = "heartbeat_sent"
        /\ \A c \in HeartbeatsOf(h) : c \in Elems(clientQ') => c \in Elems(clientQ) \/ stage[h] = "heartbeat"
        /\ \A x \in Users : Once(clientQ', HeartbeatsOf(x))
    <3>1. CASE clientQ' = clientQ
      BY <3>1, <2>1 DEF NumbersInv, HeartbeatInv
    <3>2. CASE SendsOne(h)
      <4> PICK c \in FromHdlrs :
              /\ clientQ' = Append(clientQ, c) /\ c.from = h
              /\ c.pdu.kind = "heartbeat_req" => stage[h] = "heartbeat" /\ stage'[h] = "heartbeat_sent"
        BY <3>2 DEF SendsOne
      <4>1. /\ clientQ' \in Seq(FromHdlrs) /\ Elems(clientQ') = Elems(clientQ) \cup {c}
            /\ \A S : Once(clientQ, S) /\ (c \in S => \A d \in Elems(clientQ) : d \notin S)
                  => Once(clientQ', S)
        BY <2>1, QueueAppend
      <4>2. \A x \in Users : c \in HeartbeatsOf(x) => x = h /\ stage[h] = "heartbeat" /\ s = "heartbeat_sent"
        BY <2>3 DEF HeartbeatsOf
      <4>3. ASSUME NEW x \in Users PROVE Once(clientQ', HeartbeatsOf(x))
        <5>1. Once(clientQ, HeartbeatsOf(x))
              /\ (Queued(x) => stage[x] \in {"heartbeat_sent", "done"})
          BY DEF NumbersInv, HeartbeatInv
        <5>2. c \in HeartbeatsOf(x) => \A d \in Elems(clientQ) : d \notin HeartbeatsOf(x)
          BY <5>1, <4>2 DEF Queued
        <5> QED  BY <5>1, <5>2, <4>1
      <4>4. \A d \in HeartbeatsOf(h) : d = c => stage[h] = "heartbeat" /\ s = "heartbeat_sent"
        BY <2>3 DEF HeartbeatsOf
      <4> QED  BY <4>1, <4>3, <4>4
    <3> QED  BY <2>0, <3>1, <3>2
  <2>6. Begun'
    <3>1. \A x \in Users : stage'[x] # "start" => Associated
      BY <2>0, <2>3, Hdlrs DEF Begun, Moves
    <3>2. \A c \in Elems(clientQ') : c.from \in Users => Associated
      BY <2>0, <2>5 DEF Begun, Moves
    <3> QED  BY <3>1, <3>2 DEF Begun
  <2>7. ASSUME NEW x \in Users, Queued(x)'
        PROVE  /\ stage'[x] \in HeartbeatSent
               /\ Queued(x) \/ (x = h /\ stage[h] = "heartbeat")
    <3> PICK c \in Elems(clientQ') : c \in HeartbeatsOf(x)
      BY <2>7 DEF Queued
    <3>1. x \in ConnHdlrs /\ c.from = x
      BY Hdlrs DEF HeartbeatsOf
    <3>2. CASE c \in Elems(clientQ)
      <4>1. Queued(x) /\ stage[x] \in HeartbeatSent
        BY <3>2 DEF Queued, NumbersInv, HeartbeatInv, HeartbeatSent
      <4> QED  BY <4>1, <3>1, <2>3
    <3>3. CASE c \notin Elems(clientQ)
      <4>1. x = h
        BY <3>1, <3>3, <2>5
      <4> QED  BY <4>1, <3>3, <2>3, <2>5 DEF HeartbeatSent
    <3> QED  BY <3>2, <3>3
  <2>8. HeartbeatInv'
    BY <2>5, <2>7 DEF HeartbeatInv, HeartbeatSent
  <2>9. Forwarded \subseteq Forwarded'
    <3> SUFFICES ASSUME NEW x \in Forwarded PROVE x \in Forwarded'
      OBVIOUS
    <3>1. x \in Users /\ x \in ConnHdlrs /\ stage[x] \in HeartbeatSent /\ ~Queued(x)
      BY Hdlrs DEF Forwarded, HeartbeatSent
    <3>2. stage'[x] \in HeartbeatSent /\ stage[x] # "heartbeat"
      BY <3>1, <2>3 DEF HeartbeatSent
    <3>3. ~Queued(x)'
      BY <3>1, <3>2, <2>7
    <3> QED  BY <3>1, <3>2, <3>3 DEF Forwarded, HeartbeatSent
  <2>10. Recent' /\ Listing'
    BY <2>9, NumbersShift DEF NumbersInv, SessionTypes
  <2> QED  BY <2>0, <2>3, <2>4, <2>5, <2>6, <2>8, <2>10 DEF NumbersInv
<1> QED  BY <1>1, <1>2

-----------------------------------------------------------------------------
(* The steps of the ConnHdlrs: calls, and the PDU at the head of a port. *)

CallTypes ==
    /\ procQ \in Seq(CallRecords)
    /\ result \in [ConnHdlrs -> {"waiting", "true", "false"}]

LEMMA AssocDoes ==
  ASSUME SessionTypes, Addressed, Heads, AssocStep
  PROVE  HdlrDoes(Associator) /\ ~Associated
<1> DEFINE h == Associator
<1>0. h \in ConnHdlrs /\ h \notin Users
  BY Hdlrs
<1>2. LoopTypes /\ (UNCHANGED <<erab, procedure, progress>> => LoopTypes')
  BY DEF SessionTypes, LoopTypes
<1>3. UNCHANGED <<erab, procedure, progress>> /\ LoopTypes'
  BY <1>2 DEF AssocStep
<1>4. CASE AssocSubscribe(h)
  <2>1. Goes(h, "assoc") /\ ~Associated
    BY <1>4 DEF AssocSubscribe, At, GoTo, Goes, HeartbeatSent, Stages, Associated
  <2> QED  BY <2>1, <1>0, <1>3, <1>4 DEF HdlrDoes, Moves, AssocSubscribe, Stages
<1>5. CASE AssocReceive(h)
  <2>1. Goes(h, "assoc_answer") /\ ~Associated
    BY <1>5 DEF AssocReceive, At, GoTo, Goes, HeartbeatSent, Stages, Associated
  <2> QED  BY <2>1, <1>0, <1>3, <1>5 DEF HdlrDoes, Moves, AssocReceive, Stages
<1>6. CASE AssocTimestamp(h)
  <2>1. Goes(h, "assoc_send") /\ ~Associated
    BY <1>6 DEF AssocTimestamp, At, GoTo, Goes, HeartbeatSent, Stages, Associated
  <2> QED  BY <2>1, <1>0, <1>3, <1>6 DEF HdlrDoes, Moves, AssocTimestamp, Stages
<1>7. CASE AssocSend(h)
  <2>1. Goes(h, "done") /\ ~Associated
    BY <1>7 DEF AssocSend, At, GoTo, Goes, HeartbeatSent, Stages, Associated
  <2>2. pfcp[h] # <<>> /\ Head(pfcp[h]).kind = "assoc_req"
    BY <1>7 DEF AssocSend, At, Heads
  <2>3. SendsOne(h) /\ TakesOne(h)
    BY <2>2, <1>0, <1>7, HdlrAnswers DEF AssocSend, AnswerKinds
  <2> QED  BY <2>1, <2>3, <1>0, <1>3 DEF HdlrDoes, Moves, Stages
<1> QED  BY <1>4, <1>5, <1>6, <1>7 DEF AssocStep

LEMMA AssocCalls ==
  ASSUME SessionTypes, CallsInv, AssocStep
  PROVE  CallsInv' /\ CallTypes'
<1> DEFINE h == Associator
<1>0. h \in ConnHdlrs /\ h \notin Users /\ NoSeid \in Seids /\ NoSeid # SEID0
  BY Hdlrs, SeidsAre
<1>1. CallTypes /\ UNCHANGED <<g_conns_seid, g_conns_bcast>>
  BY DEF SessionTypes, CallTypes, AssocStep, conns
<1>4. CASE AssocSubscribe(h)
  <2>1. /\ stage[h] = "start" /\ result[h] = "true" /\ stage' = [stage EXCEPT ![h] = "assoc"]
        /\ Call(h, "subscribe_bcast", NoSeid)
    BY <1>4 DEF AssocSubscribe, At, Runs, GoTo
  <2>2. "subscribe_bcast" \in Ops /\ "assoc" \in Stages
    BY DEF Ops, Stages
  <2> QED  BY <2>1, <2>2, <1>0, <1>1, CallsAsk DEF CallTypes, Subscribed
<1>5. CASE AssocReceive(h)
  <2>1. /\ stage[h] = "assoc" /\ result[h] = "true" /\ stage' = [stage EXCEPT ![h] = "assoc_answer"]
        /\ Call(h, "unsubscribe_bcast", NoSeid)
    BY <1>5 DEF AssocReceive, At, Runs, GoTo
  <2>2. "unsubscribe_bcast" \in Ops /\ "assoc_answer" \in Stages
    BY DEF Ops, Stages
  <2> QED  BY <2>1, <2>2, <1>0, <1>1, CallsAsk DEF CallTypes, Subscribed
<1>6. CASE AssocTimestamp(h)
  <2>1. /\ stage[h] = "assoc_answer" /\ result[h] = "true"
        /\ stage' = [stage EXCEPT ![h] = "assoc_send"]
        /\ Call(h, "get_recovery_timestamp", NoSeid)
    BY <1>6 DEF AssocTimestamp, At, Runs, GoTo
  <2>2. "get_recovery_timestamp" \in Ops /\ "assoc_send" \in Stages
    BY DEF Ops, Stages
  <2> QED  BY <2>1, <2>2, <1>0, <1>1, CallsAsk DEF CallTypes, Subscribed
<1>7. CASE AssocSend(h)
  <2>1. /\ stage[h] = "assoc_send" /\ result[h] = "true" /\ stage' = [stage EXCEPT ![h] = "done"]
        /\ UNCHANGED <<procQ, result>>
    BY <1>7 DEF AssocSend, At, Runs, GoTo
  <2>2. "done" \in Stages
    BY DEF Stages
  <2> QED  BY <2>1, <2>2, <1>0, <1>1, CallsQuiet DEF CallTypes, Subscribed
<1> QED  BY <1>4, <1>5, <1>6, <1>7 DEF AssocStep

LEMMA UserCalls ==
  ASSUME SessionTypes, CallsInv, EstInv, NEW h \in Users, UserStep(h)
  PROVE  CallsInv' /\ CallTypes'
<1>0. h \in ConnHdlrs /\ h # Associator /\ NoSeid \in Seids /\ SEID0 \in Seids
      /\ NoSeid # SEID0 /\ NoSeid \notin OwnSeids
  BY Hdlrs, SeidsAre
<1>1. CallTypes /\ UNCHANGED <<g_conns_seid, g_conns_bcast>>
  BY DEF SessionTypes, CallTypes, UserStep, conns
<1>2. \A s, t \in Stages : /\ At(h, s) /\ GoTo(h, t) /\ UNCHANGED <<procQ, result>>
                           /\ (s \in Subscribed => t \in Subscribed)
                           => CallsInv' /\ CallTypes'
  BY <1>0, <1>1, CallsQuiet DEF At, Runs, GoTo, CallTypes
<1>3. \A s, t \in Stages : \A op \in Ops : \A seid \in Seids :
         /\ At(h, s) /\ GoTo(h, t) /\ Call(h, op, seid)
         /\ (s \in Subscribed => t \in Subscribed
               \/ (t = "unlock" /\ op = "unsubscribe_seid" /\ seid = SEID0))
         /\ op # "subscribe_bcast"
         /\ (op = "subscribe_seid" => \/ seid = SEID0 /\ t = "trigger"
                                      \/ seid \in OwnSeids /\ h = seid[1])
         /\ (op = "unsubscribe_seid" /\ seid = SEID0 => t = "unlock")
         => CallsInv' /\ CallTypes'
  <2> SUFFICES ASSUME NEW s \in Stages, NEW t \in Stages, NEW op \in Ops, NEW seid \in Seids,
                      At(h, s), GoTo(h, t), Call(h, op, seid),
                      s \in Subscribed => t \in Subscribed
                        \/ (t = "unlock" /\ op = "unsubscribe_seid" /\ seid = SEID0),
                      op # "subscribe_bcast",
                      op = "subscribe_seid" => \/ seid = SEID0 /\ t = "trigger"
                                               \/ seid \in OwnSeids /\ h = seid[1],
                      op = "unsubscribe_seid" /\ seid = SEID0 => t = "unlock"
               PROVE  CallsInv' /\ CallTypes'
    OBVIOUS
  <2>1. stage[h] = s /\ result[h] = "true" /\ stage' = [stage EXCEPT ![h] = t]
    BY DEF At, Runs, GoTo
  <2> QED  BY <2>1, <1>0, <1>1, CallsAsk DEF CallTypes
<1>4. {"subscribe_seid", "unsubscribe_seid", "get_recovery_timestamp"} \subseteq Ops
  BY DEF Ops
<1>5. /\ {"start", "locking", "trigger", "establish", "establish_answer", "unlock", "setup"}
            \subseteq Stages
      /\ {"modify", "modified", "delete", "deleted", "heartbeat", "heartbeat_sent", "done"}
            \subseteq Stages
      /\ Subscribed = {"trigger", "establish", "establish_answer"}
  BY DEF Stages, Subscribed
<1>6. CASE LockMutex(h)
  BY <1>2, <1>5, <1>6 DEF LockMutex, pfcpVars
<1>7. CASE SubscribeSeid0(h)
  BY <1>0, <1>3, <1>4, <1>5, <1>7 DEF SubscribeSeid0
<1>8. CASE TriggerEstablishment(h)
  BY <1>2, <1>5, <1>8 DEF TriggerEstablishment
<1>9. CASE ReceiveEstablishment(h)
  <2> PICK seid : seid = LocSeid(h, erab[h])
    OBVIOUS
  <2>1. At(h, "establish") /\ GoTo(h, "establish_answer") /\ Call(h, "subscribe_seid", seid)
    BY <1>9 DEF ReceiveEstablishment
  <2>2. erab[h] \in Sessions
    BY <2>1, SessionsAre DEF At, EstInv, HdlrEst, Establishing
  <2>3. seid \in OwnSeids /\ seid[1] = h /\ seid \in Seids
    BY <2>2 DEF LocSeid, OwnSeids, Seids
  <2> QED  BY <2>1, <2>3, <1>3, <1>4, <1>5, SeidsAre
<1>10. CASE AnswerEstablishment(h)
  <2>1. CASE GoTo(h, "establish") /\ UNCHANGED <<procQ, result>>
    BY <2>1, <1>2, <1>5, <1>10 DEF AnswerEstablishment
  <2>2. CASE GoTo(h, "unlock") /\ Call(h, "unsubscribe_seid", SEID0)
    BY <2>2, <1>0, <1>3, <1>4, <1>5, <1>10 DEF AnswerEstablishment
  <2> QED  BY <2>1, <2>2, <1>10 DEF AnswerEstablishment
<1>11. CASE UnsubscribeSeid0(h)
  BY <1>0, <1>3, <1>4, <1>5, <1>11 DEF UnsubscribeSeid0
<1>12. CASE UnlockMutex(h)
  BY <1>2, <1>5, <1>12 DEF UnlockMutex
<1>13. CASE TriggerModification(h)
  BY <1>2, <1>5, <1>13 DEF TriggerModification
<1>14. CASE AnswerModification(h)
  <2>1. CASE GoTo(h, "modified")
    BY <2>1, <1>2, <1>5, <1>14 DEF AnswerModification
  <2>2. CASE GoTo(h, "modify")
    BY <2>2, <1>2, <1>5, <1>14 DEF AnswerModification
  <2> QED  BY <2>1, <2>2, <1>14 DEF AnswerModification
<1>15. CASE TriggerDeletion(h)
  BY <1>2, <1>5, <1>15 DEF TriggerDeletion
<1>16. CASE AnswerDeletion(h)
  <2> PICK seid : seid = Head(pfcp[h]).seid
    OBVIOUS
  <2>1. /\ At(h, "delete") /\ Call(h, "unsubscribe_seid", seid)
        /\ seid \in {LocSeid(h, e) : e \in SessionsOf}
        /\ GoTo(h, "deleted") \/ GoTo(h, "delete")
    BY <1>16 DEF AnswerDeletion
  <2>2. seid \in Seids /\ seid # SEID0
    <3>1. seid \in OwnSeids
      BY <2>1, SessionsAre DEF LocSeid, OwnSeids
    <3> QED  BY <3>1, SeidsAre DEF Seids
  <2>3. CASE GoTo(h, "deleted")
    BY <2>1, <2>2, <2>3, <1>3, <1>4, <1>5
  <2>4. CASE GoTo(h, "delete")
    BY <2>1, <2>2, <2>4, <1>3, <1>4, <1>5
  <2> QED  BY <2>1, <2>3, <2>4
<1>17. CASE End(h)
  BY <1>2, <1>5, <1>17 DEF End
<1>18. CASE HeartbeatTimestamp(h)
  BY <1>0, <1>3, <1>4, <1>5, <1>18 DEF HeartbeatTimestamp
<1>19. CASE SendHeartbeat(h)
  BY <1>2, <1>5, <1>19 DEF SendHeartbeat
<1>20. CASE ReceiveHeartbeat(h)
  BY <1>2, <1>5, <1>20 DEF ReceiveHeartbeat
<1>21. CASE Amiss(h)
  BY <1>1, <1>21, CallsFrame DEF Amiss, CallTypes
<1> QED  BY <1>6, <1>7, <1>8, <1>9, <1>10, <1>11, <1>12, <1>13, <1>14, <1>15, <1>16, <1>17,
            <1>18, <1>19, <1>20, <1>21 DEF UserStep

\* A ConnHdlr leaves what belongs to another alone.
LEMMA OthersKeep ==
  ASSUME SessionTypes, NEW h \in Users, UserStep(h)
  PROVE  /\ \A g \in ConnHdlrs : g # h => stage'[g] = stage[g] /\ pfcp'[g] = pfcp[g]
         /\ \A g \in Users : g # h => /\ erab'[g] = erab[g] /\ procedure'[g] = procedure[g]
                                      /\ progress'[g] = progress[g]
<1>1. stage' = stage \/ \E s : GoTo(h, s)
  BY DEF UserStep, LockMutex, SubscribeSeid0, TriggerEstablishment, ReceiveEstablishment,
         AnswerEstablishment, UnsubscribeSeid0, UnlockMutex, TriggerModification,
         AnswerModification, TriggerDeletion, AnswerDeletion, End, HeartbeatTimestamp,
         SendHeartbeat, ReceiveHeartbeat, Amiss
<1>2. pfcp' = pfcp \/ TakePdu(h)
  BY DEF UserStep, LockMutex, SubscribeSeid0, TriggerEstablishment, ReceiveEstablishment,
         AnswerEstablishment, UnsubscribeSeid0, UnlockMutex, TriggerModification,
         AnswerModification, TriggerDeletion, AnswerDeletion, End, HeartbeatTimestamp,
         SendHeartbeat, ReceiveHeartbeat, Amiss, pfcpVars
<1>3. UNCHANGED <<procedure, progress>> \/ \E what : Trigger(h, what)
  BY DEF UserStep, LockMutex, SubscribeSeid0, TriggerEstablishment, ReceiveEstablishment,
         AnswerEstablishment, UnsubscribeSeid0, UnlockMutex, TriggerModification,
         AnswerModification, TriggerDeletion, AnswerDeletion, End, HeartbeatTimestamp,
         SendHeartbeat, ReceiveHeartbeat, Amiss
<1>4. erab' = erab \/ \E n : erab' = [erab EXCEPT ![h] = n]
  <2>1. CASE AnswerEstablishment(h)
    BY <2>1 DEF AnswerEstablishment
  <2>2. CASE AnswerModification(h)
    BY <2>2 DEF AnswerModification
  <2>3. CASE AnswerDeletion(h)
    BY <2>3 DEF AnswerDeletion
  <2> QED
    BY <2>1, <2>2, <2>3
    DEF UserStep, LockMutex, SubscribeSeid0, TriggerEstablishment, ReceiveEstablishment,
        UnsubscribeSeid0, UnlockMutex, TriggerModification, TriggerDeletion, End,
        HeartbeatTimestamp, SendHeartbeat, ReceiveHeartbeat, Amiss
<1>5. \A g \in ConnHdlrs : g # h => stage'[g] = stage[g] /\ pfcp'[g] = pfcp[g]
  BY <1>1, <1>2 DEF SessionTypes, GoTo, TakePdu
<1>6. \A g \in Users : g # h => procedure'[g] = procedure[g] /\ progress'[g] = progress[g]
  BY <1>3 DEF SessionTypes, Trigger
<1>7. \A g \in Users : g # h => erab'[g] = erab[g]
  BY <1>4 DEF SessionTypes
<1> QED  BY <1>5, <1>6, <1>7

LEMMA AssocOthers ==
  ASSUME SessionTypes, AssocStep, NEW g \in ConnHdlrs, g # Associator
  PROVE  stage'[g] = stage[g] /\ pfcp'[g] = pfcp[g]
<1>1. \E s : GoTo(Associator, s)
  BY DEF AssocStep, AssocSubscribe, AssocReceive, AssocTimestamp, AssocSend
<1>2. pfcp' = pfcp \/ TakePdu(Associator)
  BY DEF AssocStep, AssocSubscribe, AssocReceive, AssocTimestamp, AssocSend
<1> QED  BY <1>1, <1>2 DEF SessionTypes, GoTo, TakePdu

LEMMA AssocHeads ==
  ASSUME SessionTypes, Heads, AssocStep, suite' = suite
  PROVE  Heads'
<1>1. \A h \in Users : stage'[h] = stage[h] /\ pfcp'[h] = pfcp[h]
  BY AssocOthers, Hdlrs
<1>2. \A s \in Stages : GoTo(Associator, s) => stage'[Associator] = s
  BY Hdlrs DEF SessionTypes, GoTo
<1>3. stage'[Associator] \in {"assoc_answer", "assoc_send"} =>
        pfcp'[Associator] # <<>> /\ Head(pfcp'[Associator]).kind = "assoc_req"
  <2>1. CASE AssocSubscribe(Associator)
    BY <2>1, <1>2 DEF AssocSubscribe, Stages
  <2>2. CASE AssocReceive(Associator)
    BY <2>2, <1>2 DEF AssocReceive, Received
  <2>3. CASE AssocTimestamp(Associator)
    BY <2>3, <1>2 DEF AssocTimestamp, Heads, At
  <2>4. CASE AssocSend(Associator)
    BY <2>4, <1>2 DEF AssocSend, Stages
  <2> QED  BY <2>1, <2>2, <2>3, <2>4 DEF AssocStep
<1> QED  BY <1>1, <1>3 DEF Heads

LEMMA UserHeads ==
  ASSUME SessionTypes, Heads, NEW h \in Users, UserStep(h), suite' = suite
  PROVE  Heads'
<1>0. h \in ConnHdlrs /\ h # Associator
  BY Hdlrs
<1>1. \A g \in ConnHdlrs : g # h => stage'[g] = stage[g] /\ pfcp'[g] = pfcp[g]
  BY OthersKeep
<1>2. \A s \in Stages : GoTo(h, s) => stage'[h] = s
  BY <1>0 DEF SessionTypes, GoTo
<1>3. stage'[h] = "establish_answer" \/ (stage'[h] = "unlock" /\ suite = "hnbgw") =>
        pfcp'[h] # <<>> /\ Head(pfcp'[h]).kind = "est_req"
  <2>1. CASE ReceiveEstablishment(h)
    BY <2>1 DEF ReceiveEstablishment, Received
  <2>2. CASE UnsubscribeSeid0(h)
    BY <2>2 DEF UnsubscribeSeid0, Heads, At
  <2>3. CASE Amiss(h)
    BY <2>3 DEF Amiss, Heads
  <2>4. CASE AnswerEstablishment(h)
    BY <2>4, <1>2 DEF AnswerEstablishment, Stages
  <2>5. CASE AnswerModification(h)
    BY <2>5, <1>2 DEF AnswerModification, Stages
  <2>6. CASE AnswerDeletion(h)
    BY <2>6, <1>2 DEF AnswerDeletion, Stages
  <2> QED
    BY <2>1, <2>2, <2>3, <2>4, <2>5, <2>6, <1>2
    DEF UserStep, LockMutex, SubscribeSeid0, TriggerEstablishment, UnlockMutex,
        TriggerModification, TriggerDeletion, End, HeartbeatTimestamp, SendHeartbeat,
        ReceiveHeartbeat, Stages
<1>4. \A g \in Users : g # h => stage'[g] = stage[g] /\ pfcp'[g] = pfcp[g]
  BY <1>1, Hdlrs
<1>5. stage'[Associator] = stage[Associator] /\ pfcp'[Associator] = pfcp[Associator]
  BY <1>0, <1>1, Hdlrs
<1> QED  BY <1>3, <1>4, <1>5 DEF Heads

-----------------------------------------------------------------------------
(* The steps of the ConnHdlrs: establishment requests. *)

\* Nothing of h's establishment is touched.
LEMMA EstFrame ==
  ASSUME NEW h \in Users, HdlrEst(h), \A e \in Sessions : SessionEst(h, e),
         stage'[h] = stage[h], erab'[h] = erab[h], procedure'[h] = procedure[h],
         progress'[h] = progress[h], pfcp'[h] = pfcp[h], rxQ' = rxQ, suite' = suite
  PROVE  HdlrEst(h)' /\ \A e \in Sessions : SessionEst(h, e)'
<1>1. SessionsOf' = SessionsOf
  BY DEF SessionsOf, Sessions
<1>2. HdlrEst(h)'
  BY <1>1 DEF HdlrEst, Early, Establishing, Sessions
<1>3. ASSUME NEW e \in Sessions PROVE SessionEst(h, e)'
  <2>1. /\ Coming(h, e)' <=> Coming(h, e)
        /\ Come(h, e)' <=> Come(h, e)
        /\ Answered(h, e)' <=> Answered(h, e)
        /\ Early(h)' <=> Early(h)
        /\ Establishing(h)' <=> Establishing(h)
    BY DEF Coming, Come, Answered, Early, Establishing, EstRequests, FromIut
  <2>2. Once(rxQ, EstRequests(h, e))' <=> Once(rxQ, EstRequests(h, e))
    BY DEF Once, EstRequests, FromIut
  <2>3. SessionEst(h, e)
    OBVIOUS
  <2> QED  BY <1>1, <2>1, <2>2, <2>3 DEF SessionEst
<1> QED  BY <1>2, <1>3

\* What is under way for h stays, and h takes what has come.
LEMMA EstPort ==
  ASSUME SessionTypes, NEW h \in Users, rxQ' = rxQ, suite' = suite,
         pfcp'[h] = pfcp[h] \/ TakesOne(h)
  PROVE  /\ SessionsOf' = SessionsOf
         /\ \A e \in Sessions : /\ Coming(h, e)' <=> Coming(h, e)
                                /\ Come(h, e)' => Come(h, e)
                                /\ Once(rxQ, EstRequests(h, e))' <=> Once(rxQ, EstRequests(h, e))
<1>1. SessionsOf' = SessionsOf
  BY DEF SessionsOf, Sessions
<1>2. Elems(pfcp'[h]) \subseteq Elems(pfcp[h])
  <2>1. CASE pfcp'[h] = pfcp[h]
    BY <2>1
  <2>2. CASE TakesOne(h)
    <3>1. pfcp \in [ConnHdlrs -> Seq(FromIut)] /\ h \in ConnHdlrs
      BY Hdlrs DEF SessionTypes
    <3>2. pfcp[h] # <<>> /\ pfcp[h] \in Seq(FromIut) /\ pfcp'[h] = Tail(pfcp[h])
      BY <2>2, <3>1 DEF TakesOne
    <3> QED  BY <3>2, QueueTake
  <2> QED  BY <2>1, <2>2
<1>3. ASSUME NEW e \in Sessions
      PROVE  /\ Coming(h, e)' <=> Coming(h, e)
             /\ Come(h, e)' => Come(h, e)
             /\ Once(rxQ, EstRequests(h, e))' <=> Once(rxQ, EstRequests(h, e))
  BY <1>2 DEF Coming, Come, Once, EstRequests, FromIut
<1> QED  BY <1>1, <1>3

\* h goes on to a stage that has nothing to do with the establishment.
LEMMA EstElsewhere ==
  ASSUME SessionTypes, EstInv, NEW h \in Users, rxQ' = rxQ, suite' = suite,
         pfcp'[h] = pfcp[h] \/ TakesOne(h), ~Establishing(h),
         stage'[h] \notin {"start", "locking", "trigger", "establish", "establish_answer",
                           "unlock", "setup"},
         procedure'[h] # "est",
         procedure'[h] = "none" => \A e \in Sessions : progress'[h][e] # "requested"
  PROVE  HdlrEst(h)' /\ \A e \in Sessions : SessionEst(h, e)'
<1>1. ~Early(h)' /\ ~Establishing(h)'
  BY DEF Early, Establishing
<1>2. HdlrEst(h)'
  BY <1>1 DEF HdlrEst, Sessions
<1>3. ASSUME NEW e \in Sessions PROVE SessionEst(h, e)'
  <2>1. SessionEst(h, e)
    BY DEF EstInv
  <2>2. /\ SessionsOf' = SessionsOf
        /\ Coming(h, e)' <=> Coming(h, e)
        /\ Come(h, e)' => Come(h, e)
        /\ Once(rxQ, EstRequests(h, e))' <=> Once(rxQ, EstRequests(h, e))
    BY EstPort
  <2>3. ~Coming(h, e) /\ (Come(h, e) => e \in SessionsOf) /\ Once(rxQ, EstRequests(h, e))
    BY <2>1 DEF SessionEst
  <2>4. ~Coming(h, e)' /\ (Come(h, e)' => e \in SessionsOf') /\ Once(rxQ, EstRequests(h, e))'
    BY <2>2, <2>3
  <2> QED  BY <2>4, <1>1 DEF SessionEst, Answered
<1> QED  BY <1>2, <1>3

\* The request ReceiveEstablishment takes up is that of the current session.
LEMMA EstablishmentCame ==
  ASSUME SessionTypes, Addressed, EstInv, NEW h \in Users, ReceiveEstablishment(h)
  PROVE  Come(h, erab[h]) /\ erab[h] \in SessionsOf /\ erab[h] \in Sessions
<1> PICK p : p = Head(pfcp[h])
  OBVIOUS
<1>1. /\ p.kind = "est_req" /\ p.owner \in EstablishmentOf(h) /\ stage[h] = "establish"
      /\ pfcp[h] # <<>> /\ h \in ConnHdlrs
  BY Hdlrs DEF ReceiveEstablishment, At, Received
<1>2. p \in FromIut /\ p.owner[1] = h /\ p \in Elems(pfcp[h])
  BY <1>1, HeadOfPort
<1>3. erab[h] \in SessionsOf /\ erab[h] \in Sessions
  BY <1>1, SessionsAre DEF EstInv, HdlrEst, Establishing
<1>4. p.owner \in OwnSeids
  BY <1>1, <1>2 DEF FromIut, IsRequest, IsAnswer
<1>5. PICK e \in Sessions : p.owner = <<h, e>>
  BY <1>2, <1>4, SeidsAre
<1>6. Come(h, e)
  BY <1>1, <1>2, <1>5 DEF Come, EstRequests
<1>7. e = erab[h]
  <2>1. CASE suite = "s1gw"
    BY <1>1, <1>5, <2>1 DEF EstablishmentOf
  <2>2. CASE suite # "s1gw"
    <3>1. e \in SessionsOf
      BY <1>6 DEF EstInv, SessionEst
    <3> QED  BY <3>1, <2>2, <1>3, SessionsAre
  <2> QED  BY <2>1, <2>2
<1> QED  BY <1>3, <1>6, <1>7

LEMMA HdlrPort ==
  ASSUME NEW h \in Users, HdlrDoes(h)
  PROVE  pfcp'[h] = pfcp[h] \/ TakesOne(h)
  BY DEF HdlrDoes

LEMMA UserEst ==
  ASSUME SessionTypes, Addressed, Heads, Begun, EstInv, NEW h \in Users, UserStep(h), suite' = suite
  PROVE  HdlrEst(h)' /\ \A e \in Sessions : SessionEst(h, e)'
<1>0. h \in ConnHdlrs
  BY Hdlrs
<1>1. /\ stage \in [ConnHdlrs -> Stages] /\ erab \in [Users -> Nat]
      /\ procedure \in [Users -> {"none", "est", "mod", "del"}]
      /\ progress \in [Users -> [Sessions -> {"idle", "requested", "done"}]]
  BY DEF SessionTypes
<1>2. \A s : GoTo(h, s) => stage'[h] = s
  BY <1>0, <1>1 DEF GoTo
<1>3. \A what : Trigger(h, what) =>
         procedure'[h] = what /\ \A e \in Sessions : progress'[h][e] = "idle"
  BY <1>1 DEF Trigger, AllIdle
<1>4. pfcp'[h] = pfcp[h] \/ TakesOne(h)
  BY HdlrStep, HdlrPort
<1>5. rxQ' = rxQ
  BY DEF UserStep
<1>6. /\ SessionsOf' = SessionsOf
      /\ \A e \in Sessions : /\ Coming(h, e)' <=> Coming(h, e)
                             /\ Come(h, e)' => Come(h, e)
                             /\ Once(rxQ, EstRequests(h, e))' <=> Once(rxQ, EstRequests(h, e))
  BY <1>4, <1>5, EstPort
<1>7. HdlrEst(h) /\ \A e \in Sessions : SessionEst(h, e)
  BY DEF EstInv
<1>8. \A s, t \in Stages :
         /\ At(h, s) /\ GoTo(h, t) /\ s \notin {"establish", "establish_answer"}
         /\ t \notin {"start", "locking", "trigger", "establish", "establish_answer",
                      "unlock", "setup"}
         /\ procedure'[h] # "est"
         /\ (procedure'[h] = "none" => \A e \in Sessions : progress'[h][e] # "requested")
         => HdlrEst(h)' /\ \A e \in Sessions : SessionEst(h, e)'
  BY <1>2, <1>4, <1>5, EstElsewhere DEF At, Establishing
<1>9. /\ {"start", "locking", "trigger", "establish", "establish_answer", "unlock", "setup"}
            \subseteq Stages
      /\ {"modify", "modified", "delete", "deleted", "heartbeat", "heartbeat_sent", "done"}
            \subseteq Stages
  BY DEF Stages
<1>10. \A e \in SessionsOf : e \in Sessions /\ e \in Nat
  BY SessionsAre
\* h goes on while it waits for the mutex, or for the reply to its subscription.
<1>11. ASSUME NEW s \in {"start", "locking"}, NEW t \in {"locking", "trigger"}, At(h, s), GoTo(h, t),
              UNCHANGED <<erab, procedure, progress>>
       PROVE  HdlrEst(h)' /\ \A e \in Sessions : SessionEst(h, e)'
  <2>1. stage[h] = s /\ stage'[h] = t
    BY <1>2, <1>11 DEF At
  <2>2. Early(h) /\ Early(h)' /\ ~Establishing(h) /\ ~Establishing(h)'
    BY <2>1 DEF Early, Establishing
  <2>3. HdlrEst(h)'
    BY <1>7, <1>11, <2>1, <2>2 DEF HdlrEst, Sessions
  <2>4. ASSUME NEW e \in Sessions PROVE SessionEst(h, e)'
    <3>1. ~Coming(h, e) /\ ~Come(h, e) /\ Once(rxQ, EstRequests(h, e))
      BY <1>7, <2>2 DEF SessionEst
    <3>2. ~Coming(h, e)' /\ ~Come(h, e)' /\ Once(rxQ, EstRequests(h, e))'
      BY <3>1, <1>6
    <3>3. ~Answered(h, e)'
      BY <2>1 DEF Answered
    <3>4. procedure'[h] # "est"
      BY <1>7, <1>11, <2>2 DEF HdlrEst
    <3> QED  BY <3>2, <3>3, <3>4 DEF SessionEst
  <2> QED  BY <2>3, <2>4
\* h goes on in the establishment.
<1>12. ASSUME UNCHANGED <<procedure, progress>>, Establishing(h) \/ stage[h] = "unlock",
              Establishing(h)' \/ (stage'[h] \in {"unlock", "setup"}
                                     /\ \A e \in SessionsOf : Answered(h, e)),
              Establishing(h)' => erab'[h] \in SessionsOf,
              \A e \in SessionsOf : Answered(h, e)' => ~Coming(h, e) /\ progress[h][e] # "idle"
       PROVE  HdlrEst(h)' /\ \A e \in Sessions : SessionEst(h, e)'
  <2>1. procedure[h] = "est" /\ procedure'[h] = "est" /\ ~Early(h) /\ ~Early(h)'
    BY <1>7, <1>12 DEF HdlrEst, Early, Establishing
  <2>2. HdlrEst(h)'
    BY <1>6, <1>12, <2>1 DEF HdlrEst, Early, Establishing
  <2>3. ASSUME NEW e \in Sessions PROVE SessionEst(h, e)'
    <3>1. /\ Coming(h, e) \/ Come(h, e) => e \in SessionsOf
          /\ progress[h][e] = "idle" => ~Coming(h, e) /\ ~Come(h, e)
          /\ Come(h, e) => ~Coming(h, e)
          /\ Once(rxQ, EstRequests(h, e))
          /\ Answered(h, e) /\ e \in SessionsOf => ~Coming(h, e)
      BY <1>7, <2>1 DEF SessionEst
    <3>2. Coming(h, e)' => Establishing(h)'
      BY <1>6, <1>12, <3>1
    <3> QED  BY <1>6, <1>12, <2>1, <3>1, <3>2 DEF SessionEst
  <2> QED  BY <2>2, <2>3
<1>13. CASE LockMutex(h)
  BY <1>11, <1>13 DEF LockMutex
<1>14. CASE SubscribeSeid0(h)
  BY <1>11, <1>14 DEF SubscribeSeid0
<1>15. CASE TriggerEstablishment(h)
  <2>1. /\ stage[h] = "trigger" /\ stage'[h] = "establish" /\ erab'[h] = erab[h]
        /\ procedure'[h] = "est" /\ \A e \in Sessions : progress'[h][e] = "idle"
    BY <1>2, <1>3, <1>15 DEF TriggerEstablishment, At
  <2>2. Early(h) /\ ~Early(h)' /\ Establishing(h)' /\ erab[h] = 1
    BY <1>7, <2>1 DEF Early, Establishing, HdlrEst
  <2>3. HdlrEst(h)'
    BY <1>6, <2>1, <2>2, SessionsAre DEF HdlrEst, Sessions
  <2>4. ASSUME NEW e \in Sessions PROVE SessionEst(h, e)'
    <3>1. ~Coming(h, e) /\ ~Come(h, e) /\ Once(rxQ, EstRequests(h, e))
      BY <1>7, <2>2 DEF SessionEst
    <3>2. ~Coming(h, e)' /\ ~Come(h, e)' /\ Once(rxQ, EstRequests(h, e))'
      BY <3>1, <1>6
    <3>3. ~Answered(h, e)'
      <4>1. ~(e < 1)
        BY SessionsAre
      <4> QED  BY <2>1, <2>2, <4>1 DEF Answered
    <3> QED  BY <3>2, <3>3 DEF SessionEst
  <2> QED  BY <2>3, <2>4
<1>16. CASE ReceiveEstablishment(h)
  <2>1. /\ stage[h] = "establish" /\ stage'[h] = "establish_answer"
        /\ UNCHANGED <<erab, procedure, progress>>
    BY <1>2, <1>16 DEF ReceiveEstablishment, At
  <2>2. Establishing(h) /\ Establishing(h)'
    BY <2>1 DEF Establishing
  <2>3. Come(h, erab[h]) /\ erab[h] \in SessionsOf /\ erab[h] \in Sessions
    BY <1>16, EstablishmentCame
  <2>4. ASSUME NEW e \in SessionsOf, Answered(h, e)' PROVE ~Coming(h, e) /\ progress[h][e] # "idle"
    <3>1. e <= erab[h] /\ e \in Sessions /\ e \in Nat /\ erab[h] \in Nat
      BY <1>10, <2>1, <2>3, <2>4 DEF Answered
    <3>2. CASE e = erab[h]
      <4>1. procedure[h] = "est"
        BY <1>7, <2>2 DEF HdlrEst
      <4> QED  BY <1>7, <2>3, <3>2, <4>1 DEF SessionEst
    <3>3. CASE e < erab[h]
      <4>1. Answered(h, e)
        BY <2>1, <3>3 DEF Answered
      <4> QED  BY <1>7, <3>1, <4>1 DEF SessionEst
    <3> QED  BY <3>1, <3>2, <3>3
  <2> QED  BY <1>12, <2>1, <2>2, <2>3, <2>4
<1>17. CASE AnswerEstablishment(h)
  <2>1. /\ stage[h] = "establish_answer" /\ suite = "s1gw" /\ UNCHANGED <<procedure, progress>>
        /\ \/ /\ erab[h] + 1 \in SessionsOf
              /\ erab' = [erab EXCEPT ![h] = @ + 1] /\ stage'[h] = "establish"
           \/ /\ erab[h] + 1 \notin SessionsOf /\ stage'[h] = "unlock"
    BY <1>2, <1>17 DEF AnswerEstablishment, At, LastErab
  <2>2. Establishing(h) /\ erab[h] \in SessionsOf /\ erab[h] \in Nat
    BY <2>1, <1>7, <1>10 DEF Establishing, HdlrEst
  <2>3. \A e \in SessionsOf : e <= erab[h] => ~Coming(h, e) /\ progress[h][e] # "idle"
    BY <1>7, <1>10, <2>1 DEF SessionEst, Answered
  <2>4. CASE stage'[h] = "establish"
    <3>1. erab'[h] = erab[h] + 1 /\ erab'[h] \in SessionsOf
      BY <1>1, <2>1, <2>4
    <3>2. \A e \in SessionsOf : Answered(h, e)' => e <= erab[h]
      BY <1>10, <2>2, <2>4, <3>1 DEF Answered
    <3>3. Establishing(h)'
      BY <2>4 DEF Establishing
    <3> QED  BY <1>12, <2>1, <2>2, <2>3, <3>1, <3>2, <3>3
  <2>5. CASE stage'[h] = "unlock"
    <3>1. \A e \in SessionsOf : e <= erab[h]
      BY <2>1, <2>2, <2>5, SessionsAre
    <3>2. \A e \in SessionsOf : Answered(h, e)
      BY <2>1, <3>1 DEF Answered
    <3>3. ~Establishing(h)'
      BY <2>5 DEF Establishing
    <3> QED  BY <1>12, <2>1, <2>2, <2>3, <2>5, <3>1, <3>2, <3>3
  <2> QED  BY <2>1, <2>4, <2>5
<1>18. CASE UnsubscribeSeid0(h)
  <2>1. /\ stage[h] = "establish_answer" /\ suite = "hnbgw" /\ stage'[h] = "unlock"
        /\ UNCHANGED <<erab, procedure, progress>>
    BY <1>2, <1>18 DEF UnsubscribeSeid0, At
  <2>2. Establishing(h) /\ erab[h] \in SessionsOf /\ SessionsOf = {1}
    BY <2>1, <1>7, SessionsAre DEF Establishing, HdlrEst
  <2>3. \A e \in SessionsOf : Answered(h, e) /\ e \in Sessions
    BY <1>10, <2>1, <2>2 DEF Answered
  <2>4. \A e \in SessionsOf : ~Coming(h, e) /\ progress[h][e] # "idle"
    BY <1>7, <2>3 DEF SessionEst
  <2>5. ~Establishing(h)'
    BY <2>1 DEF Establishing
  <2> QED  BY <1>12, <2>1, <2>2, <2>3, <2>4, <2>5
<1>19. CASE UnlockMutex(h)
  <2>1. /\ stage[h] = "unlock" /\ stage'[h] = "setup" /\ UNCHANGED <<erab, procedure, progress>>
    BY <1>2, <1>19 DEF UnlockMutex, At
  <2>2. \A e \in SessionsOf : Answered(h, e) /\ e \in Sessions
    BY <1>10, <2>1 DEF Answered
  <2>3. \A e \in SessionsOf : ~Coming(h, e) /\ progress[h][e] # "idle"
    BY <1>7, <2>2 DEF SessionEst
  <2>4. ~Establishing(h)'
    BY <2>1 DEF Establishing
  <2> QED  BY <1>12, <2>1, <2>2, <2>3, <2>4
<1>20. CASE TriggerModification(h)
  <2>1. At(h, "setup") /\ GoTo(h, "modify") /\ procedure'[h] = "mod"
    BY <1>3, <1>20 DEF TriggerModification
  <2> QED  BY <2>1, <1>8, <1>9
<1>21. CASE TriggerDeletion(h)
  <2>1. At(h, "modified") /\ GoTo(h, "delete") /\ procedure'[h] = "del"
    BY <1>3, <1>21 DEF TriggerDeletion
  <2> QED  BY <2>1, <1>8, <1>9
<1>22. ASSUME NEW s \in Stages, At(h, s), UNCHANGED <<procedure, progress>>,
              s \notin {"establish", "establish_answer", "unlock", "setup"}
       PROVE  /\ procedure'[h] # "est"
              /\ procedure'[h] = "none" => \A e \in Sessions : progress'[h][e] # "requested"
  BY <1>7, <1>22 DEF HdlrEst, Establishing, At
<1>23. CASE AnswerModification(h)
  <2>1. At(h, "modify") /\ (GoTo(h, "modified") \/ GoTo(h, "modify"))
        /\ UNCHANGED <<procedure, progress>>
    BY <1>23 DEF AnswerModification
  <2> QED  BY <2>1, <1>8, <1>9, <1>22
<1>24. CASE AnswerDeletion(h)
  <2>1. At(h, "delete") /\ (GoTo(h, "deleted") \/ GoTo(h, "delete"))
        /\ UNCHANGED <<procedure, progress>>
    BY <1>24 DEF AnswerDeletion
  <2> QED  BY <2>1, <1>8, <1>9, <1>22
<1>25. CASE End(h)
  BY <1>8, <1>9, <1>22, <1>25 DEF End
<1>26. CASE HeartbeatTimestamp(h)
  BY <1>8, <1>9, <1>22, <1>26 DEF HeartbeatTimestamp
<1>27. CASE SendHeartbeat(h)
  BY <1>8, <1>9, <1>22, <1>27 DEF SendHeartbeat
<1>28. CASE ReceiveHeartbeat(h)
  BY <1>8, <1>9, <1>22, <1>28 DEF ReceiveHeartbeat
<1>29. CASE Amiss(h)
  BY <1>5, <1>7, <1>29, EstFrame DEF Amiss
<1> QED  BY <1>13, <1>14, <1>15, <1>16, <1>17, <1>18, <1>19, <1>20, <1>21, <1>23, <1>24, <1>25,
            <1>26, <1>27, <1>28, <1>29 DEF UserStep

LEMMA StepEst ==
  ASSUME SessionTypes, Addressed, Heads, Begun, EstInv, suite' = suite,
         AssocStep \/ \E h \in Users : UserStep(h)
  PROVE  EstInv'
<1>1. CASE AssocStep
  <2>1. \A g \in Users : /\ stage'[g] = stage[g] /\ pfcp'[g] = pfcp[g]
                         /\ UNCHANGED <<erab, procedure, progress, rxQ>>
    BY <1>1, AssocOthers, Hdlrs DEF AssocStep
  <2> QED  BY <2>1, EstFrame DEF EstInv, Sessions
<1>2. CASE \E h \in Users : UserStep(h)
  <2> PICK h \in Users : UserStep(h)
    BY <1>2
  <2>1. rxQ' = rxQ
    BY DEF UserStep
  <2>2. ASSUME NEW g \in Users PROVE HdlrEst(g)' /\ \A e \in Sessions : SessionEst(g, e)'
    <3>1. CASE g = h
      BY <3>1, UserEst
    <3>2. CASE g # h
      <4>1. /\ stage'[g] = stage[g] /\ pfcp'[g] = pfcp[g] /\ erab'[g] = erab[g]
            /\ procedure'[g] = procedure[g] /\ progress'[g] = progress[g]
        BY <3>2, OthersKeep, Hdlrs
      <4> QED  BY <2>1, <4>1, EstFrame DEF EstInv
    <3> QED  BY <3>1, <3>2
  <2> QED  BY <2>2 DEF EstInv, Sessions
<1> QED  BY <1>1, <1>2

-----------------------------------------------------------------------------
(* The mutex. *)

\* h asks for the end of the testcase.
ShutsDown(h) ==
    /\ pc' = [pc EXCEPT ![h] = "shutdown"]
    /\ Shutdown
    /\ UNCHANGED <<locked, g_mutex_ref, lockQ, unlockQ, inbox, ref, rounds, disp>>

LEMMA ShutsDownInv ==
  ASSUME MutexInv, NEW c \in Clients, ShutsDown(c)
  PROVE  MutexInv'
<1> USE DEF MutexInv, ShutsDown, Shutdown
<1>1. TypeOK'
  BY DEF TypeOK
<1>2. FreeMeansStale'
  BY DEF TypeOK, FreeMeansStale, HolderHasCurrentRef
<1>3. OneHasCurrent'
  BY DEF TypeOK, FreeMeansStale, OneHasCurrent, HolderHasCurrentRef, HasCurrent
<1>4. PendingRelease'
  BY DEF TypeOK, FreeMeansStale, OneHasCurrent, PendingRelease, HolderHasCurrentRef, HasCurrent
<1>5. HolderHasCurrentRef'
  BY DEF TypeOK, FreeMeansStale, OneHasCurrent, PendingRelease, HolderHasCurrentRef, HasCurrent
<1> QED  BY <1>1, <1>2, <1>3, <1>4, <1>5

\* A step of the mutex other than the unlock of g.
MutexMoves(g) ==
    \/ UNCHANGED vars
    \/ Dispatcher
    \/ StopTestcase
    \/ \E d \in Clients : \/ CallLock(d) \/ GetReply(d) \/ LockTimeout(d) \/ AbortCritical(d)
                          \/ ShutsDown(d)
                          \/ d # g /\ CallUnlock(d)

\* Whoever has the mutex keeps it until it unlocks it.
LEMMA KeepsMutex ==
  ASSUME MutexInv, NEW g \in Clients, HasMutex(g), MutexMoves(g)
  PROVE  HasMutex(g)'
<1>0. /\ TypeOK /\ pc[g] \in {"critical", "shutdown"} /\ locked /\ ref[g] = g_mutex_ref
      /\ \A i \in DOMAIN unlockQ : unlockQ[i] # g_mutex_ref
  BY DEF MutexInv, HasMutex
<1>1. CASE UNCHANGED vars
  BY <1>1 DEF vars, HasMutex
<1>2. CASE Dispatcher
  <2>1. ~Grant
    BY <1>0 DEF Grant, MayGrant
  <2>2. unlockQ # <<>> => /\ Head(unlockQ) # g_mutex_ref
                          /\ \A i \in DOMAIN Tail(unlockQ) : Tail(unlockQ)[i] # g_mutex_ref
    <3> SUFFICES ASSUME unlockQ # <<>>
                 PROVE  /\ Head(unlockQ) # g_mutex_ref
                        /\ \A i \in DOMAIN Tail(unlockQ) : Tail(unlockQ)[i] # g_mutex_ref
      OBVIOUS
    <3>1. /\ Head(unlockQ) = unlockQ[1] /\ 1 \in DOMAIN unlockQ
          /\ \A i \in DOMAIN Tail(unlockQ) : \E j \in DOMAIN unlockQ : unlockQ[j] = Tail(unlockQ)[i]
      BY <1>0, TailElements DEF TypeOK
    <3> QED  BY <1>0, <3>1
  <2>3. ~Release
    BY <2>2 DEF Release, RefAccepted
  <2>4. Reject /\ unlockQ # <<>>
    BY <1>2, <2>1, <2>3 DEF Dispatcher, RejectNotLocked, RejectOtherRef
  <2> QED  BY <1>0, <2>2, <2>4 DEF Reject, HasMutex, clientVars
<1>3. CASE StopTestcase
  BY <1>0, <1>3 DEF StopTestcase, HasMutex, clientVars, dispatcherVars
<1>4. CASE \E d \in Clients : CallLock(d) \/ LockTimeout(d) \/ AbortCritical(d) \/ ShutsDown(d)
  <2> PICK d \in Clients : CallLock(d) \/ LockTimeout(d) \/ AbortCritical(d) \/ ShutsDown(d)
    BY <1>4
  <2>1. UNCHANGED <<locked, ref, g_mutex_ref, unlockQ>>
    BY DEF CallLock, LockTimeout, AbortCritical, ShutsDown, dispatcherVars
  <2>2. pc'[g] \in {"critical", "shutdown"}
    BY <1>0 DEF TypeOK, CallLock, LockTimeout, AbortCritical, ShutsDown
  <2> QED  BY <1>0, <2>1, <2>2 DEF HasMutex
<1>5. CASE \E d \in Clients : GetReply(d)
  <2> PICK d \in Clients : GetReply(d)
    BY <1>5
  <2>1. d # g /\ UNCHANGED <<locked, g_mutex_ref, unlockQ>>
    BY <1>0 DEF GetReply, dispatcherVars
  <2>2. pc'[g] = pc[g] /\ ref'[g] = ref[g]
    BY <1>0, <2>1 DEF TypeOK, GetReply
  <2> QED  BY <1>0, <2>1, <2>2 DEF HasMutex
<1>6. CASE \E d \in Clients : d # g /\ CallUnlock(d)
  <2> PICK d \in Clients : d # g /\ CallUnlock(d)
    BY <1>6
  <2>1. ref[d] # g_mutex_ref
    BY <1>0 DEF MutexInv, OneHasCurrent, HasCurrent
  <2>2. ref[d] \in Nat
    BY <1>0 DEF MutexInv, TypeOK, HolderHasCurrentRef, CallUnlock, HasRef, Unbound
  <2>3. /\ UNCHANGED <<locked, ref, g_mutex_ref>> /\ pc'[g] = pc[g]
        /\ unlockQ' = Append(unlockQ, ref[d])
    BY <1>0 DEF TypeOK, CallUnlock, dispatcherVars
  <2>4. \A i \in DOMAIN Append(unlockQ, ref[d]) : Append(unlockQ, ref[d])[i] # g_mutex_ref
    BY <1>0, <2>1, <2>2, AppendElements DEF TypeOK
  <2> QED  BY <1>0, <2>3, <2>4 DEF HasMutex
<1> QED  BY <1>1, <1>2, <1>3, <1>4, <1>5, <1>6 DEF MutexMoves

LEMMA MovesInv ==
  ASSUME MutexInv, NEW g \in Clients, MutexMoves(g) \/ CallUnlock(g)
  PROVE  MutexInv'
<1>1. [Next]_vars \/ \E d \in Clients : ShutsDown(d)
  BY DEF MutexMoves, Next, Client
<1> QED  BY <1>1, StepMutexInv, ShutsDownInv

\* What a step of h does at the mutex; h only goes inside when it has locked it.
LEMMA UserMutex ==
  ASSUME NEW h \in Users, UserStep(h)
  PROVE  \/ UNCHANGED vars \/ CallLock(h) \/ ShutsDown(h)
         \/ UnlockMutex(h) /\ CallUnlock(h)
<1>1. LockMutex(h) => CallLock(h)
  BY DEF LockMutex
<1>2. UnlockMutex(h) => CallUnlock(h)
  BY DEF UnlockMutex
<1>3. Amiss(h) => ShutsDown(h)
  BY DEF Amiss, ShutsDown
<1> QED
  BY <1>1, <1>2, <1>3
  DEF UserStep, SubscribeSeid0, TriggerEstablishment, ReceiveEstablishment,
      AnswerEstablishment, UnsubscribeSeid0, TriggerModification,
      AnswerModification, TriggerDeletion, AnswerDeletion, End, HeartbeatTimestamp,
      SendHeartbeat, ReceiveHeartbeat

LEMMA UserInside ==
  ASSUME SessionTypes, NEW h \in Users, UserStep(h), Inside(h)'
  PROVE  (Inside(h) /\ ~UnlockMutex(h)) \/ SubscribeSeid0(h)
<1>1. stage \in [ConnHdlrs -> Stages] /\ h \in ConnHdlrs
  BY Hdlrs DEF SessionTypes
<1>2. \A s : GoTo(h, s) => stage'[h] = s
  BY <1>1 DEF GoTo
<1>3. \A s : GoTo(h, s) => s \in {"trigger", "establish", "establish_answer", "unlock"}
  BY <1>2 DEF Inside, Subscribed
<1>4. ~UnlockMutex(h)
  BY <1>3 DEF UnlockMutex
<1>5. \A s \in {"trigger", "establish", "establish_answer", "unlock"} : At(h, s) => Inside(h)
  BY DEF At, Inside, Subscribed
<1>6. ~AnswerModification(h) /\ ~AnswerDeletion(h)
  BY <1>3 DEF AnswerModification, AnswerDeletion
<1>7. Amiss(h) => Inside(h)
  BY DEF Amiss, Inside
<1> QED
  BY <1>3, <1>4, <1>5, <1>6, <1>7
  DEF UserStep, LockMutex, TriggerEstablishment, ReceiveEstablishment,
      AnswerEstablishment, UnsubscribeSeid0, TriggerModification,
      TriggerDeletion, End, HeartbeatTimestamp, SendHeartbeat, ReceiveHeartbeat

LEMMA UserRegion ==
  ASSUME MutexInv, Region, SessionTypes, NEW h \in Users, UserStep(h)
  PROVE  MutexInv' /\ Region'
<1>0. h \in Clients
  BY Hdlrs
<1>1. MutexMoves(h) \/ (UnlockMutex(h) /\ CallUnlock(h))
  BY <1>0, UserMutex DEF MutexMoves
<1>2. MutexInv'
  BY <1>0, <1>1, MovesInv
<1>3. ASSUME NEW g \in Users, Inside(g)' PROVE HasMutex(g)'
  <2>1. CASE g # h
    <3>1. stage'[g] = stage[g]
      BY <2>1, OthersKeep, Hdlrs
    <3>2. g \in Clients /\ HasMutex(g)
      BY <3>1, <1>3, Hdlrs DEF Inside, Region
    <3>3. MutexMoves(g)
      BY <1>0, <2>1, UserMutex DEF MutexMoves
    <3> QED  BY <3>2, <3>3, KeepsMutex
  <2>2. CASE g = h /\ SubscribeSeid0(h)
    <3>1. pc[h] = "critical" /\ UNCHANGED vars
      BY <2>2 DEF SubscribeSeid0
    <3>2. HasMutex(h)
      BY <1>0, <3>1 DEF HasMutex, MutexInv, HolderHasCurrentRef, PendingRelease
    <3> QED  BY <2>2, <3>1, <3>2 DEF HasMutex, vars
  <2>3. CASE g = h /\ ~SubscribeSeid0(h)
    <3>1. Inside(h) /\ ~UnlockMutex(h)
      BY <1>3, <2>3, UserInside
    <3>2. HasMutex(h) /\ MutexMoves(h)
      BY <3>1, <1>1 DEF Region
    <3> QED  BY <1>0, <2>3, <3>2, KeepsMutex
  <2> QED  BY <2>1, <2>2, <2>3
<1> QED  BY <1>2, <1>3 DEF Region

\* A step in which no ConnHdlr goes on.
LEMMA StageRegion ==
  ASSUME MutexInv, Region, \A h \in Users : stage'[h] = stage[h],
         \A h \in Clients : MutexMoves(h)
  PROVE  Region'
<1> SUFFICES ASSUME NEW g \in Users, Inside(g)' PROVE HasMutex(g)'
  BY DEF Region
<1>1. g \in Clients /\ HasMutex(g)
  BY Hdlrs DEF Region, Inside
<1> QED  BY <1>1, KeepsMutex

\* A step at the mutex alone.
LEMMA QuietRegion ==
  ASSUME MutexInv, Region, Begun, suite' = suite, stage' = stage,
         \/ UNCHANGED vars \/ Dispatcher \/ StopTestcase
         \/ \E h \in Users : GetReply(h) \/ LockTimeout(h) \/ AbortCritical(h)
         \/ suite = "none" /\ Next
  PROVE  MutexInv' /\ Region'
<1>1. CASE suite = "none"
  <2>1. \A h \in Users : ~Inside(h)'
    BY <1>1 DEF Begun, Inside, Subscribed
  <2>2. [Next]_vars
    BY Hdlrs DEF Next, Client
  <2> QED  BY <2>1, <2>2, StepMutexInv DEF Region
<1>2. CASE suite # "none"
  <2>1. \A h \in Clients : MutexMoves(h)
    BY <1>2, Hdlrs DEF MutexMoves
  <2>2. [Next]_vars
    BY <1>2, Hdlrs DEF Next, Client
  <2> QED  BY <2>1, <2>2, StageRegion, StepMutexInv
<1> QED  BY <1>1, <1>2

-----------------------------------------------------------------------------
(* The steps of the ConnHdlrs keep the invariant. *)

LEMMA UserInv ==
  ASSUME SessionsInv, NEW h \in Users, UserStep(h), suite' = suite, suite # "none"
  PROVE  SessionsInv'
<1>0. /\ MutexInv /\ Region /\ SessionTypes /\ Addressed /\ Heads
      /\ CallsInv /\ Begun /\ EstInv /\ NumbersInv
      /\ h \in ConnHdlrs
  BY Hdlrs DEF SessionsInv
<1>1. UNCHANGED <<g_conns_bcast, g_conns_seqnr, g_conns_seid, g_next_sequence_nr_state,
                  rxQ, txQ, heartbeats>>
  BY DEF UserStep, conns
<1>2. HdlrDoes(h)
  BY <1>0, HdlrStep
<1>3. Associated => Associated'
  <2>1. stage'[Associator] = stage[Associator]
    BY <1>0, OthersKeep, Hdlrs
  <2> QED  BY <2>1 DEF Associated
<1>4. /\ stage' \in [ConnHdlrs -> Stages] /\ clientQ' \in Seq(FromHdlrs)
      /\ pfcp' \in [ConnHdlrs -> Seq(FromIut)] /\ LoopTypes'
      /\ Addressed' /\ Begun' /\ NumbersInv'
  BY <1>0, <1>1, <1>2, <1>3, HdlrKeeps
<1>5. CallsInv' /\ CallTypes'
  BY <1>0, UserCalls
<1>6. SessionTypes'
  BY <1>0, <1>1, <1>4, <1>5 DEF SessionTypes, CallTypes, LoopTypes
<1>7. Heads'
  BY <1>0, UserHeads
<1>8. EstInv'
  BY <1>0, StepEst
<1>9. MutexInv' /\ Region'
  BY <1>0, UserRegion
<1> QED  BY <1>4, <1>5, <1>6, <1>7, <1>8, <1>9 DEF SessionsInv

LEMMA AssocInv ==
  ASSUME SessionsInv, AssocStep, suite' = suite, suite # "none"
  PROVE  SessionsInv'
<1>0. /\ MutexInv /\ Region /\ SessionTypes /\ Addressed /\ Heads
      /\ CallsInv /\ Begun /\ EstInv /\ NumbersInv
      /\ Associator \in ConnHdlrs
  BY Hdlrs DEF SessionsInv
<1>1. UNCHANGED <<vars, g_conns_bcast, g_conns_seqnr, g_conns_seid, g_next_sequence_nr_state,
                  rxQ, txQ, heartbeats>>
  BY DEF AssocStep, conns
<1>2. HdlrDoes(Associator) /\ ~Associated
  BY <1>0, AssocDoes
<1>4. /\ stage' \in [ConnHdlrs -> Stages] /\ clientQ' \in Seq(FromHdlrs)
      /\ pfcp' \in [ConnHdlrs -> Seq(FromIut)] /\ LoopTypes'
      /\ Addressed' /\ Begun' /\ NumbersInv'
  BY <1>0, <1>1, <1>2, HdlrKeeps
<1>5. CallsInv' /\ CallTypes'
  BY <1>0, AssocCalls
<1>6. SessionTypes'
  BY <1>0, <1>1, <1>4, <1>5 DEF SessionTypes, CallTypes, LoopTypes
<1>7. Heads'
  BY <1>0, AssocHeads
<1>8. EstInv'
  BY <1>0, StepEst
<1>9. MutexInv' /\ Region'
  <2>1. \A g \in Users : stage'[g] = stage[g]
    BY <1>0, AssocOthers, Hdlrs
  <2>2. UNCHANGED vars /\ \A g \in Clients : MutexMoves(g)
    BY <1>1 DEF MutexMoves
  <2>3. MutexInv'
    BY <1>0, <2>2, StepMutexInv
  <2> QED  BY <1>0, <2>1, <2>2, <2>3, StageRegion
<1> QED  BY <1>4, <1>5, <1>6, <1>7, <1>8, <1>9 DEF SessionsInv

-----------------------------------------------------------------------------
(* The steps in which no ConnHdlr does anything. *)

\* Establishment requests move on from the dispatcher's port to their ConnHdlr's.
LEMMA EstMovesOn ==
  ASSUME EstInv, UNCHANGED <<stage, erab, procedure, suite>>,
         \A h \in Users : \A e \in Sessions :
            /\ Coming(h, e)' => Coming(h, e)
            /\ Come(h, e)' => Come(h, e) \/ (Coming(h, e) /\ ~Coming(h, e)')
            /\ Once(rxQ', EstRequests(h, e))
            /\ progress'[h][e] = progress[h][e] \/ progress'[h][e] = "done"
  PROVE  EstInv'
<1>1. SessionsOf' = SessionsOf
  BY DEF SessionsOf, Sessions
<1>2. ASSUME NEW h \in Users PROVE HdlrEst(h)'
  <2>1. HdlrEst(h)
    BY DEF EstInv
  <2> QED  BY <1>1, <2>1 DEF HdlrEst, Early, Establishing, Sessions
<1>3. ASSUME NEW h \in Users, NEW e \in Sessions PROVE SessionEst(h, e)'
  <2>1. /\ Answered(h, e)' <=> Answered(h, e)
        /\ Early(h)' <=> Early(h)
        /\ Establishing(h)' <=> Establishing(h)
    BY DEF Answered, Early, Establishing
  <2>2. SessionEst(h, e)
    BY DEF EstInv
  <2>3. Once(rxQ, EstRequests(h, e))'
    BY DEF EstRequests, FromIut, Once
  <2>4. progress'[h][e] = "idle" => progress[h][e] = "idle"
    OBVIOUS
  <2> QED  BY <1>1, <2>1, <2>2, <2>3, <2>4 DEF SessionEst
<1> QED  BY <1>2, <1>3 DEF EstInv, Sessions

\* A step of the dispatcher or of the system under test.
Quiet == UNCHANGED <<vars, stage, erab, procedure, suite>>

LEMMA QuietInv ==
  ASSUME SessionsInv, Quiet, SessionTypes', Addressed', Heads', CallsInv', Begun', EstInv',
         NumbersInv'
  PROVE  SessionsInv'
<1>1. MutexInv /\ Region /\ Begun
  BY DEF SessionsInv
<1>2. MutexInv' /\ Region'
  BY <1>1, QuietRegion DEF Quiet
<1> QED  BY <1>2 DEF SessionsInv

LEMMA HeadOfQueue ==
  ASSUME SessionTypes, rxQ # <<>>, rxQ' = Tail(rxQ)
  PROVE  /\ Head(rxQ) \in FromIut /\ Head(rxQ) \in Elems(rxQ) /\ rxQ' \in Seq(FromIut)
         /\ Elems(rxQ') \subseteq Elems(rxQ)
         /\ \A S : Once(rxQ, S) => /\ Once(rxQ', S)
                                   /\ Head(rxQ) \in S => \A x \in Elems(rxQ') : x \notin S
<1>1. rxQ \in Seq(FromIut)
  BY DEF SessionTypes
<1> QED  BY <1>1, QueueTake

LEMMA AnswerHeartbeatInv ==
  ASSUME SessionsInv, Quiet, AnswerHeartbeat, UNCHANGED <<progress, heartbeats>>
  PROVE  SessionsInv'
<1> PICK pdu : pdu = Head(rxQ)
  OBVIOUS
<1> PICK new : new = [pdu EXCEPT !.kind = "heartbeat_resp"]
  OBVIOUS
<1>0. /\ MutexInv /\ Region /\ SessionTypes /\ Addressed /\ Heads
      /\ CallsInv /\ Begun /\ EstInv /\ NumbersInv
  BY DEF SessionsInv
<1>1. /\ rxQ # <<>> /\ pdu.kind = "heartbeat_req" /\ rxQ' = Tail(rxQ)
      /\ txQ' = Append(txQ, new)
      /\ UNCHANGED <<g_conns_bcast, g_conns_seqnr, g_conns_seid, g_next_sequence_nr_state,
                     clientQ, procQ, result, pfcp>>
  BY DEF AnswerHeartbeat, conns
<1>2. /\ pdu \in FromIut /\ pdu \in Elems(rxQ) /\ rxQ' \in Seq(FromIut)
      /\ Elems(rxQ') \subseteq Elems(rxQ)
      /\ \A S : Once(rxQ, S) => Once(rxQ', S)
  <2>1. SessionTypes /\ rxQ # <<>> /\ rxQ' = Tail(rxQ)
    BY <1>0, <1>1
  <2>2. /\ Head(rxQ) \in FromIut /\ Head(rxQ) \in Elems(rxQ) /\ rxQ' \in Seq(FromIut)
        /\ Elems(rxQ') \subseteq Elems(rxQ)
        /\ \A S : Once(rxQ, S) => Once(rxQ', S)
    BY <2>1, HeadOfQueue
  <2> QED  BY <2>2
<1>3. Named(pdu) /\ pdu \in Pdus
  BY <1>1, <1>2 DEF FromIut, IsRequest, IsAnswer
<1>4. /\ new \in Pdus /\ new.owner = pdu.owner /\ new.seqnr = pdu.seqnr
      /\ new.kind = "heartbeat_resp"
  BY <1>3 DEF Pdus, PduKinds, AnswerKinds
<1>5. Named(new)
  BY <1>3, <1>4 DEF Named
<1>6. new \in ToIut /\ new.seqnr \notin Numbers
  BY <1>4, <1>5, NoNumber DEF ToIut
<1>7. txQ' \in Seq(ToIut) /\ Elems(txQ') = Elems(txQ) \cup {new}
  <2>1. txQ \in Seq(ToIut)
    BY <1>0 DEF SessionTypes
  <2>2. txQ' = Append(txQ, new) /\ new \in ToIut
    BY <1>1, <1>6
  <2>3. /\ Append(txQ, new) \in Seq(ToIut)
        /\ Elems(Append(txQ, new)) = Elems(txQ) \cup {new}
    BY <2>1, <2>2, QueueAppend
  <2> QED  BY <2>2, <2>3
<1>8. SessionTypes'
  BY <1>0, <1>1, <1>2, <1>7 DEF SessionTypes, Quiet
<1>9. Addressed' /\ Heads'
  BY <1>0, <1>1 DEF Addressed, Heads, Quiet
<1>10. CallsInv'
  BY <1>0, <1>1, CallsFrame DEF Quiet
<1>11. Begun'
  BY <1>0, <1>1, <1>2, <1>4, <1>7 DEF Begun, Quiet, Associated
<1>12. EstInv'
  <2>1. ASSUME NEW h \in Users, NEW e \in Sessions
        PROVE  /\ Coming(h, e)' => Coming(h, e)
               /\ Come(h, e)' => Come(h, e)
               /\ Once(rxQ', EstRequests(h, e))
    <3>1. Once(rxQ, EstRequests(h, e))
      BY <1>0 DEF EstInv, SessionEst
    <3> QED  BY <1>1, <1>2, <3>1 DEF Coming, Come, EstRequests, FromIut
  <2> QED  BY <1>0, <2>1, EstMovesOn DEF Quiet
<1>13. NumbersInv'
  <2>1. HeartbeatInv' /\ Forwarded' = Forwarded
    BY <1>0, <1>1 DEF NumbersInv, HeartbeatInv, Forwarded, Queued, Quiet
  <2>2. Recent' /\ Listing'
    BY <1>0, <1>1, <1>2, <1>6, <1>7, <2>1, NumbersShift DEF NumbersInv, SessionTypes
  <2> QED  BY <2>1, <2>2 DEF NumbersInv
<1> QED  BY <1>8, <1>9, <1>10, <1>11, <1>12, <1>13, QuietInv

\* Whoever is listed has an entry.
LEMMA ConnBy ==
  ASSUME NEW list, NEW key, Listed(list, key)
  PROVE  \E conn \in list : conn.key = key /\ conn_by(list, key) = conn.vc_conn
<1>1. \E conn \in list : conn.key = key
  BY DEF Listed
<1> PICK conn : conn = CHOOSE c \in list : c.key = key
  OBVIOUS
<1>2. conn \in list /\ conn.key = key
  BY <1>1
<1>3. conn_by(list, key) = conn.vc_conn
  BY DEF conn_by
<1> QED  BY <1>2, <1>3

\* Broadcasts only reach the Associator, before the association is set up.
LEMMA OnlyAssociator ==
  ASSUME CallsInv, NEW h, Listed(g_conns_bcast, h)
  PROVE  h = Associator /\ ~Associated
  BY DEF CallsInv, BcastInPlace, Listed, Associated

\* The mutex keeps the ConnHdlrs apart while their requests carry SEID 0.
LEMMA OneEstablishes ==
  ASSUME MutexInv, Region, NEW g \in Users, NEW h \in Users, Inside(g), Inside(h)
  PROVE  g = h
<1>1. g \in Clients /\ h \in Clients
  BY Hdlrs
<1>2. locked /\ HasCurrent(g) /\ HasCurrent(h)
  BY DEF Region, HasMutex, HasCurrent
<1> QED  BY <1>1, <1>2 DEF MutexInv, OneHasCurrent

\* f_PFCPEM_conn_for_pdu finds the ConnHdlr a PDU is for.
LEMMA RoutedToOwner ==
  ASSUME SessionsInv, NEW pdu \in FromIut, pdu \in Elems(rxQ), pdu.kind # "heartbeat_req",
         NEW h \in ConnHdlrs,
         \/ h = conn_for_pdu(pdu)
         \/ conn_for_pdu(pdu) = NoOne /\ Listed(g_conns_bcast, h)
  PROVE  pdu.owner[1] = h
<1>0. /\ MutexInv /\ Region /\ SessionTypes /\ CallsInv /\ Begun /\ EstInv /\ NumbersInv
  BY DEF SessionsInv
<1>1. IsRequest(pdu) \/ IsAnswer(pdu)
  BY DEF FromIut
<1>2. h # NoOne
  BY Hdlrs
<1>3. CASE Listed(g_conns_seqnr, pdu.seqnr)
  <2>1. PICK conn \in g_conns_seqnr : conn.key = pdu.seqnr
                                      /\ conn_by(g_conns_seqnr, pdu.seqnr) = conn.vc_conn
    BY <1>3, ConnBy
  <2>2. conn \in SeqnrEntries /\ conn.vc_conn \in ConnHdlrs
    BY <1>0 DEF SessionTypes, SeqnrEntries
  <2>3. h = conn.vc_conn
    BY <1>2, <1>3, <2>1, <2>2, Hdlrs DEF conn_for_pdu
  <2>4. CASE pdu.seqnr \in Numbers
    BY <1>0, <2>1, <2>3, <2>4 DEF NumbersInv, Listing
  <2>5. CASE pdu.seqnr \notin Numbers
    <3>1. PICK kind \in PduKinds, owner \in Owners :
             conn.key = <<kind, owner>> /\ conn.vc_conn = owner[1]
      BY <2>1, <2>2, <2>5 DEF SeqnrEntries
    <3>2. Named(pdu)
      BY <1>1, <2>5 DEF IsRequest, IsAnswer, IsNumbered
    <3>3. PICK name \in PduKinds : pdu.seqnr = <<name, pdu.owner>>
      BY <3>2 DEF Named
    <3>4. <<kind, owner>> = <<name, pdu.owner>>
      BY <2>1, <3>1, <3>3
    <3>5. pdu.owner = owner
      BY <3>4
    <3> QED  BY <2>3, <3>1, <3>5
  <2> QED  BY <2>4, <2>5
<1>4. CASE ~Listed(g_conns_seqnr, pdu.seqnr) /\ pdu.seid # NoSeid
  <2>1. /\ IsRequest(pdu) /\ pdu.kind \in {"est_req", "mod_req", "del_req"}
        /\ pdu.owner \in OwnSeids
    BY <1>1, <1>4 DEF IsRequest, IsAnswer, IsNumbered, RequestKinds
  <2>2. PICK g \in Users, e \in Sessions : pdu.owner = <<g, e>> /\ pdu.owner[1] = g
    BY <2>1, SeidsAre
  <2>3. Associated
    BY <1>0, <2>2 DEF Begun
  <2>4. conn_for_pdu(pdu) = conn_by(g_conns_seid, pdu.seid) /\ h = conn_for_pdu(pdu)
    BY <1>0, <1>4, <2>3, OnlyAssociator DEF conn_for_pdu
  <2>5. Listed(g_conns_seid, pdu.seid)
    BY <1>2, <2>4 DEF conn_by
  <2>6. PICK conn \in g_conns_seid : conn.key = pdu.seid /\ h = conn.vc_conn
    BY <2>4, <2>5, ConnBy
  <2>7. SeidInPlace(conn)
    BY <1>0 DEF CallsInv
  <2>8. CASE pdu.kind = "est_req"
    <3>1. pdu.seid = SEID0
      BY <2>1, <2>8 DEF IsRequest
    <3>2. h \in Users /\ WillUnsubscribe(h)
      BY <2>6, <2>7, <3>1, SeidsAre DEF SeidInPlace
    <3>3. Inside(h)
      BY <3>2 DEF WillUnsubscribe, Inside
    <3>4. Coming(g, e)
      BY <2>2, <2>8 DEF Coming, EstRequests
    <3>5. Inside(g)
      BY <1>0, <3>4 DEF EstInv, SessionEst, Establishing, Inside, Subscribed
    <3> QED  BY <1>0, <2>2, <3>2, <3>3, <3>5, OneEstablishes
  <2>9. CASE pdu.kind # "est_req"
    <3>1. pdu.seid = pdu.owner
      BY <2>1, <2>9 DEF IsRequest
    <3> QED  BY <2>1, <2>6, <2>7, <3>1, SeidsAre DEF SeidInPlace
  <2> QED  BY <2>8, <2>9
<1>5. CASE ~Listed(g_conns_seqnr, pdu.seqnr) /\ pdu.seid = NoSeid
  <2>1. Listed(g_conns_bcast, h)
    BY <1>2, <1>5 DEF conn_for_pdu
  <2>2. h = Associator /\ ~Associated
    BY <1>0, <2>1, OnlyAssociator
  <2>3. pdu.owner[1] \notin Users
    BY <1>0, <2>2 DEF Begun
  <2>4. IsRequest(pdu)
    BY <1>1, <2>3 DEF IsAnswer, IsNumbered
  <2>5. pdu.kind \notin {"est_req", "mod_req", "del_req"}
    BY <1>5, <2>4, SeidsAre DEF IsRequest
  <2>6. pdu.kind = "assoc_req"
    BY <2>4, <2>5 DEF IsRequest, RequestKinds
  <2> QED  BY <2>2, <2>4, <2>6 DEF IsRequest
<1> QED  BY <1>3, <1>4, <1>5

LEMMA RoutePduInv ==
  ASSUME SessionsInv, Quiet, RoutePdu, UNCHANGED <<progress, heartbeats>>
  PROVE  SessionsInv'
<1> PICK pdu : pdu = Head(rxQ)
  OBVIOUS
<1> DEFINE Gets(h) == h = conn_for_pdu(pdu) \/ (conn_for_pdu(pdu) = NoOne /\ Listed(g_conns_bcast, h))
<1>0. /\ MutexInv /\ Region /\ SessionTypes /\ Addressed /\ Heads
      /\ CallsInv /\ Begun /\ EstInv /\ NumbersInv
      /\ rxQ \in Seq(FromIut) /\ pfcp \in [ConnHdlrs -> Seq(FromIut)]
  BY DEF SessionsInv, SessionTypes
<1>1. /\ rxQ # <<>> /\ pdu.kind # "heartbeat_req" /\ rxQ' = Tail(rxQ)
      /\ pfcp' = [h \in ConnHdlrs |-> IF Gets(h) THEN Append(pfcp[h], pdu) ELSE pfcp[h]]
      /\ g_conns_seqnr' = conns_del(g_conns_seqnr, pdu.seqnr)
      /\ UNCHANGED <<g_conns_bcast, g_conns_seid, g_next_sequence_nr_state, txQ,
                     clientQ, procQ, result>>
  BY DEF RoutePdu
<1>2. /\ pdu \in FromIut /\ pdu \in Elems(rxQ) /\ rxQ' \in Seq(FromIut)
      /\ Elems(rxQ') \subseteq Elems(rxQ)
      /\ \A S : Once(rxQ, S) => /\ Once(rxQ', S)
                                /\ pdu \in S => \A x \in Elems(rxQ') : x \notin S
  <2>1. SessionTypes /\ rxQ # <<>> /\ rxQ' = Tail(rxQ)
    BY <1>0, <1>1
  <2> QED  BY <2>1, HeadOfQueue
<1>3. \A h \in ConnHdlrs : Gets(h) => pdu.owner[1] = h
  BY <1>1, <1>2, RoutedToOwner
<1>4. \A h \in ConnHdlrs : pfcp'[h] = IF Gets(h) THEN Append(pfcp[h], pdu) ELSE pfcp[h]
  BY <1>1
<1> HIDE DEF Gets
<1>5. \A h \in ConnHdlrs : /\ pfcp'[h] \in Seq(FromIut)
                           /\ pfcp[h] # <<>> => pfcp'[h] # <<>> /\ Head(pfcp'[h]) = Head(pfcp[h])
                           /\ \A x \in Elems(pfcp'[h]) : x \in Elems(pfcp[h]) \/ (x = pdu /\ Gets(h))
  <2> SUFFICES ASSUME NEW h \in ConnHdlrs
               PROVE  /\ pfcp'[h] \in Seq(FromIut)
                      /\ pfcp[h] # <<>> => pfcp'[h] # <<>> /\ Head(pfcp'[h]) = Head(pfcp[h])
                      /\ \A x \in Elems(pfcp'[h]) : x \in Elems(pfcp[h]) \/ (x = pdu /\ Gets(h))
    OBVIOUS
  <2>1. pfcp[h] \in Seq(FromIut)
    BY <1>0
  <2>2. CASE Gets(h)
    <3>1. pfcp'[h] = Append(pfcp[h], pdu)
      BY <1>4, <2>2
    <3>2. pdu \in FromIut
      BY <1>2
    <3>3. /\ Append(pfcp[h], pdu) \in Seq(FromIut) /\ Append(pfcp[h], pdu) # <<>>
          /\ pfcp[h] # <<>> => Head(Append(pfcp[h], pdu)) = Head(pfcp[h])
          /\ Elems(Append(pfcp[h], pdu)) = Elems(pfcp[h]) \cup {pdu}
      BY <2>1, <3>2, QueueAppend
    <3> QED  BY <2>2, <3>1, <3>3
  <2>3. CASE ~Gets(h)
    BY <1>4, <2>1, <2>3
  <2> QED  BY <2>2, <2>3
<1>6. pfcp' \in [ConnHdlrs -> Seq(FromIut)]
  <2>1. pfcp' = [h \in ConnHdlrs |-> pfcp'[h]]
    BY <1>1, <1>4
  <2> QED  BY <1>5, <2>1
<1>7. g_conns_seqnr' \subseteq g_conns_seqnr
  BY <1>1, DeletedConn
<1>8. SessionTypes'
  BY <1>0, <1>1, <1>2, <1>6, <1>7 DEF SessionTypes, Quiet
<1>9. Addressed'
  BY <1>0, <1>3, <1>5 DEF Addressed
<1>10. Heads'
  BY <1>0, <1>5, Hdlrs DEF Heads, Quiet
<1>11. CallsInv'
  BY <1>0, <1>1, CallsFrame DEF Quiet
<1>12. Begun'
  BY <1>0, <1>1, <1>2 DEF Begun, Quiet, Associated
<1>13. EstInv'
  <2>1. ASSUME NEW h \in Users, NEW e \in Sessions
        PROVE  /\ Coming(h, e)' => Coming(h, e)
               /\ Come(h, e)' => Come(h, e) \/ (Coming(h, e) /\ ~Coming(h, e)')
               /\ Once(rxQ', EstRequests(h, e))
    <3>1. Once(rxQ, EstRequests(h, e)) /\ h \in ConnHdlrs
      BY <1>0, Hdlrs DEF EstInv, SessionEst
    <3>2. Coming(h, e)' => Coming(h, e)
      BY <1>2 DEF Coming, EstRequests, FromIut
    <3>3. pdu \in EstRequests(h, e) => Coming(h, e) /\ ~Coming(h, e)'
      BY <1>2, <3>1 DEF Coming, EstRequests, FromIut
    <3>4. Come(h, e)' => Come(h, e) \/ pdu \in EstRequests(h, e)
      BY <1>5, <3>1 DEF Come, EstRequests, FromIut
    <3> QED  BY <1>2, <3>1, <3>2, <3>3, <3>4
  <2> QED  BY <1>0, <2>1, EstMovesOn DEF Quiet
<1>14. NumbersInv'
  <2>1. HeartbeatInv' /\ Forwarded' = Forwarded
    BY <1>0, <1>1 DEF NumbersInv, HeartbeatInv, Forwarded, Queued, Quiet
  <2>2. Recent' /\ Listing'
    BY <1>0, <1>1, <1>2, <1>7, <2>1, NumbersShift DEF NumbersInv, SessionTypes
  <2> QED  BY <2>1, <2>2 DEF NumbersInv
<1> QED  BY <1>8, <1>9, <1>10, <1>11, <1>12, <1>13, <1>14, QuietInv

\* The number of a heartbeat request is not in use, however often the numbers have
\* wrapped round.
LEMMA NextIsFree ==
  ASSUME SessionTypes, Recent, ~(Users \subseteq Forwarded), NEW n, n = next_sequence_nr
  PROVE  /\ n \in 1..LastSeqnr /\ ~InUse(n)
         /\ \A m \in Nat : InUse(m) =>
               /\ m \in 1..LastSeqnr
               /\ (IF m <= n THEN n - m ELSE n + LastSeqnr - m) <= Cardinality(Forwarded)
<1>0. /\ g_next_sequence_nr_state \in Nat /\ LastSeqnr \in Nat \ {0}
      /\ n = IF g_next_sequence_nr_state + 1 > LastSeqnr THEN 1 ELSE g_next_sequence_nr_state + 1
  BY PFCPAssumption DEF SessionTypes, next_sequence_nr
<1>1. n \in 1..LastSeqnr /\ n \in Nat
  BY <1>0
<1>2. Cardinality(Forwarded) \in Nat /\ Cardinality(Forwarded) < LastSeqnr
  <2>1. /\ Forwarded \subseteq Users /\ Forwarded # Users /\ IsFiniteSet(Users)
        /\ Cardinality(Users) <= LastSeqnr /\ Cardinality(Users) \in Nat
        /\ Cardinality(Forwarded) \in Nat
    BY ForwardedFinite
  <2>2. Cardinality(Forwarded) < Cardinality(Users)
    BY <2>1, FS_Subset
  <2> QED  BY <1>0, <2>1, <2>2
<1>3. ASSUME NEW m \in Nat, InUse(m)
      PROVE  /\ m # n /\ m \in 1..LastSeqnr
             /\ (IF m <= n THEN n - m ELSE n + LastSeqnr - m) <= Cardinality(Forwarded)
  <2> DEFINE g == g_next_sequence_nr_state
             C == Cardinality(Forwarded)
  <2>1. /\ m \in 1..LastSeqnr /\ g \in 1..LastSeqnr
        /\ (IF m <= g THEN g - m ELSE g + LastSeqnr - m) < C
    BY <1>3 DEF Recent, Since
  <2>2. n = IF g + 1 > LastSeqnr THEN 1 ELSE g + 1
    BY <1>0
  <2>3. C \in Nat /\ C < LastSeqnr /\ LastSeqnr \in Nat
    BY <1>0, <1>2
  <2> HIDE DEF g, C
  <2>4. m # n /\ (IF m <= n THEN n - m ELSE n + LastSeqnr - m) <= C
    BY <2>1, <2>2, <2>3
  <2> QED  BY <2>1, <2>4 DEF C
<1>4. ~InUse(n)
  BY <1>1, <1>3
<1> QED  BY <1>1, <1>3, <1>4

\* What the dispatcher makes of the first PDU of the CLIENT port.
Forwards(c, seqnr, pdu) ==
    /\ c = Head(clientQ) /\ pdu = [c.pdu EXCEPT !.seqnr = seqnr]
    /\ clientQ # <<>> /\ clientQ' = Tail(clientQ)
    /\ g_conns_seqnr' = conns_add(g_conns_seqnr, c.from, seqnr)
    /\ txQ' = Append(txQ, pdu)
    /\ IF c.pdu.seqnr # <<0>>
       THEN seqnr = c.pdu.seqnr /\ g_next_sequence_nr_state' = g_next_sequence_nr_state
       ELSE seqnr = <<next_sequence_nr>> /\ g_next_sequence_nr_state' = next_sequence_nr

LEMMA ForwardPduForwards ==
  ASSUME ForwardPdu
  PROVE  /\ \E c, seqnr, pdu : Forwards(c, seqnr, pdu)
         /\ UNCHANGED <<g_conns_bcast, g_conns_seid, rxQ, procQ, result, pfcp>>
<1> PICK c : c = Head(clientQ)
  OBVIOUS
<1> PICK seqnr : seqnr = IF c.pdu.seqnr # <<0>> THEN c.pdu.seqnr ELSE <<next_sequence_nr>>
  OBVIOUS
<1> PICK pdu : pdu = [c.pdu EXCEPT !.seqnr = seqnr]
  OBVIOUS
<1>1. Forwards(c, seqnr, pdu)
  BY DEF ForwardPdu, Forwards
<1> QED  BY <1>1 DEF ForwardPdu

\* An answer, or a heartbeat request that gets its number.
LEMMA Forwarding ==
  ASSUME SessionTypes, NEW c, NEW seqnr, NEW pdu, Forwards(c, seqnr, pdu)
  PROVE  /\ c \in FromHdlrs /\ c \in Elems(clientQ) /\ clientQ' \in Seq(FromHdlrs)
         /\ Elems(clientQ') \subseteq Elems(clientQ)
         /\ \A S : Once(clientQ, S) => /\ Once(clientQ', S)
                                       /\ c \in S => \A x \in Elems(clientQ') : x \notin S
         /\ txQ' \in Seq(ToIut) /\ Elems(txQ') = Elems(txQ) \cup {pdu}
         /\ g_next_sequence_nr_state' \in Nat
         /\ g_conns_seqnr' \subseteq SeqnrEntries
         /\ \A conn \in g_conns_seqnr' :
               conn \in g_conns_seqnr \/ (conn.key = seqnr /\ conn.vc_conn = c.from)
         /\ pdu.seqnr = seqnr /\ pdu.owner[1] = c.from /\ c.from \in ConnHdlrs
         /\ \/ /\ c.pdu.kind # "heartbeat_req" /\ seqnr \notin Numbers
               /\ g_next_sequence_nr_state' = g_next_sequence_nr_state
            \/ /\ c \in HeartbeatsOf(c.from) /\ c.from \in Users
               /\ seqnr = <<next_sequence_nr>>
               /\ g_next_sequence_nr_state' = next_sequence_nr
<1>0. /\ clientQ \in Seq(FromHdlrs) /\ txQ \in Seq(ToIut) /\ g_conns_seqnr \subseteq SeqnrEntries
      /\ g_next_sequence_nr_state \in Nat
  BY DEF SessionTypes
<1>1. clientQ # <<>> /\ clientQ' = Tail(clientQ) /\ c = Head(clientQ)
  BY DEF Forwards
<1>2. /\ c \in FromHdlrs /\ c \in Elems(clientQ) /\ clientQ' \in Seq(FromHdlrs)
      /\ Elems(clientQ') \subseteq Elems(clientQ)
      /\ \A S : Once(clientQ, S) => /\ Once(clientQ', S)
                                    /\ c \in S => \A x \in Elems(clientQ') : x \notin S
  <2>1. clientQ \in Seq(FromHdlrs)
    BY <1>0
  <2> QED  BY <2>1, <1>1, QueueTake
<1>3. c.from \in ConnHdlrs /\ c.pdu \in Pdus /\ c.from = c.pdu.owner[1]
  BY <1>2 DEF FromHdlrs
<1>4. next_sequence_nr \in Nat
  BY <1>0 DEF next_sequence_nr
<1>5. \A conn \in g_conns_seqnr' :
         conn \in g_conns_seqnr \/ conn = [vc_conn |-> c.from, key |-> seqnr]
  BY AddedConn DEF Forwards
<1>6. CASE Named(c.pdu) /\ c.pdu.kind # "heartbeat_req"
  <2>1. c.pdu.seqnr \notin Numbers
    BY <1>6, NoNumber
  <2>2. <<0>> \in Numbers
    BY DEF Numbers
  <2>3. seqnr = c.pdu.seqnr /\ g_next_sequence_nr_state' = g_next_sequence_nr_state
    BY <2>1, <2>2 DEF Forwards
  <2>4. /\ pdu \in Pdus /\ pdu.owner = c.pdu.owner /\ pdu.seqnr = seqnr /\ pdu.kind = c.pdu.kind
    BY <1>3, <2>3 DEF Forwards, Pdus
  <2>5. Named(pdu)
    BY <1>6, <2>3, <2>4 DEF Named
  <2>6. pdu \in ToIut
    BY <1>6, <2>4, <2>5 DEF ToIut
  <2>7. txQ' \in Seq(ToIut) /\ Elems(txQ') = Elems(txQ) \cup {pdu}
    <3>1. txQ' = Append(txQ, pdu)
      BY DEF Forwards
    <3>2. txQ \in Seq(ToIut)
      BY <1>0
    <3>3. /\ Append(txQ, pdu) \in Seq(ToIut)
          /\ Elems(Append(txQ, pdu)) = Elems(txQ) \cup {pdu}
      BY <2>6, <3>2, QueueAppend
    <3> QED  BY <3>1, <3>3
  <2>8. [vc_conn |-> c.from, key |-> seqnr] \in SeqnrEntries
    <3>1. PICK kind \in PduKinds : seqnr = <<kind, c.pdu.owner>>
      BY <1>6, <2>3 DEF Named
    <3>2. c.pdu.owner \in Owners /\ seqnr \in Seqnrs
      BY <1>3, <2>3 DEF Pdus
    <3> QED  BY <1>3, <3>1, <3>2 DEF SeqnrEntries
  <2> QED  BY <1>0, <1>2, <1>3, <1>5, <1>6, <2>1, <2>3, <2>4, <2>7, <2>8
<1>7. CASE /\ c.pdu.kind = "heartbeat_req" /\ c.pdu.seqnr = <<0>>
           /\ c.pdu.seid = NoSeid /\ c.from \in Users
  <2>1. seqnr = <<next_sequence_nr>> /\ g_next_sequence_nr_state' = next_sequence_nr
    BY <1>7 DEF Forwards
  <2>2. seqnr \in Numbers /\ seqnr \in Seqnrs
    BY <1>4, <2>1 DEF Numbers, Seqnrs
  <2>3. /\ pdu \in Pdus /\ pdu.owner = c.pdu.owner /\ pdu.seqnr = seqnr
        /\ pdu.kind = c.pdu.kind /\ pdu.seid = c.pdu.seid
    BY <1>3, <2>2 DEF Forwards, Pdus
  <2>4. pdu \in ToIut
    BY <1>3, <1>7, <2>2, <2>3 DEF ToIut, IsNumbered
  <2>5. txQ' \in Seq(ToIut) /\ Elems(txQ') = Elems(txQ) \cup {pdu}
    <3>1. txQ' = Append(txQ, pdu)
      BY DEF Forwards
    <3>2. txQ \in Seq(ToIut)
      BY <1>0
    <3>3. /\ Append(txQ, pdu) \in Seq(ToIut)
          /\ Elems(Append(txQ, pdu)) = Elems(txQ) \cup {pdu}
      BY <2>4, <3>2, QueueAppend
    <3> QED  BY <3>1, <3>3
  <2>6. [vc_conn |-> c.from, key |-> seqnr] \in SeqnrEntries
    BY <1>3, <2>2 DEF SeqnrEntries
  <2>7. c \in HeartbeatsOf(c.from)
    BY <1>2, <1>7 DEF HeartbeatsOf
  <2> QED  BY <1>0, <1>2, <1>3, <1>4, <1>5, <1>7, <2>1, <2>3, <2>5, <2>6, <2>7
<1> QED  BY <1>2, <1>6, <1>7 DEF FromHdlrs

LEMMA ForwardNumbers ==
  ASSUME SessionTypes, NumbersInv, UNCHANGED <<stage, rxQ>>,
         NEW c, NEW seqnr, NEW pdu, Forwards(c, seqnr, pdu)
  PROVE  NumbersInv'
<1> USE DEF NumbersInv
<1>1. /\ c \in FromHdlrs /\ c \in Elems(clientQ)
      /\ Elems(clientQ') \subseteq Elems(clientQ)
      /\ \A S : Once(clientQ, S) => /\ Once(clientQ', S)
                                    /\ c \in S => \A x \in Elems(clientQ') : x \notin S
      /\ Elems(txQ') = Elems(txQ) \cup {pdu}
      /\ g_next_sequence_nr_state' \in Nat
      /\ \A conn \in g_conns_seqnr' :
            conn \in g_conns_seqnr \/ (conn.key = seqnr /\ conn.vc_conn = c.from)
      /\ pdu.seqnr = seqnr /\ pdu.owner[1] = c.from /\ c.from \in ConnHdlrs
  BY Forwarding
<1>2. \A h \in Users : Queued(h)' => Queued(h)
  BY <1>1 DEF Queued, HeartbeatsOf, FromHdlrs
<1>3. HeartbeatInv'
  <2> SUFFICES ASSUME NEW h \in Users
               PROVE  /\ Once(clientQ', HeartbeatsOf(h))
                      /\ Queued(h)' => stage[h] \in {"heartbeat_sent", "done"}
    BY DEF HeartbeatInv, HeartbeatsOf, FromHdlrs, Once
  <2> QED  BY <1>1, <1>2 DEF HeartbeatInv
<1>4. Forwarded \subseteq Forwarded'
  BY <1>2 DEF Forwarded
<1>5. g_next_sequence_nr_state \in Nat
  BY DEF SessionTypes
<1>6. CASE seqnr \notin Numbers /\ g_next_sequence_nr_state' = g_next_sequence_nr_state
  <2>1. Recent' /\ Listing'
    BY <1>1, <1>4, <1>5, <1>6, NumbersShift
  <2> QED  BY <1>3, <2>1
<1>7. CASE /\ c \in HeartbeatsOf(c.from) /\ c.from \in Users
           /\ seqnr = <<next_sequence_nr>>
           /\ g_next_sequence_nr_state' = next_sequence_nr
  <2> PICK h \in Users : h = c.from
    BY <1>7
  <2> PICK n : n = next_sequence_nr
    OBVIOUS
  <2>1. Queued(h) /\ h \notin Forwarded
    BY <1>1, <1>7 DEF Queued, Forwarded
  <2>2. ~Queued(h)' /\ stage[h] \in {"heartbeat_sent", "done"}
    BY <1>1, <1>7, <2>1 DEF Queued, HeartbeatInv, HeartbeatsOf, FromHdlrs
  <2>3. h \in Forwarded'
    BY <2>2 DEF Forwarded
  <2>4. /\ n \in 1..LastSeqnr /\ ~InUse(n)
        /\ \A m \in Nat : InUse(m) =>
              /\ m \in 1..LastSeqnr
              /\ (IF m <= n THEN n - m ELSE n + LastSeqnr - m) <= Cardinality(Forwarded)
    BY <2>1, NextIsFree
  <2>5. /\ Cardinality(Forwarded) \in Nat /\ Cardinality(Forwarded') \in Nat
        /\ Cardinality(Forwarded) < Cardinality(Forwarded')
    <3>1. Forwarded' \subseteq Users
      BY DEF Forwarded
    <3>2. IsFiniteSet(Forwarded') /\ Cardinality(Forwarded') \in Nat
      BY <3>1, ForwardedFinite, FS_Subset, FS_CardinalityType
    <3>3. Forwarded # Forwarded'
      BY <2>1, <2>3
    <3> QED  BY <1>4, <3>2, <3>3, ForwardedFinite, FS_Subset
  <2>6. LastSeqnr \in Nat \ {0}
    BY PFCPAssumption
  <2>7. ASSUME NEW m \in Nat, InUse(m)' PROVE m = n \/ InUse(m)
    <3>1. CASE \E conn \in g_conns_seqnr' : conn.key = <<m>>
      <4> PICK conn \in g_conns_seqnr' : conn.key = <<m>>
        BY <3>1
      <4>1. conn \in g_conns_seqnr \/ <<m>> = <<n>>
        BY <1>1, <1>7
      <4> QED  BY <4>1 DEF InUse
    <3>2. CASE \E x \in Elems(rxQ') \cup Elems(txQ') : x.seqnr = <<m>>
      <4> PICK x \in Elems(rxQ') \cup Elems(txQ') : x.seqnr = <<m>>
        BY <3>2
      <4>1. x \in Elems(rxQ) \cup Elems(txQ) \/ <<m>> = <<n>>
        BY <1>1, <1>7
      <4> QED  BY <4>1 DEF InUse
    <3> QED  BY <2>7, <3>1, <3>2 DEF InUse
  <2>8. Recent'
    <3> SUFFICES ASSUME NEW m \in Nat, InUse(m)'
                 PROVE  /\ m \in 1..LastSeqnr /\ n \in 1..LastSeqnr
                        /\ (IF m <= n THEN n - m ELSE n + LastSeqnr - m) < Cardinality(Forwarded')
      BY <1>7 DEF Recent, Since
    <3> PICK C : C = Cardinality(Forwarded)
      OBVIOUS
    <3> PICK D : D = Cardinality(Forwarded')
      OBVIOUS
    <3>1. C \in Nat /\ D \in Nat /\ C < D
      BY <2>5
    <3>2. CASE m = n
      <4>1. n - n < D
        BY <2>4, <3>1
      <4> QED  BY <2>4, <3>2, <4>1
    <3>3. CASE InUse(m)
      <4>1. m \in 1..LastSeqnr /\ (IF m <= n THEN n - m ELSE n + LastSeqnr - m) <= C
        BY <2>4, <3>3
      <4>2. (IF m <= n THEN n - m ELSE n + LastSeqnr - m) < D
        BY <2>4, <2>6, <3>1, <4>1
      <4> QED  BY <2>4, <4>1, <4>2
    <3> QED  BY <2>7, <3>2, <3>3
  <2>9. Listing'
    <3> SUFFICES ASSUME NEW conn \in g_conns_seqnr', NEW x \in Elems(rxQ') \cup Elems(txQ'),
                        conn.key \in Numbers, x.seqnr = conn.key
                 PROVE  x.owner[1] = conn.vc_conn
      BY DEF Listing
    <3>1. x \in Elems(rxQ) \cup Elems(txQ) \/ x = pdu
      BY <1>1
    <3>2. conn \in g_conns_seqnr \/ (conn.key = <<n>> /\ conn.vc_conn = h)
      BY <1>1, <1>7
    <3>3. pdu.seqnr = <<n>> /\ pdu.owner[1] = h
      BY <1>1, <1>7
    <3>4. conn \in g_conns_seqnr => conn.key # <<n>>
      BY <2>4 DEF InUse
    <3>5. x \in Elems(rxQ) \cup Elems(txQ) => x.seqnr # <<n>>
      BY <2>4 DEF InUse
    <3> QED  BY <3>1, <3>2, <3>3, <3>4, <3>5 DEF Listing
  <2> QED  BY <1>3, <2>8, <2>9
<1> QED  BY <1>6, <1>7, Forwarding

LEMMA ForwardPduInv ==
  ASSUME SessionsInv, Quiet, ForwardPdu, UNCHANGED <<progress, heartbeats>>
  PROVE  SessionsInv'
<1>0. /\ MutexInv /\ Region /\ SessionTypes /\ Addressed /\ Heads
      /\ CallsInv /\ Begun /\ EstInv /\ NumbersInv
  BY DEF SessionsInv
<1>1. UNCHANGED <<g_conns_bcast, g_conns_seid, rxQ, procQ, result, pfcp>>
  BY ForwardPduForwards
<1> PICK c, seqnr, pdu : Forwards(c, seqnr, pdu)
  BY ForwardPduForwards
<1>2. /\ c \in Elems(clientQ) /\ clientQ' \in Seq(FromHdlrs)
      /\ Elems(clientQ') \subseteq Elems(clientQ)
      /\ txQ' \in Seq(ToIut) /\ Elems(txQ') = Elems(txQ) \cup {pdu}
      /\ g_next_sequence_nr_state' \in Nat
      /\ g_conns_seqnr' \subseteq SeqnrEntries
      /\ pdu.owner[1] = c.from
  BY <1>0, Forwarding
<1>3. SessionTypes'
  BY <1>0, <1>1, <1>2 DEF SessionTypes, Quiet
<1>4. Addressed' /\ Heads'
  BY <1>0, <1>1 DEF Addressed, Heads, Quiet
<1>5. CallsInv'
  BY <1>0, <1>1, CallsFrame DEF Quiet
<1>6. Begun'
  <2>1. stage' = stage /\ suite' = suite
    BY DEF Quiet
  <2>2. \A x \in Elems(rxQ') \cup Elems(txQ') : x.owner[1] \in Users => Associated
    BY <1>0, <1>1, <1>2 DEF Begun
  <2> QED  BY <1>0, <1>2, <2>1, <2>2 DEF Begun, Associated
<1>7. EstInv'
  <2>1. ASSUME NEW h \in Users, NEW e \in Sessions
        PROVE  /\ Coming(h, e)' => Coming(h, e)
               /\ Come(h, e)' => Come(h, e)
               /\ Once(rxQ', EstRequests(h, e))
    BY <1>0, <1>1 DEF Coming, Come, EstRequests, FromIut, EstInv, SessionEst
  <2> QED  BY <1>0, <2>1, EstMovesOn DEF Quiet
<1>8. NumbersInv'
  BY <1>0, <1>1, ForwardNumbers DEF Quiet
<1> QED  BY <1>3, <1>4, <1>5, <1>6, <1>7, <1>8, QuietInv

LEMMA ReplyInv ==
  ASSUME SessionsInv, Quiet, UNCHANGED <<progress, heartbeats>>,
         \/ SubscribeBcast \/ UnsubscribeBcast \/ SubscribeSeid \/ UnsubscribeSeid
         \/ GetRecoveryTimestamp
  PROVE  SessionsInv'
<1>0. /\ MutexInv /\ Region /\ SessionTypes /\ Addressed /\ Heads
      /\ CallsInv /\ Begun /\ EstInv /\ NumbersInv
  BY DEF SessionsInv
<1>1. UNCHANGED <<g_conns_seqnr, g_next_sequence_nr_state, rxQ, txQ, clientQ, pfcp>>
  BY DEF SubscribeBcast, UnsubscribeBcast, SubscribeSeid, UnsubscribeSeid, GetRecoveryTimestamp,
         Reply
<1>2. /\ CallsInv'
      /\ procQ' \in Seq(CallRecords)
      /\ result' \in [ConnHdlrs -> {"waiting", "true", "false"}]
      /\ g_conns_bcast' \subseteq [vc_conn : ConnHdlrs, key : ConnHdlrs]
      /\ g_conns_seid' \subseteq [vc_conn : ConnHdlrs, key : Seids]
  BY <1>0, CallsReply DEF Quiet
<1>3. SessionTypes'
  BY <1>0, <1>1, <1>2 DEF SessionTypes, Quiet
<1>4. Addressed' /\ Heads'
  BY <1>0, <1>1 DEF Addressed, Heads, Quiet
<1>5. Begun'
  BY <1>0, <1>1 DEF Begun, Quiet, Associated
<1>6. EstInv'
  <2>1. ASSUME NEW h \in Users, NEW e \in Sessions
        PROVE  /\ Coming(h, e)' => Coming(h, e)
               /\ Come(h, e)' => Come(h, e)
               /\ Once(rxQ', EstRequests(h, e))
    BY <1>0, <1>1 DEF Coming, Come, EstRequests, FromIut, EstInv, SessionEst
  <2> QED  BY <1>0, <2>1, EstMovesOn DEF Quiet
<1>7. NumbersInv'
  BY <1>0, <1>1, NumbersFrame DEF Quiet
<1> QED  BY <1>2, <1>3, <1>4, <1>5, <1>6, <1>7, QuietInv

-----------------------------------------------------------------------------
(* The steps of the system under test. *)

\* What such a step leaves alone.
IutQuiet ==
    /\ Quiet
    /\ UNCHANGED <<g_conns_bcast, g_conns_seqnr, g_conns_seid, g_next_sequence_nr_state, clientQ,
                   procQ, result, pfcp>>

\* A PDU arrives at the dispatcher, or none does.
LEMMA IutFrame ==
  ASSUME SessionsInv, IutQuiet, heartbeats' \in Nat,
         progress' \in [Users -> [Sessions -> {"idle", "requested", "done"}]],
         rxQ' \in Seq(FromIut), txQ' \in Seq(ToIut),
         \A pdu \in Elems(rxQ') \cup Elems(txQ') :
            /\ pdu.owner[1] \in Users => Associated
            /\ \/ pdu.seqnr \notin Numbers
               \/ \E q \in Elems(rxQ) \cup Elems(txQ) : q.seqnr = pdu.seqnr /\ q.owner = pdu.owner,
         EstInv'
  PROVE  SessionsInv'
<1>0. /\ MutexInv /\ Region /\ SessionTypes /\ Addressed /\ Heads
      /\ CallsInv /\ Begun /\ EstInv /\ NumbersInv
      /\ Quiet
      /\ UNCHANGED <<g_conns_bcast, g_conns_seqnr, g_conns_seid, g_next_sequence_nr_state, clientQ,
                     procQ, result, pfcp>>
  BY DEF SessionsInv, IutQuiet
<1>1. SessionTypes'
  BY <1>0 DEF SessionTypes, Quiet
<1>2. Addressed' /\ Heads'
  BY <1>0 DEF Addressed, Heads, Quiet
<1>3. CallsInv'
  BY <1>0, CallsFrame DEF Quiet
<1>4. Begun'
  BY <1>0 DEF Begun, Quiet, Associated
<1>5. NumbersInv'
  <2>1. HeartbeatInv' /\ Forwarded' = Forwarded
    BY <1>0 DEF NumbersInv, HeartbeatInv, Forwarded, Queued, Quiet
  <2>2. Recent' /\ Listing'
    BY <1>0, <2>1, NumbersShift DEF NumbersInv, SessionTypes
  <2> QED  BY <2>1, <2>2 DEF NumbersInv
<1> QED  BY <1>0, <1>1, <1>2, <1>3, <1>4, <1>5, QuietInv

LEMMA ProgressMade ==
  ASSUME progress \in [Users -> [Sessions -> {"idle", "requested", "done"}]],
         NEW g, NEW d, NEW v \in {"requested", "done"}, progress' = [progress EXCEPT ![g][d] = v]
  PROVE  /\ progress' \in [Users -> [Sessions -> {"idle", "requested", "done"}]]
         /\ \A h \in Users : \A e \in Sessions :
               progress'[h][e] = progress[h][e] \/ progress'[h][e] = v
<1> PICK row : row = [progress[g] EXCEPT ![d] = v]
  OBVIOUS
<1>1. progress' = [progress EXCEPT ![g] = row]
  OBVIOUS
<1>2. g \in Users => /\ row \in [Sessions -> {"idle", "requested", "done"}]
                     /\ \A e \in Sessions : row[e] = progress[g][e] \/ row[e] = v
  OBVIOUS
<1>3. \A h \in Users : progress'[h] = IF h = g THEN row ELSE progress[h]
  BY <1>1
<1>4. progress' \in [Users -> [Sessions -> {"idle", "requested", "done"}]]
  BY <1>1, <1>2
<1> QED  BY <1>2, <1>3, <1>4

\* The request for a session, under its own number.
LEMMA SessionRequestMade ==
  ASSUME SessionTypes, NEW h \in Users, NEW e \in Sessions, procedure[h] # "none",
         SessionRequest(h, e)
  PROVE  \E pdu \in FromIut :
            /\ rxQ' = Append(rxQ, pdu) /\ pdu.owner = <<h, e>> /\ pdu.owner[1] = h
            /\ pdu.seqnr \notin Numbers
            /\ (pdu.kind = "est_req") <=> (procedure[h] = "est")
<1>1. procedure[h] \in {"est", "mod", "del"}
  BY DEF SessionTypes
<1>2. PICK kind \in {"est_req", "mod_req", "del_req"} :
         kind = RequestOf[procedure[h]] /\ ((kind = "est_req") <=> (procedure[h] = "est"))
  BY <1>1 DEF RequestOf
<1> PICK pdu : pdu = SessionPdu(kind, h, e)
  OBVIOUS
<1>4. /\ pdu \in FromIut /\ pdu.kind = kind /\ pdu.owner = <<h, e>>
      /\ pdu.seqnr \notin Numbers /\ pdu.owner[1] = h
  BY <1>2, RequestMade
<1>5. rxQ' = Append(rxQ, pdu)
  BY <1>2 DEF SessionRequest, Request, SessionPdu
<1> QED  BY <1>2, <1>4, <1>5

\* An establishment request is sent when it was not sent yet, any other is no matter.
LEMMA RequestEst ==
  ASSUME SessionTypes, EstInv, UNCHANGED <<stage, erab, procedure, suite, pfcp>>,
         NEW h \in Users, NEW e \in Sessions, NEW pdu \in FromIut,
         rxQ' = Append(rxQ, pdu), pdu.owner = <<h, e>>,
         (pdu.kind = "est_req") <=> (procedure[h] = "est"), procedure[h] # "none",
         procedure[h] = "est" => e \in SessionsOf /\ progress[h][e] = "idle",
         \/ progress' = progress /\ procedure[h] # "est"
         \/ progress' = [progress EXCEPT ![h][e] = "requested"]
  PROVE  EstInv'
<1>0. e \in Sessions /\ SessionsOf' = SessionsOf
  BY SessionsAre DEF SessionsOf, Sessions
<1>1. rxQ \in Seq(FromIut) /\ progress \in [Users -> [Sessions -> {"idle", "requested", "done"}]]
  BY DEF SessionTypes
<1>2. /\ Elems(rxQ') = Elems(rxQ) \cup {pdu}
      /\ \A S : Once(rxQ, S) /\ (pdu \in S => \A x \in Elems(rxQ) : x \notin S) => Once(rxQ', S)
  BY <1>1, QueueAppend
<1>3. \A g \in Users : \A d \in Sessions :
         progress'[g][d] = progress[g][d] \/ (g = h /\ d = e /\ progress'[g][d] = "requested")
  BY <1>0, <1>1
<1>4. procedure[h] = "est" => progress'[h][e] = "requested"
  BY <1>0, <1>1
<1>5. ASSUME NEW g \in Users PROVE HdlrEst(g)'
  <2>1. HdlrEst(g)
    BY DEF EstInv
  <2>2. procedure[g] = "none" => \A d \in Sessions : progress'[g][d] # "requested"
    BY <1>3, <2>1 DEF HdlrEst
  <2> QED  BY <1>0, <2>1, <2>2 DEF HdlrEst, Early, Establishing, Sessions
<1>6. ASSUME NEW g \in Users, NEW d \in Sessions PROVE SessionEst(g, d)'
  <2>1. /\ Answered(g, d)' <=> Answered(g, d)
        /\ Early(g)' <=> Early(g)
        /\ Establishing(g)' <=> Establishing(g)
        /\ Come(g, d)' <=> Come(g, d)
    BY DEF Answered, Early, Establishing, Come, EstRequests, FromIut
  <2>2. SessionEst(g, d) /\ HdlrEst(g)
    BY DEF EstInv
  <2>3. pdu \in EstRequests(g, d) <=> (g = h /\ d = e /\ procedure[h] = "est")
    BY DEF EstRequests
  <2>4. Coming(g, d)' <=> Coming(g, d) \/ pdu \in EstRequests(g, d)
    BY <1>2 DEF Coming, EstRequests, FromIut
  <2>5. CASE g = h /\ d = e /\ procedure[h] = "est"
    <3>1. ~Coming(g, d) /\ ~Come(g, d) /\ progress[g][d] = "idle" /\ progress'[g][d] = "requested"
      BY <1>4, <2>2, <2>5 DEF SessionEst
    <3>2. ~Answered(g, d)
      BY <2>2, <2>5, <3>1 DEF SessionEst
    <3>3. Establishing(g)
      BY <2>2, <2>5, <3>2 DEF HdlrEst, Answered
    <3>4. ~Early(g)
      BY <3>3 DEF Establishing, Early
    <3>5. Once(rxQ, EstRequests(g, d))'
      <4>1. Once(rxQ, EstRequests(g, d)) /\ \A x \in Elems(rxQ) : x \notin EstRequests(g, d)
        BY <2>2, <3>1 DEF SessionEst, Coming
      <4>2. Once(rxQ', EstRequests(g, d))
        BY <1>2, <4>1
      <4> QED  BY <4>2 DEF EstRequests, FromIut, Once
    <3> QED  BY <1>0, <2>1, <2>5, <3>1, <3>2, <3>3, <3>4, <3>5 DEF SessionEst
  <2>6. CASE ~(g = h /\ d = e /\ procedure[h] = "est")
    <3>1. (Coming(g, d)' <=> Coming(g, d)) /\ pdu \notin EstRequests(g, d)
      BY <2>3, <2>4, <2>6
    <3>2. Once(rxQ, EstRequests(g, d))'
      <4>1. Once(rxQ', EstRequests(g, d))
        BY <1>2, <2>2, <3>1 DEF SessionEst
      <4> QED  BY <4>1 DEF EstRequests, FromIut, Once
    <3>3. progress'[g][d] = "idle" => progress[g][d] = "idle"
      BY <1>3
    <3>4. Answered(g, d) => procedure[g] = "est"
      BY <2>2 DEF Answered, HdlrEst, Establishing
    <3>5. procedure[g] = "est" => progress'[g][d] = progress[g][d]
      BY <1>3, <2>6
    <3> QED  BY <1>0, <2>1, <2>2, <3>1, <3>2, <3>3, <3>5, <3>4 DEF SessionEst
  <2> QED  BY <2>5, <2>6
<1> QED  BY <1>5, <1>6 DEF EstInv, Sessions

LEMMA SessionRequestInv ==
  ASSUME SessionsInv, IutQuiet, UNCHANGED <<txQ, heartbeats>>, ~RepeatsEstablishment,
         NEW h \in Users, NEW e \in Sessions, RequestSession(h, e) \/ Retransmit(h, e)
  PROVE  SessionsInv'
<1>0. /\ SessionTypes /\ Begun /\ EstInv /\ HdlrEst(h) /\ SessionEst(h, e)
      /\ rxQ \in Seq(FromIut) /\ txQ \in Seq(ToIut) /\ heartbeats \in Nat
      /\ procedure \in [Users -> {"none", "est", "mod", "del"}]
      /\ progress \in [Users -> [Sessions -> {"idle", "requested", "done"}]]
  BY DEF SessionsInv, SessionTypes, EstInv
<1>1. /\ SessionRequest(h, e) /\ procedure[h] # "none"
      /\ procedure[h] = "est" => e \in SessionsOf /\ progress[h][e] = "idle"
      /\ \/ progress' = progress /\ procedure[h] # "est"
         \/ progress' = [progress EXCEPT ![h][e] = "requested"]
  <2>1. CASE RequestSession(h, e)
    BY <2>1 DEF RequestSession
  <2>2. CASE Retransmit(h, e)
    <3>1. /\ progress[h][e] = "requested" /\ SessionRequest(h, e) /\ procedure[h] # "est"
          /\ progress' = progress
      BY <2>2 DEF Retransmit
    <3>2. procedure[h] # "none"
      BY <1>0, <3>1 DEF HdlrEst
    <3> QED  BY <3>1, <3>2
  <2> QED  BY <2>1, <2>2
<1>2. PICK pdu \in FromIut :
         /\ rxQ' = Append(rxQ, pdu) /\ pdu.owner = <<h, e>> /\ pdu.owner[1] = h
         /\ pdu.seqnr \notin Numbers
         /\ (pdu.kind = "est_req") <=> (procedure[h] = "est")
  BY <1>0, <1>1, SessionRequestMade
<1>3. rxQ' \in Seq(FromIut) /\ Elems(rxQ') = Elems(rxQ) \cup {pdu}
  <2>1. rxQ \in Seq(FromIut) /\ rxQ' = Append(rxQ, pdu)
    BY <1>0, <1>2
  <2> QED  BY <1>2, <2>1, QueueAppend
<1>4. Associated
  <2>1. ~Early(h)
    BY <1>0, <1>1 DEF HdlrEst
  <2> QED  BY <1>0, <2>1 DEF Early, Begun
<1>5. UNCHANGED <<stage, erab, procedure, suite, pfcp>>
  BY DEF IutQuiet, Quiet
<1>6. EstInv'
  BY <1>0, <1>1, <1>2, <1>5, RequestEst
<1>7. progress' \in [Users -> [Sessions -> {"idle", "requested", "done"}]]
  <2>1. CASE progress' = progress
    BY <1>0, <2>1
  <2>2. CASE progress' = [progress EXCEPT ![h][e] = "requested"]
    BY <1>0, <2>2, ProgressMade
  <2> QED  BY <1>1, <2>1, <2>2
<1>8. txQ' \in Seq(ToIut) /\ heartbeats' \in Nat
  BY <1>0
<1>9. \A x \in Elems(rxQ') \cup Elems(txQ') :
         /\ x.owner[1] \in Users => Associated
         /\ \/ x.seqnr \notin Numbers
            \/ \E q \in Elems(rxQ) \cup Elems(txQ) : q.seqnr = x.seqnr /\ q.owner = x.owner
  BY <1>2, <1>3, <1>4
<1> QED  BY <1>3, <1>6, <1>7, <1>8, <1>9, IutFrame

\* A request that is about no session.
LEMMA AssociatorRequestInv ==
  ASSUME SessionsInv, IutQuiet, UNCHANGED <<txQ, progress>>, heartbeats' \in Nat,
         NEW kind \in {"assoc_req", "heartbeat_req"}, NEW n \in Nat,
         Request(kind, NoSeid, <<Associator, n>>)
  PROVE  SessionsInv'
<1>0. /\ SessionTypes /\ Begun /\ EstInv
      /\ rxQ \in Seq(FromIut) /\ txQ \in Seq(ToIut)
      /\ progress \in [Users -> [Sessions -> {"idle", "requested", "done"}]]
  BY DEF SessionsInv, SessionTypes
<1> PICK pdu : pdu = PDU(kind, <<kind, <<Associator, n>>>>, NoSeid, <<Associator, n>>)
  OBVIOUS
<1>1. /\ pdu \in FromIut /\ pdu.kind # "est_req" /\ pdu.owner[1] = Associator
      /\ pdu.seqnr \notin Numbers
  BY AssociatorRequestMade
<1>2. rxQ' = Append(rxQ, pdu)
  BY DEF Request
<1>3. /\ rxQ' \in Seq(FromIut) /\ Elems(rxQ') = Elems(rxQ) \cup {pdu}
      /\ \A S : Once(rxQ, S) /\ (pdu \in S => \A x \in Elems(rxQ) : x \notin S) => Once(rxQ', S)
  <2>1. rxQ \in Seq(FromIut) /\ pdu \in FromIut
    BY <1>0, <1>1
  <2> QED  BY <2>1, <1>2, QueueAppend
<1>4. UNCHANGED <<stage, erab, procedure, suite, pfcp>>
  BY DEF IutQuiet, Quiet
<1>5. EstInv'
  <2>1. ASSUME NEW h \in Users, NEW e \in Sessions
        PROVE  /\ Coming(h, e)' => Coming(h, e)
               /\ Come(h, e)' => Come(h, e)
               /\ Once(rxQ', EstRequests(h, e))
    <3>1. pdu \notin EstRequests(h, e)
      BY <1>1 DEF EstRequests
    <3>2. Once(rxQ, EstRequests(h, e))
      BY <1>0 DEF EstInv, SessionEst
    <3>3. Coming(h, e)' => Coming(h, e)
      BY <1>3, <3>1 DEF Coming, EstRequests, FromIut
    <3>4. Come(h, e)' => Come(h, e)
      BY <1>4 DEF Come, EstRequests, FromIut
    <3> QED  BY <1>3, <3>1, <3>2, <3>3, <3>4
  <2> QED  BY <1>0, <1>4, <2>1, EstMovesOn
<1>6. \A x \in Elems(rxQ') \cup Elems(txQ') :
         /\ x.owner[1] \in Users => Associated
         /\ \/ x.seqnr \notin Numbers
            \/ \E q \in Elems(rxQ) \cup Elems(txQ) : q.seqnr = x.seqnr /\ q.owner = x.owner
  BY <1>0, <1>1, <1>3, Hdlrs DEF Begun
<1> QED  BY <1>0, <1>3, <1>5, <1>6, IutFrame

LEMMA TakeAnswerInv ==
  ASSUME SessionsInv, IutQuiet, TakeAnswer
  PROVE  SessionsInv'
<1> PICK pdu : pdu = Head(txQ)
  OBVIOUS
<1> PICK new : new = [pdu EXCEPT !.kind = "heartbeat_resp"]
  OBVIOUS
<1>0. /\ SessionTypes /\ Begun /\ EstInv
      /\ rxQ \in Seq(FromIut) /\ txQ \in Seq(ToIut) /\ heartbeats \in Nat
      /\ progress \in [Users -> [Sessions -> {"idle", "requested", "done"}]]
  BY DEF SessionsInv, SessionTypes
<1>1. /\ txQ # <<>> /\ txQ' = Tail(txQ)
      /\ rxQ' = IF pdu.kind = "heartbeat_req" THEN Append(rxQ, new) ELSE rxQ
      /\ \/ progress' = progress
         \/ progress' = [progress EXCEPT ![pdu.owner[1]][pdu.owner[2]] = "done"]
      /\ heartbeats' = heartbeats
  BY DEF TakeAnswer
<1>2. /\ pdu \in ToIut /\ pdu \in Elems(txQ) /\ txQ' \in Seq(ToIut)
      /\ Elems(txQ') \subseteq Elems(txQ)
  <2>1. txQ \in Seq(ToIut) /\ txQ # <<>> /\ txQ' = Tail(txQ)
    BY <1>0, <1>1
  <2> QED  BY <2>1, QueueTake
<1>3. pdu.kind = "heartbeat_req" =>
         new \in FromIut /\ new.owner = pdu.owner /\ new.seqnr = pdu.seqnr /\ new.kind = "heartbeat_resp"
  <2> SUFFICES ASSUME pdu.kind = "heartbeat_req"
               PROVE  /\ new \in FromIut /\ new.owner = pdu.owner /\ new.seqnr = pdu.seqnr
                      /\ new.kind = "heartbeat_resp"
    OBVIOUS
  <2>1. pdu \in Pdus /\ IsNumbered(pdu)
    BY <1>2 DEF ToIut
  <2>2. /\ new \in Pdus /\ new.owner = pdu.owner /\ new.seqnr = pdu.seqnr
        /\ new.kind = "heartbeat_resp" /\ new.seid = pdu.seid
    BY <2>1 DEF Pdus, PduKinds, AnswerKinds
  <2>3. IsAnswer(new)
    BY <2>1, <2>2 DEF IsAnswer, IsNumbered
  <2> QED  BY <2>2, <2>3 DEF FromIut
<1>4. /\ rxQ' \in Seq(FromIut)
      /\ \A x \in Elems(rxQ') : x \in Elems(rxQ) \/ (x = new /\ pdu.kind = "heartbeat_req")
      /\ \A S : Once(rxQ, S) /\ (pdu.kind = "heartbeat_req" => new \notin S) => Once(rxQ', S)
  <2>1. CASE pdu.kind = "heartbeat_req"
    <3>1. new \in FromIut /\ rxQ' = Append(rxQ, new)
      BY <1>1, <1>3, <2>1
    <3>2. /\ rxQ' \in Seq(FromIut) /\ Elems(rxQ') = Elems(rxQ) \cup {new}
          /\ \A S : Once(rxQ, S) /\ (new \in S => \A x \in Elems(rxQ) : x \notin S) => Once(rxQ', S)
      <4>1. rxQ \in Seq(FromIut)
        BY <1>0
      <4> QED  BY <3>1, <4>1, QueueAppend
    <3> QED  BY <2>1, <3>2
  <2>2. CASE pdu.kind # "heartbeat_req"
    BY <1>0, <1>1, <2>2
  <2> QED  BY <2>1, <2>2
<1>5. UNCHANGED <<stage, erab, procedure, suite, pfcp>>
  BY DEF IutQuiet, Quiet
<1>6. /\ progress' \in [Users -> [Sessions -> {"idle", "requested", "done"}]]
      /\ \A h \in Users : \A e \in Sessions :
            progress'[h][e] = progress[h][e] \/ progress'[h][e] = "done"
  <2>1. CASE progress' = progress
    BY <1>0, <2>1
  <2>2. CASE progress' = [progress EXCEPT ![pdu.owner[1]][pdu.owner[2]] = "done"]
    BY <1>0, <2>2, ProgressMade
  <2> QED  BY <1>1, <2>1, <2>2
<1>7. EstInv'
  <2>1. ASSUME NEW h \in Users, NEW e \in Sessions
        PROVE  /\ Coming(h, e)' => Coming(h, e)
               /\ Come(h, e)' => Come(h, e)
               /\ Once(rxQ', EstRequests(h, e))
    <3>1. pdu.kind = "heartbeat_req" => new \notin EstRequests(h, e)
      BY <1>3 DEF EstRequests
    <3>2. Once(rxQ, EstRequests(h, e))
      BY <1>0 DEF EstInv, SessionEst
    <3>3. Coming(h, e)' => Coming(h, e)
      BY <1>4, <3>1 DEF Coming, EstRequests, FromIut
    <3>4. Come(h, e)' => Come(h, e)
      BY <1>5 DEF Come, EstRequests, FromIut
    <3> QED  BY <1>4, <3>1, <3>2, <3>3, <3>4
  <2> QED  BY <1>0, <1>5, <1>6, <2>1, EstMovesOn
<1>8. ASSUME NEW x \in Elems(rxQ') \cup Elems(txQ')
      PROVE  /\ x.owner[1] \in Users => Associated
             /\ \/ x.seqnr \notin Numbers
                \/ \E q \in Elems(rxQ) \cup Elems(txQ) : q.seqnr = x.seqnr /\ q.owner = x.owner
  <2>1. \E q \in Elems(rxQ) \cup Elems(txQ) : q.seqnr = x.seqnr /\ q.owner = x.owner
    BY <1>2, <1>3, <1>4
  <2> QED  BY <1>0, <2>1 DEF Begun
<1> QED  BY <1>0, <1>1, <1>2, <1>4, <1>6, <1>7, <1>8, IutFrame

LEMMA IutStepInv ==
  ASSUME SessionsInv, IutStep, suite' = suite, ~RepeatsEstablishment
  PROVE  SessionsInv'
<1>0. IutQuiet /\ heartbeats \in Nat
  BY DEF IutStep, IutQuiet, Quiet, conns, SessionsInv, SessionTypes
<1>1. CASE \E h \in Users, e \in Sessions : RequestSession(h, e) \/ Retransmit(h, e)
  <2> PICK h \in Users, e \in Sessions : RequestSession(h, e) \/ Retransmit(h, e)
    BY <1>1
  <2>1. UNCHANGED <<txQ, heartbeats>>
    BY DEF RequestSession, Retransmit
  <2> QED  BY <1>0, <2>1, SessionRequestInv
<1>2. CASE RequestAssociation
  <2>1. /\ Request("assoc_req", NoSeid, <<Associator, 1>>)
        /\ UNCHANGED <<txQ, progress>> /\ heartbeats' \in Nat
    BY <1>0, <1>2 DEF RequestAssociation
  <2> QED  BY <1>0, <2>1, AssociatorRequestInv
<1>3. CASE RequestHeartbeat
  <2>1. /\ Request("heartbeat_req", NoSeid, <<Associator, heartbeats>>)
        /\ UNCHANGED <<txQ, progress>> /\ heartbeats' \in Nat
    BY <1>0, <1>3 DEF RequestHeartbeat
  <2> QED  BY <1>0, <2>1, AssociatorRequestInv
<1>4. CASE TakeAnswer
  BY <1>0, <1>4, TakeAnswerInv
<1> QED  BY <1>1, <1>2, <1>3, <1>4 DEF IutStep

LEMMA MainStepInv ==
  ASSUME SessionsInv, MainStep, suite' = suite
  PROVE  SessionsInv'
<1>1. Quiet /\ UNCHANGED <<progress, heartbeats>> /\ PfcpMain
  BY DEF MainStep, Quiet, sessionVars
<1> QED
  BY <1>1, AnswerHeartbeatInv, RoutePduInv, ForwardPduInv, ReplyInv DEF PfcpMain

-----------------------------------------------------------------------------
\* A step of the components that only use the mutex, or one that is about the mutex
\* alone.
LEMMA MutexOnlyInv ==
  ASSUME SessionsInv, UNCHANGED <<pfcpVars, sessionVars, suite>>,
         \/ UNCHANGED vars \/ Dispatcher \/ StopTestcase
         \/ \E h \in Users : GetReply(h) \/ LockTimeout(h) \/ AbortCritical(h)
         \/ suite = "none" /\ Next
  PROVE  SessionsInv'
<1>0. /\ MutexInv /\ Region /\ SessionTypes /\ Addressed /\ Heads
      /\ CallsInv /\ Begun /\ EstInv /\ NumbersInv
  BY DEF SessionsInv
<1>1. UNCHANGED <<g_conns_bcast, g_conns_seqnr, g_conns_seid, g_next_sequence_nr_state,
                  rxQ, txQ, clientQ, procQ, result, pfcp, stage, erab, procedure, progress,
                  heartbeats, suite>>
  BY DEF pfcpVars, conns, sessionVars
<1>2. SessionTypes'
  BY <1>0, <1>1 DEF SessionTypes
<1>3. Addressed' /\ Heads'
  BY <1>0, <1>1 DEF Addressed, Heads
<1>4. CallsInv'
  BY <1>0, <1>1, CallsFrame
<1>5. Begun'
  BY <1>0, <1>1 DEF Begun, Associated
<1>6. EstInv'
  BY <1>0, <1>1, EstFrame DEF EstInv
<1>7. NumbersInv'
  BY <1>0, <1>1, NumbersFrame
<1>8. MutexInv' /\ Region'
  BY <1>0, <1>1, QuietRegion
<1> QED  BY <1>2, <1>3, <1>4, <1>5, <1>6, <1>7, <1>8 DEF SessionsInv

LEMMA InitSessionsInv == AllInit => SessionsInv
<1> SUFFICES ASSUME AllInit PROVE SessionsInv
  OBVIOUS
<1>0. /\ Init /\ PfcpInit
      /\ stage = [h \in ConnHdlrs |-> "start"]
      /\ erab = [h \in Users |-> 1]
      /\ procedure = [h \in Users |-> "none"]
      /\ progress = [h \in Users |-> AllIdle]
      /\ heartbeats \in 0..MaxHeartbeats
  BY DEF AllInit, SessionsInit
<1>1. /\ g_conns_bcast = {} /\ g_conns_seqnr = {} /\ g_conns_seid = {}
      /\ g_next_sequence_nr_state \in Nat
      /\ rxQ = <<>> /\ txQ = <<>> /\ clientQ = <<>> /\ procQ = <<>>
      /\ result = [h \in ConnHdlrs |-> "true"]
      /\ pfcp = [h \in ConnHdlrs |-> <<>>]
  BY <1>0, PFCPAssumption DEF PfcpInit
<1>2. \A h \in ConnHdlrs : stage[h] = "start" /\ pfcp[h] = <<>>
  BY <1>0, <1>1
<1>3. /\ \A h \in Users : erab[h] = 1 /\ procedure[h] = "none"
      /\ \A h \in Users : \A e \in Sessions : progress[h][e] = "idle"
  BY <1>0 DEF AllIdle
<1>4. /\ Elems(rxQ) = {} /\ Elems(txQ) = {} /\ Elems(clientQ) = {} /\ Elems(procQ) = {}
      /\ \A h \in ConnHdlrs : Elems(pfcp[h]) = {}
      /\ \A S : Once(rxQ, S) /\ Once(clientQ, S) /\ Once(procQ, S)
  BY <1>1, <1>2, QueueEmpty
<1>5. MutexInv
  BY <1>0, InitMutexInv
<1>6. Region
  BY <1>2, Hdlrs DEF Region, Inside, Subscribed
<1>7. SessionTypes
  <2>1. heartbeats \in Nat
    BY <1>0, SessionsAssumption
  <2>2. /\ stage \in [ConnHdlrs -> Stages] /\ erab \in [Users -> Nat]
        /\ procedure \in [Users -> {"none", "est", "mod", "del"}]
        /\ progress \in [Users -> [Sessions -> {"idle", "requested", "done"}]]
    BY <1>0 DEF Stages, AllIdle
  <2>3. /\ rxQ \in Seq(FromIut) /\ txQ \in Seq(ToIut)
        /\ clientQ \in Seq(FromHdlrs) /\ procQ \in Seq(CallRecords)
    BY <1>1
  <2>4. /\ result \in [ConnHdlrs -> {"waiting", "true", "false"}]
        /\ pfcp \in [ConnHdlrs -> Seq(FromIut)]
    BY <1>1
  <2> QED  BY <1>1, <2>1, <2>2, <2>3, <2>4 DEF SessionTypes
<1>8. Addressed /\ Heads
  BY <1>2, <1>4, Hdlrs DEF Addressed, Heads
<1>9. CallsInv
  BY <1>1, <1>4 DEF CallsInv
<1>10. Begun
  BY <1>2, <1>4, Hdlrs DEF Begun
<1>11. EstInv
  <2> SUFFICES ASSUME NEW h \in Users PROVE HdlrEst(h) /\ \A e \in Sessions : SessionEst(h, e)
    BY DEF EstInv
  <2>1. stage[h] = "start" /\ Elems(pfcp[h]) = {}
    BY <1>2, <1>4, Hdlrs
  <2>2. HdlrEst(h)
    BY <1>3, <2>1 DEF HdlrEst, Early, Establishing
  <2>3. ASSUME NEW e \in Sessions PROVE SessionEst(h, e)
    <3>1. ~Coming(h, e) /\ ~Come(h, e)
      BY <1>4, <2>1 DEF Coming, Come
    <3>2. ~Answered(h, e) /\ procedure[h] = "none" /\ Once(rxQ, EstRequests(h, e))
      BY <1>3, <1>4, <2>1 DEF Answered
    <3> QED  BY <3>1, <3>2 DEF SessionEst
  <2> QED  BY <2>2, <2>3
<1>12. NumbersInv
  <2>1. HeartbeatInv
    BY <1>4 DEF HeartbeatInv, Queued
  <2>2. \A n : ~InUse(n)
    BY <1>1, <1>4 DEF InUse
  <2> QED  BY <1>1, <2>1, <2>2 DEF NumbersInv, Recent, Listing
<1> QED  BY <1>5, <1>6, <1>7, <1>8, <1>9, <1>10, <1>11, <1>12 DEF SessionsInv

LEMMA StepSessionsInv ==
  ASSUME ~RepeatsEstablishment, SessionsInv, [AllNext]_allVars
  PROVE  SessionsInv'
<1>1. CASE UNCHANGED allVars
  BY <1>1, MutexOnlyInv DEF allVars
<1>2. CASE Next /\ MutexOnly
  BY <1>2, MutexOnlyInv DEF MutexOnly
<1>3. CASE suite # "none" /\ SessionsNext /\ UNCHANGED <<suite, timers>>
  <2>0. suite' = suite /\ suite # "none"
    BY <1>3
  <2>1. CASE AssocStep
    BY <2>0, <2>1, AssocInv
  <2>2. ASSUME NEW h \in Users, UserStep(h) PROVE SessionsInv'
    BY <2>0, <2>2, UserInv
  <2>3. CASE IutStep
    BY <2>0, <2>3, IutStepInv
  <2>4. CASE MainStep
    BY <2>0, <2>4, MainStepInv
  <2>5. CASE (\E h \in Users : Locked(h) \/ GiveUp(h)) \/ MutexStep \/ Stop \/ SessionsFinished
    <3>1. UNCHANGED <<pfcpVars, sessionVars, suite>>
      BY <2>0, <2>5 DEF Locked, GiveUp, MutexStep, Stop, SessionsFinished
    <3>2. \/ UNCHANGED vars \/ Dispatcher \/ StopTestcase
          \/ \E h \in Users : GetReply(h) \/ LockTimeout(h) \/ AbortCritical(h)
      BY <2>5 DEF Locked, GiveUp, MutexStep, Stop, SessionsFinished
    <3> QED  BY <3>1, <3>2, MutexOnlyInv
  <2> QED  BY <1>3, <2>1, <2>2, <2>3, <2>4, <2>5 DEF SessionsNext, SessionsProgress
<1> QED  BY <1>1, <1>2, <1>3 DEF AllNext

\* The inductive invariant of the ConnHdlrs that share the PFCP dispatcher and
\* serialise their establishments by the mutex, in every suite and with every number
\* of ConnHdlrs, sessions, heartbeats and repeated requests, while the system under
\* test repeats no Session Establishment Request.
THEOREM SessionsInvariant ==
  ASSUME ~RepeatsEstablishment PROVE SessionsSpec => []SessionsInv
<1>1. AllInit => SessionsInv
  BY InitSessionsInv
<1>2. SessionsInv /\ [AllNext]_allVars => SessionsInv'
  BY StepSessionsInv
<1> QED  BY <1>1, <1>2, PTL DEF SessionsSpec

\* f_PFCPEM_conn_for_pdu gives each PDU to the ConnHdlr of its session or request,
\* although all establishment requests carry SEID 0 and heartbeat requests of several
\* ConnHdlrs are under way at a time.
THEOREM PfcpEachToItsOwn ==
  ASSUME ~RepeatsEstablishment PROVE SessionsSpec => EachToItsOwn
<1>1. ASSUME SessionsInv, SessionsInv'
      PROVE  [\A h \in ConnHdlrs : Len(pfcp'[h]) > Len(pfcp[h])
                => pfcp'[h][Len(pfcp'[h])].owner[1] = h]_allVars
  <2> SUFFICES ASSUME NEW h \in ConnHdlrs, Len(pfcp'[h]) > Len(pfcp[h])
               PROVE  pfcp'[h][Len(pfcp'[h])].owner[1] = h
    OBVIOUS
  <2>1. pfcp[h] \in Seq(FromIut) /\ pfcp'[h] \in Seq(FromIut)
    BY <1>1 DEF SessionsInv, SessionTypes
  <2>2. Len(pfcp'[h]) \in 1..Len(pfcp'[h])
    BY <2>1
  <2>3. pfcp'[h][Len(pfcp'[h])] \in Elems(pfcp'[h])
    BY <2>2 DEF Elems
  <2>4. \A pdu \in Elems(pfcp'[h]) : pdu.owner[1] = h
    BY <1>1 DEF SessionsInv, Addressed
  <2> QED  BY <2>3, <2>4
<1> QED  BY <1>1, SessionsInvariant, PTL DEF SessionsSpec, EachToItsOwn

-----------------------------------------------------------------------------
(* The properties of the mutex among ConnHdlrs, whatever the system under  *)
(* test repeats.                                                           *)

LEMMA AllNextMutex ==
  ASSUME [AllNext]_allVars
  PROVE  [Next]_vars \/ \E c \in Clients : ShutsDown(c)
<1>1. CASE UNCHANGED allVars \/ (Next /\ MutexOnly)
  BY <1>1 DEF allVars
<1>2. CASE suite # "none" /\ SessionsNext
  <2>1. CASE AssocStep \/ IutStep \/ MainStep \/ SessionsFinished
    BY <2>1 DEF AssocStep, IutStep, MainStep, SessionsFinished
  <2>2. ASSUME NEW h \in Users, UserStep(h) \/ Locked(h) \/ GiveUp(h)
        PROVE  [Next]_vars \/ \E c \in Clients : ShutsDown(c)
    <3>1. \/ UNCHANGED vars \/ CallLock(h) \/ ShutsDown(h) \/ CallUnlock(h)
          \/ GetReply(h) \/ LockTimeout(h) \/ AbortCritical(h)
      BY <2>2, UserMutex DEF Locked, GiveUp
    <3> QED  BY <3>1, Hdlrs DEF Next, Client
  <2>3. CASE MutexStep \/ Stop
    BY <2>3 DEF MutexStep, Stop, Next
  <2> QED  BY <1>2, <2>1, <2>2, <2>3 DEF SessionsNext, SessionsProgress
<1> QED  BY <1>1, <1>2 DEF AllNext

LEMMA AllNextDiscipline ==
  ASSUME DisciplineInv, [AllNext]_allVars
  PROVE  DisciplineInv'
<1>1. CASE [Next]_vars
  BY <1>1, StepMutexInv, StepDistinctRefs, StepPairedUnlocks DEF DisciplineInv
<1>2. CASE \E c \in Clients : ShutsDown(c)
  <2>1. MutexInv'
    BY <1>2, ShutsDownInv DEF DisciplineInv
  <2>2. UNCHANGED <<ref, unlockQ, locked, g_mutex_ref>>
    BY <1>2 DEF ShutsDown
  <2>3. DistinctRefs' /\ PairedUnlocks'
    BY <2>2 DEF DisciplineInv, DistinctRefs, PairedUnlocks
  <2> QED  BY <2>1, <2>3 DEF DisciplineInv
<1> QED  BY <1>1, <1>2, AllNextMutex

\* The inductive invariant of the mutex holds among the ConnHdlrs of s1gw and hnbgw
\* too, one of which may end the testcase inside its critical section.
THEOREM SessionsDisciplineInvariant == SessionsSpec => []DisciplineInv
<1>1. AllInit => DisciplineInv
  BY InitDisciplineInv DEF AllInit
<1>2. DisciplineInv /\ [AllNext]_allVars => DisciplineInv'
  BY AllNextDiscipline
<1> QED  BY <1>1, <1>2, PTL DEF SessionsSpec

\* No two components are between f_Mutex_lock and f_Mutex_unlock, in any suite.
THEOREM SessionsExclusion == SessionsSpec => []MutualExclusion
<1>1. DisciplineInv => MutualExclusion
  BY ExclusionInv DEF DisciplineInv
<1> QED  BY <1>1, SessionsDisciplineInvariant, PTL

\* The dispatcher rejects no unlock of a ConnHdlr of s1gw or hnbgw that pairs each of
\* them with a lock, in any suite.
THEOREM SessionsDiscipline == SessionsSpec => DisciplineSuffices
<1>1. ASSUME DisciplineInv, [AllNext]_allVars
      PROVE  [disp' # disp => \A c \in Clients \ Careless : ref[c] # Head(unlockQ)]_vars
  <2>1. CASE [Next]_vars
    BY <1>1, <2>1, RejectsCareless
  <2>2. CASE \E c \in Clients : ShutsDown(c)
    BY <2>2 DEF ShutsDown
  <2> QED  BY <1>1, <2>1, <2>2, AllNextMutex
<1> QED  BY <1>1, SessionsDisciplineInvariant, PTL DEF SessionsSpec, DisciplineSuffices

=============================================================================
