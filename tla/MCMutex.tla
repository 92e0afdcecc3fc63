------------------------------ MODULE MCMutex -------------------------------
(* Instances for TLC: three components that only use the mutex, one of them *)
(* careless, and two ConnHdlrs with PFCP sessions.                          *)
EXTENDS PFCPSessions, TLC

MCInit ==
    /\ AllInit
    /\ suite = "none" => timers
    /\ heartbeats = IF suite = "heartbeat" \/ (suite = "hnbgw" /\ ~timers)
                    THEN MaxHeartbeats ELSE 0
    /\ retransmissions = IF suite = "hnbgw" /\ timers THEN MaxRetransmissions ELSE 0

\* Without PFCP as Mutex!FairSpec.  With it a run ends, so it is enough that
\* something happens while the dispatchers, the system under test or a ConnHdlr
\* can do something; no timer has to expire.
MCSpec ==
    /\ MCInit /\ [][AllNext]_allVars
    /\ WF_allVars(Dispatcher /\ MutexOnly)
    /\ WF_allVars(StopTestcase /\ MutexOnly)
    /\ \A c \in Clients :
          /\ WF_allVars(GetReply(c) /\ MutexOnly)
          /\ WF_allVars((CallUnlock(c) \/ AbortCritical(c)) /\ MutexOnly)
    /\ WF_allVars(suite # "none" /\ SessionsProgress /\ UNCHANGED <<suite, timers>>)
=============================================================================
