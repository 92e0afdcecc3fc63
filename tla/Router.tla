------------------------------- MODULE Router --------------------------------
(***************************************************************************)
(* What the dispatcher components of the library promise to the            *)
(* per-connection components (ConnHdlrs) they serve: each key (an IMSI, a  *)
(* connection, a TEID) has one handler at most, messages for a key go to   *)
(* its handler in the order they arrive, and a key without a handler       *)
(* goes to one that registered an expect for it, once per registration.    *)
(***************************************************************************)
EXTENDS Naturals, Sequences

CONSTANTS Keys, Handlers,
          Nobody          \* not in Handlers

VARIABLES
    owner,      \* owner[k]: the handler of k, or Nobody
    expected,   \* expected[<<k, h>>]: how many expects of h for k are pending
    inbox,      \* inbox[h]: the keys of the messages h has not read
    open        \* FALSE once the testcase has ended

vars == <<owner, expected, inbox, open>>

Init ==
    /\ owner = [k \in Keys |-> Nobody]
    /\ expected = [p \in Keys \X Handlers |-> 0]
    /\ inbox = [h \in Handlers |-> <<>>]
    /\ open = TRUE

Put(k, h) == inbox' = [inbox EXCEPT ![h] = Append(@, k)]

\* A message for k arrives.
Deliver(k) ==
    /\ open
    /\ \/ /\ owner[k] # Nobody
          /\ Put(k, owner[k])
          /\ UNCHANGED <<owner, expected>>
       \/ /\ owner[k] = Nobody
          /\ \E h \in Handlers :
                /\ expected[<<k, h>>] > 0
                /\ expected' = [expected EXCEPT ![<<k, h>>] = @ - 1]
                /\ owner' = [owner EXCEPT ![k] = h]
                /\ Put(k, h)
    /\ UNCHANGED open

Expect(k, h) ==
    /\ open
    /\ expected' = [expected EXCEPT ![<<k, h>>] = @ + 1]
    /\ UNCHANGED <<owner, inbox, open>>

Withdraw(k, h) ==
    /\ open
    /\ expected[<<k, h>>] > 0
    /\ expected' = [expected EXCEPT ![<<k, h>>] = @ - 1]
    /\ UNCHANGED <<owner, inbox, open>>

\* The handler of k is replaced, by nobody or by another one.
Reassign(k, h) ==
    /\ open
    /\ owner[k] # Nobody
    /\ owner' = [owner EXCEPT ![k] = h]
    /\ UNCHANGED <<expected, inbox, open>>

Read(h) ==
    /\ open
    /\ inbox[h] # <<>>
    /\ inbox' = [inbox EXCEPT ![h] = Tail(@)]
    /\ UNCHANGED <<owner, expected, open>>

End == open' = FALSE /\ UNCHANGED inbox

Next ==
    \/ \E k \in Keys : Deliver(k)
    \/ \E k \in Keys, h \in Handlers : Expect(k, h) \/ Withdraw(k, h)
    \/ \E k \in Keys, h \in Handlers \cup {Nobody} : Reassign(k, h)
    \/ \E h \in Handlers : Read(h)
    \/ open /\ End

Spec == Init /\ [][Next]_vars
=============================================================================
