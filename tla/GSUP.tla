-------------------------------- MODULE GSUP ---------------------------------
(***************************************************************************)
(* The dispatcher of library/GSUP_Emulation.ttcn, which routes the GSUP    *)
(* PDUs of one connection to the ConnHdlr in charge of their IMSI, and the *)
(* ConnHdlrs that call it (f_create_gsup_expect and its siblings).         *)
(*                                                                         *)
(* The implementation under test (IUT) speaks of an IMSI once a ConnHdlr   *)
(* has given it reason to, through another interface, until the procedure  *)
(* is over.  Of a wild IMSI it speaks when it likes, and any ConnHdlr may  *)
(* make any call for it at any time; the other IMSIs are used the way the  *)
(* testcases do: by one ConnHdlr at a time, which registers an expect      *)
(* before it gives the IUT reason to speak, and releases what it has.      *)
(*                                                                         *)
(* A ConnHdlr waits in its call, so that its request is a record in call   *)
(* and the reply can be read as it is sent.  Requests may still be under   *)
(* way: the dispatcher serves those of several ConnHdlrs in any order.     *)
(*                                                                         *)
(* A definition X_Y placed before X is X with the mistake Y: it is used by *)
(* no specification and shows what the properties would catch.             *)
(***************************************************************************)
EXTENDS Naturals, Sequences, FiniteSets

CONSTANTS Hdlrs, Imsis,
          Wild,          \* the IMSIs that may be used without discipline
          ImsiSlots,     \* sizeof(GsupImsiTable)
          ExpectSlots,   \* sizeof(GsupExpectTable)
          NoImsi,        \* "" or omit: a free entry
          Nobody,        \* the null component
          MaxPdus,       \* bound: PDUs under way to, or unread by, one ConnHdlr
          MaxPdusWild    \* bound: the same if an IMSI is wild

ASSUME SlotsAssumption == ImsiSlots \in Nat /\ ExpectSlots \in Nat
ASSUME NullAssumption == NoImsi \notin Imsis /\ Nobody \notin Hdlrs
ASSUME WildAssumption == Wild \subseteq Imsis /\ MaxPdus \in Nat /\ MaxPdusWild \in Nat

Ops == {"expect", "unexpect", "unregister", "change"}
Idle == [op |-> "none", imsi |-> NoImsi]
Calls == [op : Ops, imsi : Imsis]
Free == [imsi |-> NoImsi, comp |-> Nobody]
Entries == {Free} \cup [imsi : Imsis, comp : Hdlrs]

VARIABLES
    GsupImsiTable, GsupExpectTable,   \* sequences of entries
    gsup,     \* the IMSIs of the PDUs in the GSUP port of the dispatcher
    inbox,    \* inbox[h]: those in the GSUP port of h
    call,     \* call[h]: the call h waits in
    ended,    \* ConnHdlrs whose behaviour is over
    outcome,  \* "running", "lost" connection, or "failed"
    user,     \* user[k]: the ConnHdlr in charge of k, as the testcase has it
    stage,    \* stage[k]: what the testcase does with k
    wild      \* the IMSIs used without discipline; never changes

tables == <<GsupImsiTable, GsupExpectTable>>
testcase == <<user, stage, wild>>
vars == <<tables, gsup, inbox, call, ended, outcome, testcase>>

\* "claimed": an expect was asked for; "talking": the IUT has reason to speak;
\* "heard": and its first PDU was read; "over": it has no reason any more.
Stages == {"free", "claimed", "talking", "heard", "over"}

Init ==
    /\ GsupImsiTable = [i \in 1 .. ImsiSlots |-> Free]
    /\ GsupExpectTable = [i \in 1 .. ExpectSlots |-> Free]
    /\ gsup = <<>>
    /\ inbox = [h \in Hdlrs |-> <<>>]
    /\ call = [h \in Hdlrs |-> Idle]
    /\ ended = {}
    /\ outcome = "running"
    /\ user = [k \in Imsis |-> Nobody]
    /\ stage = [k \in Imsis |-> "free"]
    /\ wild \in SUBSET Wild

-----------------------------------------------------------------------------
(* The tables. *)

First(slots) == CHOOSE i \in slots : \A j \in slots : i <= j

\* The slots that hold IMSI k; those that are free if k is NoImsi.
Slots(table, k) == {i \in DOMAIN table : table[i].imsi = k}
SlotsOf(table, k, h) == {i \in Slots(table, k) : table[i].comp = h}
Known_Never(k) == FALSE
Known(k) == Slots(GsupImsiTable, k) # {}

Fits(table) == Slots(table, NoImsi) # {}

\* f_imsi_table_add, f_create_expect: into the first free slot
Add(table, k, h) ==
    [table EXCEPT ![First(Slots(table, NoImsi))] = [imsi |-> k, comp |-> h]]

Cleared(table, i) == [table EXCEPT ![i] = Free]

\* f_imsi_table_del: the first slot of k
Del(table, k) == Cleared(table, First(Slots(table, k)))

-----------------------------------------------------------------------------
(* The dispatcher: GSUP_Emulation.main. *)

Dispatcher ==
    /\ outcome = "running"
    /\ UNCHANGED <<ended, testcase>>

\* mtc.stop, testcase.stop or a dynamic testcase error
Fail == outcome' = "failed" /\ UNCHANGED <<tables, gsup, inbox, call>>

Forward(k, h) ==
    IF h \in ended
    THEN outcome' = "failed" /\ UNCHANGED inbox
    ELSE inbox' = [inbox EXCEPT ![h] = Append(@, k)] /\ UNCHANGED outcome

ReceivePdu(k) ==
    /\ Dispatcher
    /\ gsup # <<>>
    /\ k = Head(gsup)

\* f_comp_by_imsi
RouteKnown(k) ==
    /\ ReceivePdu(k)
    /\ Known(k)
    /\ Forward(k, GsupImsiTable[First(Slots(GsupImsiTable, k))].comp)
    /\ gsup' = Tail(gsup)
    /\ UNCHANGED <<tables, call>>

\* ExpectedCreateCallback: the first expect for k is used up.
RouteExpected(k) ==
    LET slots == Slots(GsupExpectTable, k)
        h == GsupExpectTable[First(slots)].comp
    IN  /\ ReceivePdu(k)
        /\ ~Known(k)
        /\ slots # {} /\ Fits(GsupImsiTable)
        /\ GsupExpectTable' = Cleared(GsupExpectTable, First(slots))
        /\ GsupImsiTable' = Add(GsupImsiTable, k, h)
        /\ Forward(k, h)
        /\ gsup' = Tail(gsup)
        /\ UNCHANGED call

\* No expect for k, or "GSUP IMSI table full!"
RouteFails(k) ==
    /\ ReceivePdu(k)
    /\ ~Known(k)
    /\ Slots(GsupExpectTable, k) = {} \/ ~Fits(GsupImsiTable)
    /\ Fail

\* A getcall; unless the testcase fails the caller gets its reply.
Getcall(h, op) == Dispatcher /\ call[h].op = op
Reply_NotOnChange(h) ==
    /\ call' = IF call[h].op = "change" THEN call ELSE [call EXCEPT ![h] = Idle]
    /\ UNCHANGED <<gsup, inbox, outcome>>
Reply(h) == call' = [call EXCEPT ![h] = Idle] /\ UNCHANGED <<gsup, inbox, outcome>>

RegisterExpect(h) ==
    /\ Getcall(h, "expect")
    /\ IF Fits(GsupExpectTable)
       THEN /\ GsupExpectTable' = Add(GsupExpectTable, call[h].imsi, h)
            /\ Reply(h)
            /\ UNCHANGED GsupImsiTable
       ELSE Fail

Matching(h) == SlotsOf(GsupExpectTable, call[h].imsi, h)

\* f_destroy_expect
UnregisterExpect(h) ==
    /\ Getcall(h, "unexpect")
    /\ IF Matching(h) # {}
       THEN /\ GsupExpectTable' = Cleared(GsupExpectTable, First(Matching(h)))
            /\ Reply(h)
            /\ UNCHANGED GsupImsiTable
       ELSE Fail

UnregisterConnHdlr(h) ==
    /\ Getcall(h, "unregister")
    /\ IF Known(call[h].imsi)
       THEN /\ GsupImsiTable' = Del(GsupImsiTable, call[h].imsi)
            /\ Reply(h)
            /\ UNCHANGED GsupExpectTable
       ELSE Fail

Reassigned_Same(h) == GsupImsiTable
Reassigned_AddedOnly(h) == Add(GsupImsiTable, call[h].imsi, h)
Reassigned(h) == Add(Del(GsupImsiTable, call[h].imsi), call[h].imsi, h)

ChangeConnHdlr(h) ==
    /\ Getcall(h, "change")
    /\ IF Known(call[h].imsi)
       THEN /\ GsupImsiTable' = Reassigned(h)
            /\ Reply(h)
            /\ UNCHANGED GsupExpectTable
       ELSE Fail

Serve(h) ==
    RegisterExpect(h) \/ UnregisterExpect(h) \/ UnregisterConnHdlr(h) \/ ChangeConnHdlr(h)

\* "GSUP Connection Lost"
ConnectionLost ==
    /\ Dispatcher
    /\ outcome' = "lost"
    /\ UNCHANGED <<tables, gsup, inbox, call>>

-----------------------------------------------------------------------------
(* The ConnHdlrs and the IUT. *)

Client(h) ==
    /\ outcome = "running"
    /\ h \notin ended
    /\ call[h] = Idle
    /\ UNCHANGED <<tables, outcome>>

Call(h, op, k) ==
    /\ Client(h)
    /\ call' = [call EXCEPT ![h] = [op |-> op, imsi |-> k]]
    /\ UNCHANGED <<gsup, inbox, ended>>

\* What the testcase does with an IMSI that is not wild.
OneAtATime(k, h) == \A g \in Hdlrs \ {h} : call[g].imsi # k
Use(k, h, old, new) ==
    IF k \in wild THEN UNCHANGED testcase
    ELSE /\ stage[k] \in old /\ user[k] \in {Nobody, h} /\ OneAtATime(k, h)
         /\ stage' = [stage EXCEPT ![k] = new]
         /\ user' = [user EXCEPT ![k] = IF new = "free" THEN Nobody ELSE h]
         /\ UNCHANGED wild

Unread(h, k) == \E i \in DOMAIN inbox[h] : inbox[h][i] = k

CreateExpect(h, k) ==
    /\ Call(h, "expect", k)
    /\ k \notin wild => ~Unread(h, k)
    /\ Use(k, h, {"free"}, "claimed")

\* Without discipline, or when the IUT was given no reason to speak.
DestroyExpect(h, k) == Call(h, "unexpect", k) /\ Use(k, h, {"claimed"}, "free")

Unregister(h, k) == Call(h, "unregister", k) /\ Use(k, h, {"over"}, "free")

\* Another ConnHdlr takes over while the IUT speaks (call re-establishment).
TakeOver(h, k) ==
    /\ Call(h, "change", k)
    /\ IF k \in wild THEN UNCHANGED testcase
       ELSE /\ stage[k] = "heard" /\ OneAtATime(k, h)
            /\ user' = [user EXCEPT ![k] = h]
            /\ UNCHANGED <<stage, wild>>

Trigger(h, k) ==
    /\ Client(h)
    /\ k \notin wild /\ user[k] = h
    /\ Use(k, h, {"claimed"}, "talking")
    /\ UNCHANGED <<gsup, inbox, call, ended>>

\* The IUT is done with k and h has read all it said.
Release(h, k) ==
    /\ Client(h)
    /\ k \notin wild /\ user[k] = h
    /\ \A i \in DOMAIN gsup : gsup[i] # k
    /\ ~Unread(h, k)
    /\ Use(k, h, {"heard"}, "over")
    /\ UNCHANGED <<gsup, inbox, call, ended>>

ReadPdu(h) ==
    /\ Client(h)
    /\ inbox[h] # <<>>
    /\ inbox' = [inbox EXCEPT ![h] = Tail(@)]
    /\ LET k == Head(inbox[h]) IN
         stage' = [stage EXCEPT ![k] = IF @ = "talking" /\ user[k] = h THEN "heard" ELSE @]
    /\ UNCHANGED <<gsup, call, ended, user, wild>>

\* The behaviour of h ends, but not while another ConnHdlr takes over from it;
\* IMSIs it did not release are not used again.
Finish(h) ==
    /\ Client(h)
    /\ \A g \in Hdlrs : call[g].op = "change" => call[g].imsi \in wild
    /\ \A k \in Imsis : user[k] = h => stage[k] = "over"
    /\ ended' = ended \cup {h}
    /\ UNCHANGED <<gsup, inbox, call, testcase>>

IutSends(k) ==
    /\ outcome = "running"
    /\ k \in wild \/ stage[k] \in {"talking", "heard"}
    /\ \A h \in Hdlrs :
          Len(gsup) + Len(inbox[h]) < (IF wild = {} THEN MaxPdus ELSE MaxPdusWild)
    /\ gsup' = Append(gsup, k)
    /\ UNCHANGED <<tables, inbox, call, ended, outcome, testcase>>

-----------------------------------------------------------------------------

Route == \E k \in Imsis : RouteKnown(k) \/ RouteExpected(k) \/ RouteFails(k)

ConnHdlr(h) ==
    \/ \E k \in Imsis : \/ CreateExpect(h, k) \/ DestroyExpect(h, k)
                        \/ Unregister(h, k) \/ TakeOver(h, k)
                        \/ Trigger(h, k) \/ Release(h, k)
    \/ ReadPdu(h) \/ Finish(h)

Next ==
    \/ Route \/ ConnectionLost
    \/ \E h \in Hdlrs : Serve(h) \/ ConnHdlr(h)
    \/ \E k \in Imsis : IutSends(k)

Spec == Init /\ [][Next]_vars

\* The dispatcher handles what is in its ports: the IUT sends less than it can
\* handle, and the calls of a port are served in turn.
FairSpec == Spec /\ WF_vars(Route) /\ \A h \in Hdlrs : WF_vars(Serve(h))

-----------------------------------------------------------------------------

TypeOK ==
    /\ GsupImsiTable \in [1 .. ImsiSlots -> Entries]
    /\ GsupExpectTable \in [1 .. ExpectSlots -> Entries]
    /\ gsup \in Seq(Imsis)
    /\ inbox \in [Hdlrs -> Seq(Imsis)]
    /\ call \in [Hdlrs -> Calls \cup {Idle}]
    /\ ended \subseteq Hdlrs
    /\ outcome \in {"running", "lost", "failed"}
    /\ user \in [Imsis -> Hdlrs \cup {Nobody}]
    /\ stage \in [Imsis -> Stages]
    /\ wild \subseteq Imsis

\* f_imsi_table_del and f_comp_by_imsi stop at the first entry of an IMSI: there
\* is no second one that would come to light later.
OneEntryPerImsi ==
    \A i, j \in 1 .. ImsiSlots :
        GsupImsiTable[i].imsi = GsupImsiTable[j].imsi /\ GsupImsiTable[i].imsi # NoImsi => i = j

\* Used with discipline the dispatcher never ends the testcase: every PDU finds
\* its ConnHdlr, every call its entry, and tables with a slot per IMSI are never full.
UsedNeverFails == wild = {} => outcome # "failed"

\* A PDU goes to the ConnHdlr in charge of its IMSI, or while that one is still
\* waiting to take over, to the one before it.
RoutedToUser ==
    [][\A h \in Hdlrs : Len(inbox'[h]) > Len(inbox[h]) =>
          LET k == Head(gsup) IN
            \/ k \in wild \/ user[k] = h
            \/ call[user[k]] = [op |-> "change", imsi |-> k]]_vars

\* The calls have no timeout: each returns or the testcase ends.
CallReturns == \A h \in Hdlrs : call[h] # Idle ~> call[h] = Idle \/ outcome # "running"

\* What the tables stand for: the handler of k, and how often h expects k.
OwnerIn(table, k) ==
    IF Slots(table, k) # {} THEN table[First(Slots(table, k))].comp ELSE Nobody
Expects(table, k, h) == Cardinality(SlotsOf(table, k, h))
Owners(table) == [k \in Imsis |-> OwnerIn(table, k)]
Expected(table) == [p \in Imsis \X Hdlrs |-> Expects(table, p[1], p[2])]

Abstract == INSTANCE Router WITH
    Keys <- Imsis, Handlers <- Hdlrs,
    owner <- Owners(GsupImsiTable),
    expected <- Expected(GsupExpectTable),
    open <- outcome = "running"

\* The two tables, searched and filled slot by slot, route as Router promises.
Routing == Abstract!Spec
=============================================================================
