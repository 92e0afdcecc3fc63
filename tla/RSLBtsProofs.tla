---------------------------- MODULE RSLBtsProofs -----------------------------
(***************************************************************************)
(* The dispatcher of RSL as the suite bts uses it, for any number of       *)
(* transceivers, channels, handlers and table slots: the map of the links  *)
(* (LinksInv), the table and the calls (TableInv), and the way of the      *)
(* messages of a channel from its activation to its release (ChannelInv).  *)
(***************************************************************************)
EXTENDS RSLBts, FiniteSetTheorems, TLAPS

-----------------------------------------------------------------------------
(* Queues. *)

Indices(s) == 1 .. Len(s)
Elems(s) == {s[i] : i \in Indices(s)}

\* m is in queue s; at most once; never after an entry b.
In(s, m) == \E i \in Indices(s) : s[i] = m
Once(s, m) == \A i, j \in Indices(s) : s[i] = m /\ s[j] = m => i = j
Before(s, m, b) == \A i, j \in Indices(s) : s[i] = m /\ s[j] = b => i < j

\* m is about channel c; nothing in s is; nothing in s that is comes after m.
About(m, c) == m.t \in {"DR", "CHAN_ACTIV", "CHAN_REL"} /\ m.lchan = c
Silent(s, c) == \A i \in Indices(s) : ~About(s[i], c)
Closed(s, c, m) == \A i, j \in Indices(s) : s[i] = m /\ About(s[j], c) => j <= i

-----------------------------------------------------------------------------
(* The inductive invariant. *)

IdResp(t) == [t |-> "ID_RESP", trx |-> t, conn |-> ConnOf[t]]
Down(t) == [t |-> "DOWN", conn |-> ConnOf[t]]
RfRes(t) == [t |-> "COMMON", trx |-> t]

\* Of the queues: the events name the connection of their transceiver, and the
\* identification comes before anything else of it.
LinkOf(t) ==
    /\ TrxConnMap[t] \in {None, ConnOf[t]}
    /\ In(ipa, IdResp(t)) => link[t] \in {"identified", "ready", "lost"} /\ TrxConnMap[t] = None
    /\ In(ipa, Down(t)) => link[t] = "lost"
    /\ In(ipa, RfRes(t)) => link[t] \in {"ready", "lost"}
    /\ link[t] \in {"down", "up"} => TrxConnMap[t] = None
    /\ link[t] \in {"identified", "ready"} => TrxConnMap[t] # None \/ In(ipa, IdResp(t))
    /\ link[t] = "lost" =>
          In(ipa, Down(t)) \/ (TrxConnMap[t] = None /\ ~In(ipa, IdResp(t)))
    /\ Once(ipa, IdResp(t))
    /\ Before(ipa, IdResp(t), Down(t)) /\ Before(ipa, IdResp(t), RfRes(t))
    /\ In(cchan, RfRes(t)) \/ t \in rfInd =>
          link[t] \in {"ready", "lost"} /\ ~In(ipa, IdResp(t))

\* The events of the connection name it.
Named(m) ==
    /\ m.t = "ID_RESP" => m.conn = ConnOf[m.trx]
    /\ m.t = "DOWN" => \E t \in Trxs : m.conn = ConnOf[t]

AllNamed(s) == \A i \in Indices(s) : Named(s[i])

LinksInv ==
    /\ AllNamed(ipa)
    /\ TrxConnNum = Cardinality({t \in Trxs : TrxConnMap[t] # None})
    /\ \A t \in Trxs : LinkOf(t)
    /\ main = "running" => rfInd = Trxs

Rqd(h) == [t |-> "RQD", ra |-> RaOf[h]]
ChanRqdOf(h) == [t |-> "CHAN_RQD", ra |-> RaOf[h]]
Activ(h) == [t |-> "CHAN_ACTIV", lchan |-> ChanOf[h]]
Rel(h) == [t |-> "CHAN_REL", lchan |-> ChanOf[h]]

\* The entries of h, and when it has them.
Own(h) == [comp |-> h, lchan |-> ChanOf[h], ra |-> None]
Request(h) == [comp |-> h, lchan |-> None, ra |-> RaOf[h]]
HasEntry(e) == \E i \in 1 .. Slots : ConnectionTable[i] = e

Registered(h) ==
    \/ stage[h] \notin {"idle", "done"} /\ call[h] = Idle
    \/ stage[h] = "done" /\ call[h].op = "unregister"

Expecting(h) == stage[h] \in {"announced", "accessing"}
Using(h) == stage[h] \in {"activating", "active", "releasing"}
Gone(h) == stage[h] = "idle" \/ h \in ended

CallOf(h) ==
    /\ call[h] \in {Idle, [op |-> "register", lchan |-> ChanOf[h]],
                    [op |-> "unregister", lchan |-> ChanOf[h]]}
    /\ call[h].op = "register" => stage[h] = "registered"
    /\ call[h].op = "unregister" => stage[h] = "done"
    /\ h \in ended => stage[h] = "done" /\ call[h] = Idle

\* The announcement of h, its entry, and the CHANNEL REQUIRED it waits for
RequestOf(h) ==
    /\ Expecting(h) => h \in Callers /\ client[h] \in {<<>>, <<Rqd(h)>>}
    /\ HasEntry(Request(h)) =>
          Expecting(h) /\ client[h] = <<>> /\ ~In(inbox[h], ChanRqdOf(h))
    /\ In(ipa, ChanRqdOf(h)) => stage[h] = "accessing" /\ ~In(inbox[h], ChanRqdOf(h))
    /\ In(inbox[h], ChanRqdOf(h)) => stage[h] = "accessing" /\ client[h] = <<>>
    /\ Once(ipa, ChanRqdOf(h)) /\ Once(inbox[h], ChanRqdOf(h))
    /\ Prompt /\ stage[h] = "announced" /\ client[h] = <<>> => HasEntry(Request(h))
    /\ Prompt /\ In(ipa, ChanRqdOf(h)) => HasEntry(Request(h))

\* One handler at a time has a channel.
Exclusive == \A g, h \in Hdlrs : g # h /\ ChanOf[g] = ChanOf[h] => Gone(g) \/ Gone(h)

\* The table has an entry for each channel in use, one for some of the announced
\* random accesses, and no other.
Entered ==
    /\ \A i \in 1 .. Slots :
          \/ ConnectionTable[i] = Free
          \/ \E h \in Hdlrs : ConnectionTable[i] = Own(h) /\ Registered(h)
          \/ \E h \in Hdlrs : ConnectionTable[i] = Request(h)
    /\ \A i, j \in 1 .. Slots :
          ConnectionTable[i] = ConnectionTable[j] /\ ConnectionTable[i] # Free => i = j
    /\ \A h \in Hdlrs : Registered(h) => HasEntry(Own(h))

TableInv ==
    /\ dchan_suspended = FALSE
    /\ \A h \in Hdlrs : CallOf(h)
    /\ \A h \in Hdlrs : RequestOf(h)
    /\ Exclusive
    /\ \A h \in Hdlrs : stage[h] # "idle" => main = "running"
    /\ Entered

\* How far the release of the channel of h has come: RF CHAN REL to be sent, on
\* its way, acknowledged, the acknowledgement delivered.
RelAck(h) == Dr(ChanOf[h], "rel_ack")
IutRel(h) == [t |-> "CHAN_REL", lchan |-> ChanOf[h], trx |-> TrxOf[ChanOf[h]]]
ToRelease(h) ==
    /\ Closed(client[h], ChanOf[h], Rel(h))
    /\ ~In(iut, IutRel(h)) /\ ~In(ipa, RelAck(h)) /\ ~In(inbox[h], RelAck(h))
InRelease(h) ==
    /\ client[h] = <<>>
    /\ Closed(iut, ChanOf[h], IutRel(h))
    /\ ~In(ipa, RelAck(h)) /\ ~In(inbox[h], RelAck(h))
Acknowledged(h) ==
    /\ client[h] = <<>> /\ Silent(iut, ChanOf[h]) /\ ChanOf[h] \notin bts
    /\ Closed(ipa, ChanOf[h], RelAck(h))
    /\ ~In(inbox[h], RelAck(h))
Answered(h) ==
    /\ client[h] = <<>> /\ Silent(iut, ChanOf[h]) /\ ChanOf[h] \notin bts
    /\ Silent(ipa, ChanOf[h])
    /\ Closed(inbox[h], ChanOf[h], RelAck(h))

ReleaseOf(h) ==
    stage[h] = "releasing" => ToRelease(h) \/ InRelease(h) \/ Acknowledged(h) \/ Answered(h)

\* A message of channel c is of a handler that uses it.
UsedBy(c, m) ==
    \E h \in Hdlrs : ChanOf[h] = c /\ Using(h) /\ (m \in {"CHAN_REL", "rel_ack"} => stage[h] = "releasing")

ClientOf(h) ==
    \A m \in Elems(client[h]) :
        \/ Expecting(h) /\ m = Rqd(h)
        \/ Using(h) /\ m = Activ(h)
        \/ stage[h] = "releasing" /\ m = Rel(h)
IutUsed ==
    \A m \in Elems(iut) :
        /\ m.t \in {"CHAN_ACTIV", "CHAN_REL"} /\ m.trx = TrxOf[m.lchan]
        /\ UsedBy(m.lchan, m.t)
IpaUsed == \A m \in Elems(ipa) : m.t = "DR" => UsedBy(m.lchan, m.what)
InboxOf(h) ==
    \A m \in Elems(inbox[h]) :
        \/ m = ChanRqdOf(h)
        \/ /\ m.t = "DR" /\ m.lchan = ChanOf[h]
           /\ Using(h) /\ (m.what = "rel_ack" => stage[h] = "releasing")
BtsUsed == \A c \in bts : \E h \in Hdlrs : ChanOf[h] = c /\ Using(h)

ChannelInv ==
    /\ \A h \in Hdlrs : ClientOf(h) /\ InboxOf(h) /\ ReleaseOf(h)
    /\ IutUsed /\ IpaUsed /\ BtsUsed

\* What handlers send, and what is on its way to the BTS
ClientMessages == [t : {"RQD"}, ra : Ras] \cup [t : {"CHAN_ACTIV", "CHAN_REL"}, lchan : Lchans]
IutMessages == [t : {"CHAN_ACTIV", "CHAN_REL"}, lchan : Lchans, trx : Trxs]
MainMessages == Messages \cup [t : {"TRX_UP", "TRX_DOWN"}, trx : Trxs]
Types ==
    /\ ConnectionTable \in [1 .. Slots -> {e \in Entries : Owned(e)}]
    /\ TrxConnMap \in [Trxs -> Conns \cup {None}]
    /\ ipa \in Seq(Messages)
    /\ client \in [Hdlrs -> Seq(ClientMessages)]
    /\ call \in [Hdlrs -> Calls \cup {Idle}]
    /\ inbox \in [Hdlrs -> Seq(Messages)]
    /\ cchan \in Seq(MainMessages)
    /\ iut \in Seq(IutMessages)
    /\ ended \subseteq Hdlrs
    /\ outcome \in {"running", "failed"}
    /\ link \in [Trxs -> Links]
    /\ bts \subseteq Lchans
    /\ main \in {"init", "running", "failed"}
    /\ trxUp \subseteq Trxs /\ rfInd \subseteq Trxs
    /\ stage \in [Hdlrs -> Stages]

BtsInv == Types /\ LinksInv /\ TableInv /\ ChannelInv

-----------------------------------------------------------------------------
(* What a queue is after a message was put into it or taken from it. *)

LEMMA Appended ==
  ASSUME NEW S, NEW s \in Seq(S), NEW m \in S
  PROVE  /\ Append(s, m) \in Seq(S)
         /\ Len(Append(s, m)) = Len(s) + 1 /\ Len(s) \in Nat
         /\ Append(s, m)[Len(s) + 1] = m
         /\ \A i \in Indices(s) : Append(s, m)[i] = s[i]
         /\ \A i \in Indices(Append(s, m)) : i \in Indices(s) \/ i = Len(s) + 1
  BY DEF Indices

LEMMA Taken ==
  ASSUME NEW S, NEW s \in Seq(S), s # <<>>
  PROVE  /\ Head(s) \in S /\ Head(s) = s[1] /\ 1 \in Indices(s)
         /\ Tail(s) \in Seq(S) /\ Len(Tail(s)) = Len(s) - 1 /\ Len(s) \in Nat
         /\ \A i \in Indices(Tail(s)) : i + 1 \in Indices(s) /\ Tail(s)[i] = s[i + 1]
         /\ \A i \in Indices(s) : i = 1 \/ (i - 1 \in Indices(Tail(s)) /\ Tail(s)[i - 1] = s[i])
  BY DEF Indices

LEMMA InAppended ==
  ASSUME NEW S, NEW s \in Seq(S), NEW m \in S
  PROVE  \A a : In(Append(s, m), a) <=> (In(s, a) \/ a = m)
<1> DEFINE r == Append(s, m)
<1>1. /\ Len(r) = Len(s) + 1 /\ Len(s) \in Nat
      /\ r[Len(s) + 1] = m
      /\ \A i \in Indices(s) : r[i] = s[i]
      /\ \A i \in Indices(r) : i \in Indices(s) \/ i = Len(s) + 1
  BY Appended DEF Indices
<1> HIDE DEF r
<1>2. (\A i \in Indices(s) : i \in Indices(r)) /\ Len(s) + 1 \in Indices(r)
  BY <1>1 DEF Indices
<1> QED  BY <1>1, <1>2 DEF In, r

LEMMA InTaken ==
  ASSUME NEW S, NEW s \in Seq(S), s # <<>>
  PROVE  /\ In(s, Head(s))
         /\ \A a : In(Tail(s), a) => In(s, a)
         /\ \A a : In(s, a) => In(Tail(s), a) \/ a = Head(s)
<1> DEFINE r == Tail(s)
<1>1. /\ Head(s) = s[1] /\ 1 \in Indices(s)
      /\ \A i \in Indices(r) : i + 1 \in Indices(s) /\ r[i] = s[i + 1]
      /\ \A i \in Indices(s) : i = 1 \/ (i - 1 \in Indices(r) /\ r[i - 1] = s[i])
  BY Taken
<1> HIDE DEF r
<1> QED  BY <1>1 DEF In, r

LEMMA OnceAppended ==
  ASSUME NEW S, NEW s \in Seq(S), NEW m \in S
  PROVE  \A a : Once(s, a) /\ (a = m => ~In(s, a)) => Once(Append(s, m), a)
<1> DEFINE r == Append(s, m)
<1>1. /\ r[Len(s) + 1] = m
      /\ \A i \in Indices(s) : r[i] = s[i]
      /\ \A i \in Indices(r) : i \in Indices(s) \/ i = Len(s) + 1
  BY Appended DEF Indices
<1> HIDE DEF r
<1> QED  BY <1>1 DEF In, Once, r

LEMMA OnceTaken ==
  ASSUME NEW S, NEW s \in Seq(S), s # <<>>
  PROVE  /\ \A a : Once(s, a) => Once(Tail(s), a)
         /\ Once(s, Head(s)) => ~In(Tail(s), Head(s))
<1> DEFINE r == Tail(s)
<1>1. /\ Head(s) = s[1] /\ 1 \in Indices(s)
      /\ \A i \in Indices(r) : i + 1 \in Indices(s) /\ r[i] = s[i + 1] /\ i \in Nat \ {0}
  BY Taken DEF Indices
<1> HIDE DEF r
<1>2. \A i, j \in Indices(r) : i + 1 = j + 1 => i = j
  BY <1>1
<1>3. \A i \in Indices(r) : i + 1 # 1
  BY <1>1
<1> QED  BY <1>1, <1>2, <1>3 DEF In, Once, r

LEMMA BeforeAppended ==
  ASSUME NEW S, NEW s \in Seq(S), NEW m \in S
  PROVE  \A a, b : Before(s, a, b) /\ (a = m => b # m /\ ~In(s, b)) => Before(Append(s, m), a, b)
<1> DEFINE r == Append(s, m)
<1>1. /\ r[Len(s) + 1] = m
      /\ \A i \in Indices(s) : r[i] = s[i] /\ i < Len(s) + 1
      /\ \A i \in Indices(r) : i \in Indices(s) \/ i = Len(s) + 1
  BY Appended DEF Indices
<1> HIDE DEF r
<1> QED  BY <1>1 DEF In, Before, r

LEMMA BeforeTaken ==
  ASSUME NEW S, NEW s \in Seq(S), s # <<>>
  PROVE  /\ \A a, b : Before(s, a, b) => Before(Tail(s), a, b)
         /\ \A a : Before(s, a, Head(s)) => ~In(s, a)
<1> DEFINE r == Tail(s)
<1>1. /\ Head(s) = s[1] /\ 1 \in Indices(s)
      /\ \A i \in Indices(r) : i + 1 \in Indices(s) /\ r[i] = s[i + 1] /\ i \in Nat
      /\ \A i \in Indices(s) : ~(i < 1)
  BY Taken DEF Indices
<1> HIDE DEF r
<1>2. \A i, j \in Indices(r) : i + 1 < j + 1 => i < j
  BY <1>1
<1> QED  BY <1>1, <1>2 DEF In, Before, r

LEMMA SilentAppended ==
  ASSUME NEW S, NEW s \in Seq(S), NEW m \in S
  PROVE  \A c : Silent(s, c) /\ ~About(m, c) => Silent(Append(s, m), c)
<1> DEFINE r == Append(s, m)
<1>1. /\ r[Len(s) + 1] = m
      /\ \A i \in Indices(s) : r[i] = s[i]
      /\ \A i \in Indices(r) : i \in Indices(s) \/ i = Len(s) + 1
  BY Appended DEF Indices
<1> HIDE DEF r
<1> QED  BY <1>1 DEF Silent, r

LEMMA SilentTaken ==
  ASSUME NEW S, NEW s \in Seq(S), s # <<>>
  PROVE  \A c : Silent(s, c) => Silent(Tail(s), c) /\ ~About(Head(s), c)
  BY Taken DEF Silent

LEMMA ClosedAppended ==
  ASSUME NEW S, NEW s \in Seq(S), NEW m \in S
  PROVE  \A c, a : Closed(s, c, a) /\ (In(s, a) => ~About(m, c)) => Closed(Append(s, m), c, a)
<1> DEFINE r == Append(s, m)
<1>1. /\ r[Len(s) + 1] = m
      /\ \A i \in Indices(s) : r[i] = s[i] /\ i <= Len(s) + 1
      /\ \A i \in Indices(r) : i \in Indices(s) \/ i = Len(s) + 1
      /\ Len(s) + 1 <= Len(s) + 1
  BY Appended DEF Indices
<1> HIDE DEF r
<1> QED  BY <1>1 DEF In, Closed, r

LEMMA ClosedTaken ==
  ASSUME NEW S, NEW s \in Seq(S), s # <<>>
  PROVE  /\ \A c, a : Closed(s, c, a) => Closed(Tail(s), c, a)
         /\ \A c : Closed(s, c, Head(s)) => Silent(Tail(s), c)
<1> DEFINE r == Tail(s)
<1>1. /\ Head(s) = s[1] /\ 1 \in Indices(s)
      /\ \A i \in Indices(r) : i + 1 \in Indices(s) /\ r[i] = s[i + 1] /\ i \in Nat /\ ~(i + 1 <= 1)
  BY Taken DEF Indices
<1> HIDE DEF r
<1>2. \A i, j \in Indices(r) : i + 1 <= j + 1 => i <= j
  BY <1>1
<1> QED  BY <1>1, <1>2 DEF Closed, Silent, r

\* What is not in a queue is not followed by anything there.
LEMMA ClosedWithout ==
  ASSUME NEW s, NEW c, NEW a, ~In(s, a)
  PROVE  Closed(s, c, a)
  BY DEF Closed, In

-----------------------------------------------------------------------------
(* The table. *)

\* The first of some slots is one of them.
LEMMA FirstIn ==
  ASSUME NEW S \in SUBSET Nat, S # {}
  PROVE  First(S) \in S
<1>1. PICK x \in S : \A y \in S : ~(<<y, x>> \in OpToRel(<, Nat))
  BY NatLessThanWellFounded, WFMin, Zenon
<1>2. ASSUME NEW y \in S PROVE x <= y
  <2>1. ~(y < x)
    BY <1>1 DEF OpToRel
  <2> QED  BY <2>1
<1> QED  BY <1>1, <1>2 DEF First

\* The slots that a lookup or a new entry takes are in the table.
LEMMA SlotsIn ==
  /\ FreeSlots # {} => First(FreeSlots) \in FreeSlots
  /\ \A h : SlotsOfComp(h) # {} => First(SlotsOfComp(h)) \in SlotsOfComp(h)
  /\ \A c : SlotsOfLchan(c) # {} => First(SlotsOfLchan(c)) \in SlotsOfLchan(c)
  /\ \A r : SlotsOfRa(r) # {} => First(SlotsOfRa(r)) \in SlotsOfRa(r)
<1>1. /\ FreeSlots \in SUBSET Nat
      /\ \A h : SlotsOfComp(h) \in SUBSET Nat
      /\ \A c : SlotsOfLchan(c) \in SUBSET Nat
      /\ \A r : SlotsOfRa(r) \in SUBSET Nat
  BY RSLAssumption DEF FreeSlots, SlotsOfComp, SlotsOfLchan, SlotsOfRa
<1> QED  BY <1>1, FirstIn

-----------------------------------------------------------------------------
(* Types. *)

LEMMA InitTypes == Init => Types
  BY RSLAssumption, RSLBtsAssumption
  DEF Init, RSLInit, Types, Free, Entries, Owned, Calls, Idle, Links, Stages

\* A message handed to a handler keeps the types of the inboxes.
LEMMA DeliverTypes ==
  ASSUME Types, NEW h, NEW m \in Messages, Deliver(h, m)
  PROVE  inbox' \in [Hdlrs -> Seq(Messages)]
<1>1. inbox \in [Hdlrs -> Seq(Messages)] /\ inbox' = [inbox EXCEPT ![h] = Append(@, m)]
  BY DEF Types, Deliver
<1>2. \A s \in Seq(Messages) : Append(s, m) \in Seq(Messages)
  OBVIOUS
<1> HIDE DEF Messages
<1> QED  BY <1>1, <1>2

\* A cleared slot, a filled one
LEMMA ClearTypes ==
  ASSUME Types, NEW i
  PROVE  Clear(i) => ConnectionTable' \in [1 .. Slots -> {e \in Entries : Owned(e)}]
<1>1. Free \in {e \in Entries : Owned(e)}
  BY DEF Free, Entries, Owned
<1> QED  BY <1>1 DEF Types, Clear

LEMMA CreateTypes ==
  ASSUME Types, NEW e \in Entries, Owned(e)
  PROVE  Create(e) => ConnectionTable' \in [1 .. Slots -> {f \in Entries : Owned(f)}]
  BY DEF Types, Create

LEMMA RouteTypes ==
  ASSUME Types, Route, UNCHANGED <<btsVars, suiteVars>>
  PROVE  Types'
<1> USE DEF btsVars, suiteVars
<1>1. PICK m : m \in {ipa[i] : i \in DOMAIN ipa \cap {1}} /\ FromLink(m)
  BY DEF Route
<1>2. /\ m \in Messages /\ m \in MainMessages
      /\ ipa # <<>> => Tail(ipa) \in Seq(Messages)
      /\ Append(cchan, m) \in Seq(MainMessages)
  BY <1>1 DEF Types, MainMessages
<1>3. CASE LinkEstablished(m)
  BY <1>2, <1>3 DEF LinkEstablished, Take, Dispatcher, Running, Types, tables, trxMap, queueing
<1>4. CASE LinkIdentified(m)
  <2>1. m.trx \in Trxs /\ m.conn \in Conns
    BY <1>2, <1>4 DEF LinkIdentified, Take, Messages
  <2>2. Append(cchan, [t |-> "TRX_UP", trx |-> m.trx]) \in Seq(MainMessages)
    BY <2>1 DEF Types, MainMessages
  <2> QED  BY <1>2, <1>4, <2>1, <2>2
      DEF LinkIdentified, Take, Dispatcher, Running, Types, tables, queueing, TrxUpEvent
<1>5. CASE LinkLost(m)
  <2>1. PICK t \in Trxs : /\ TrxConnMap' = Unregistered(t)
                          /\ cchan' = Append(cchan, [t |-> "TRX_DOWN", trx |-> t])
    BY <1>5 DEF LinkLost, TrxsOn
  <2>2. Append(cchan, [t |-> "TRX_DOWN", trx |-> t]) \in Seq(MainMessages)
    BY DEF Types, MainMessages
  <2> QED  BY <1>2, <1>5, <2>1, <2>2
      DEF LinkLost, Take, Dispatcher, Running, Types, tables, queueing, Unregistered
<1>6. CASE ImmAss(m) \/ ImmAssRej(m) \/ ChanActiv(m)
  BY <1>6, RSLBtsAssumption DEF ImmAss, ImmAssRej, ChanActiv, Take, Messages
<1>7. CASE ChanRqd(m)
  <2>1. inbox' \in [Hdlrs -> Seq(Messages)]
    BY <1>2, <1>7, DeliverTypes DEF ChanRqd, Types
  <2>2. ConnectionTable' \in [1 .. Slots -> {e \in Entries : Owned(e)}]
    BY <1>7, ClearTypes DEF ChanRqd, Types
  <2> QED  BY <1>2, <1>7, <2>1, <2>2
      DEF ChanRqd, Take, Dispatcher, Running, Types, trxMap, queueing
<1>8. CASE CommonChannel(m)
  BY <1>2, <1>8 DEF CommonChannel, Forwarded, Take, Dispatcher, Running, Types, tables, trxMap, queueing
<1>9. CASE ToHandler(m)
  <2>1. inbox' \in [Hdlrs -> Seq(Messages)]
    BY <1>2, <1>9, DeliverTypes DEF ToHandler
  <2> QED  BY <1>2, <1>9, <2>1
      DEF ToHandler, Take, Dispatcher, Running, Types, tables, trxMap, queueing
<1>10. CASE ToWaitingQueue(m)
  BY <1>2, <1>10 DEF ToWaitingQueue, Take, Dispatcher, Running, Types, tables, trxMap
<1>11. CASE LinkFails(m)
  BY <1>11 DEF LinkFails, Dispatcher, Fail, Types, tables, trxMap, queueing
<1> QED  BY <1>1, <1>3, <1>4, <1>5, <1>6, <1>7, <1>8, <1>9, <1>10, <1>11 DEF FromLink

LEMMA ClientTypes ==
  ASSUME Types, NEW h \in Hdlrs, CallOf(h), FromClient(h) \/ Serve(h),
         UNCHANGED <<btsVars, suiteVars>>
  PROVE  Types'
<1> USE DEF btsVars, suiteVars
<1>1. CASE ClientRqd(h)
  <2>1. Head(client[h]) \in ClientMessages /\ Tail(client[h]) \in Seq(ClientMessages)
    BY <1>1 DEF ClientRqd, FromHandler, Types
  <2>2. Head(client[h]).ra \in Ras
    BY <1>1, <2>1 DEF ClientRqd, ClientMessages
  <2>3. /\ [comp |-> h, lchan |-> None, ra |-> Head(client[h]).ra] \in Entries
        /\ Owned([comp |-> h, lchan |-> None, ra |-> Head(client[h]).ra])
    BY <2>2, RSLAssumption DEF Entries, Owned
  <2>4. ConnectionTable' \in [1 .. Slots -> {f \in Entries : Owned(f)}]
    BY <1>1, <2>3, CreateTypes DEF ClientRqd
  <2> QED  BY <1>1, <2>1, <2>4, RSLBtsAssumption
      DEF ClientRqd, FromHandler, Dispatcher, Running, Types, trxMap, queueing
<1>2. CASE ClientMsg(h)
  <2>1. Head(client[h]) \in ClientMessages /\ Tail(client[h]) \in Seq(ClientMessages)
    BY <1>2 DEF ClientMsg, FromHandler, Types
  <2>2. LchanOfComp(h) \in Lchans
    <3>1. First(SlotsOfComp(h)) \in 1 .. Slots /\ LchanOfComp(h) # None
      BY <1>2, SlotsIn DEF ClientMsg, CanSend, LinkUpFor, SlotsOfComp
    <3> QED  BY <3>1 DEF LchanOfComp, Types, Entries
  <2>3. [t |-> Head(client[h]).t, lchan |-> Head(client[h]).lchan,
         trx |-> TrxOf[LchanOfComp(h)]] \in IutMessages
    BY <1>2, <2>1, <2>2, RSLAssumption DEF ClientMsg, ClientMessages, IutMessages
  <2> QED  BY <1>2, <2>1, <2>3
      DEF ClientMsg, FromHandler, Dispatcher, Running, Types, trxMap, queueing
<1>3. CASE ClientFails(h)
  BY <1>3 DEF ClientFails, Dispatcher, Fail, Types, tables, trxMap, queueing
<1>4. Idle \in Calls \cup {Idle} /\ call[h] \in Calls \cup {Idle}
  BY DEF Types
<1>5. CASE RSLEM_register(h)
  <2>1. CASE FreeSlots = {}
    BY <1>5, <2>1 DEF RSLEM_register, Getcall, Dispatcher, Fail, Types, tables, trxMap, queueing
  <2>2. CASE FreeSlots # {}
    <3>1. call[h].lchan \in Lchans
      BY <1>5, RSLBtsAssumption DEF RSLEM_register, Getcall, CallOf, Idle
    <3>2. /\ [comp |-> h, lchan |-> call[h].lchan, ra |-> None] \in Entries
          /\ Owned([comp |-> h, lchan |-> call[h].lchan, ra |-> None])
      BY <3>1, RSLAssumption DEF Entries, Owned
    <3>3. ConnectionTable' \in [1 .. Slots -> {f \in Entries : Owned(f)}]
      BY <1>5, <2>2, <3>2, CreateTypes DEF RSLEM_register
    <3> QED  BY <1>4, <1>5, <2>2, <3>3
        DEF RSLEM_register, Getcall, Dispatcher, Reply, Running, Types, trxMap, queueing
  <2> QED  BY <2>1, <2>2
<1>6. CASE RSLEM_unregister(h)
  <2>1. ConnectionTable' \in [1 .. Slots -> {e \in Entries : Owned(e)}]
    BY <1>6, ClearTypes DEF RSLEM_unregister, Fail, Types, tables
  <2> QED  BY <1>4, <1>6, <2>1
      DEF RSLEM_unregister, Getcall, Dispatcher, Reply, Fail, Running, Types, tables, trxMap, queueing
<1>7. call[h].op \in {"none", "register", "unregister"}
  BY DEF CallOf, Idle
<1> QED  BY <1>1, <1>2, <1>3, <1>5, <1>6, <1>7
    DEF FromClient, Serve, RSLEM_suspend, WaitQueueEnable, WaitQueueDispatch, RSLEM_get_last_act,
        Getcall

LEMMA BtsTypes ==
  ASSUME Types,
         \/ \E t \in Trxs : Connect(t) \/ Identify(t) \/ RfResInd(t) \/ LinkCloses(t)
         \/ BtsReacts
         \/ \E c \in Lchans : BtsSends(c)
         \/ \E r \in Ras : MainAccess(r)
         \/ MainStep
  PROVE  Types'
<1> USE RSLBtsAssumption DEF Types, BtsStep, btsVars, suiteVars, tables, trxMap, queueing
<1>1. ASSUME NEW t \in Trxs, Connect(t) \/ Identify(t) \/ RfResInd(t) \/ LinkCloses(t)
      PROVE  Types'
  <2>1. PICK to \in Links, m \in Messages :
          link' = [link EXCEPT ![t] = to] /\ ipa' = Append(ipa, m)
    BY <1>1 DEF Connect, Identify, RfResInd, LinkCloses, LinkStep, Links, Messages
  <2>2. BtsStep /\ UNCHANGED <<bts, iut>>
    BY <1>1 DEF Connect, Identify, RfResInd, LinkCloses, LinkStep
  <2> QED  BY <2>1, <2>2
<1>2. CASE BtsReacts
  <2>1. Head(iut) \in IutMessages /\ Tail(iut) \in Seq(IutMessages)
    BY <1>2 DEF BtsReacts
  <2>2. /\ Dr(Head(iut).lchan, "act_ack") \in Messages
        /\ Dr(Head(iut).lchan, "rel_ack") \in Messages
        /\ Head(iut).lchan \in Lchans
    BY <2>1 DEF Dr, Messages, IutMessages
  <2> HIDE DEF Dr
  <2>3. /\ \A m \in Messages : Append(ipa, m) \in Seq(Messages)
        /\ UNCHANGED <<link, outcome, main, trxUp, rfInd, stage, ended, cchan, inbox, call, client,
                      TrxConnMap, ConnectionTable>>
    BY <1>2 DEF BtsReacts
  <2>4. iut' = Tail(iut) /\ \E m \in Messages : ipa' = Append(ipa, m)
    BY <1>2, <2>2 DEF BtsReacts
  <2>5. bts' \subseteq Lchans
    BY <1>2, <2>2 DEF BtsReacts
  <2> HIDE DEF Messages, IutMessages
  <2> QED  BY <2>1, <2>3, <2>4, <2>5
<1>3. ASSUME NEW c \in Lchans, BtsSends(c)
      PROVE  Types'
  <2>1. Dr(c, "data") \in Messages
    BY DEF Dr, Messages
  <2> QED  BY <1>3, <2>1 DEF BtsSends
<1>4. ASSUME NEW r \in Ras, MainAccess(r)
      PROVE  Types'
  <2>1. [t |-> "CHAN_RQD", ra |-> r] \in Messages
    BY DEF Messages
  <2> QED  BY <1>4, <2>1 DEF MainAccess
<1>5. CASE MainStep
  <2>1. /\ MainReads /\ main' \in {"init", "running", "failed"}
        /\ trxUp' \subseteq Trxs /\ rfInd' \subseteq Trxs
    <3>1. cchan # <<>> => Head(cchan) \in MainMessages
      OBVIOUS
    <3>2. CASE TrxUp
      BY <3>1, <3>2 DEF TrxUp, MainReads, MainMessages, Messages
    <3>3. CASE RfInd
      BY <3>1, <3>3 DEF RfInd, MainReads, MainMessages, Messages
    <3>4. CASE Later
      BY <3>4 DEF Later
    <3> QED  BY <1>5, <3>2, <3>3, <3>4 DEF MainStep
  <2> QED  BY <2>1 DEF MainReads
<1> QED  BY <1>1, <1>2, <1>3, <1>4, <1>5

LEMMA HandlerTypes ==
  ASSUME Types, NEW h \in Hdlrs, Handler(h)
  PROVE  Types'
<1> USE RSLBtsAssumption DEF Types
<1>1. CASE Finish(h)
  BY <1>1 DEF Finish, tables, trxMap, queueing, btsVars, suiteVars
<1>2. CASE ~Finish(h)
  <2>1. PICK to \in Stages :
          /\ stage' = [stage EXCEPT ![h] = to]
          /\ UNCHANGED <<tables, trxMap, queueing, cchan, iut, ended, outcome, btsVars,
                        main, trxUp, rfInd>>
    BY <1>2
    DEF Handler, Register, Announce, Access, Accessed, Activate, Activated, ReadData, Deactivate,
        Released, Step, Stages
  <2>2. ipa' \in Seq(Messages)
    <3>1. [t |-> "CHAN_RQD", ra |-> RaOf[h]] \in Messages
      BY DEF Messages
    <3>2. ipa' = ipa \/ ipa' = Append(ipa, [t |-> "CHAN_RQD", ra |-> RaOf[h]])
      BY <1>2
      DEF Handler, Register, Announce, Access, Accessed, Activate, Activated, ReadData, Deactivate,
          Released
    <3>3. \A m \in Messages : Append(ipa, m) \in Seq(Messages)
      OBVIOUS
    <3> HIDE DEF Messages
    <3> QED  BY <3>1, <3>2, <3>3
  <2>3. client' \in [Hdlrs -> Seq(ClientMessages)]
    <3>1. /\ [t |-> "RQD", ra |-> RaOf[h]] \in ClientMessages
          /\ [t |-> "CHAN_ACTIV", lchan |-> ChanOf[h]] \in ClientMessages
          /\ [t |-> "CHAN_REL", lchan |-> ChanOf[h]] \in ClientMessages
      BY DEF ClientMessages
    <3>2. client' = client \/ \E m \in ClientMessages : Sends(h, m)
      BY <1>2, <3>1
      DEF Handler, Register, Announce, Access, Accessed, Activate, Activated, ReadData, Deactivate,
          Released
    <3>3. \A m \in ClientMessages : Append(client[h], m) \in Seq(ClientMessages)
      OBVIOUS
    <3>4. CASE client' # client
      <4>1. PICK m \in ClientMessages : client' = [client EXCEPT ![h] = Append(client[h], m)]
        BY <3>2, <3>4 DEF Sends
      <4>2. Append(client[h], m) \in Seq(ClientMessages)
        BY <3>3
      <4> QED  BY <4>1, <4>2
    <3> QED  BY <3>4
  <2>4. call' \in [Hdlrs -> Calls \cup {Idle}]
    <3>1. call' = call \/ Asks(h, "register") \/ Asks(h, "unregister")
      BY <1>2
      DEF Handler, Register, Announce, Access, Accessed, Activate, Activated, ReadData, Deactivate,
          Released
    <3>2. /\ [op |-> "register", lchan |-> ChanOf[h]] \in Calls
          /\ [op |-> "unregister", lchan |-> ChanOf[h]] \in Calls
      BY DEF Calls, Ops
    <3>3. call' = call \/ \E c \in Calls : call' = [call EXCEPT ![h] = c]
      BY <3>1, <3>2, Zenon DEF Asks
    <3>4. CASE \E c \in Calls : call' = [call EXCEPT ![h] = c]
      <4>1. PICK c \in Calls : call' = [call EXCEPT ![h] = c]
        BY <3>4
      <4>2. call \in [Hdlrs -> Calls \cup {Idle}] /\ c \in Calls \cup {Idle}
        OBVIOUS
      <4> HIDE DEF Types
      <4> QED  BY <4>1, <4>2
    <3> QED  BY <3>3, <3>4
  <2>5. inbox' \in [Hdlrs -> Seq(Messages)]
    <3>1. inbox' = inbox \/ \E what : Reads(h, what)
      BY <1>2
      DEF Handler, Register, Announce, Access, Accessed, Activate, Activated, ReadData, Deactivate,
          Released
    <3>2. CASE \E what : Reads(h, what)
      <4>1. inbox[h] \in Seq(Messages) /\ inbox[h] # <<>> /\ inbox' = [inbox EXCEPT ![h] = Tail(@)]
        BY <3>2 DEF Reads
      <4>2. Tail(inbox[h]) \in Seq(Messages)
        BY <4>1
      <4> QED  BY <4>1, <4>2
    <3> QED  BY <3>1, <3>2
  <2> QED  BY <2>1, <2>2, <2>3, <2>4, <2>5 DEF tables, trxMap, btsVars
<1> QED  BY <1>1, <1>2

LEMMA StepTypes ==
  ASSUME Types, \A h \in Hdlrs : CallOf(h), [Next]_vars
  PROVE  Types'
<1>1. CASE Main /\ UNCHANGED <<btsVars, suiteVars>>
  BY <1>1, RouteTypes, ClientTypes DEF Main
<1>2. CASE UNCHANGED vars
  BY <1>2 DEF Types, vars, rslVars, tables, trxMap, queueing, btsVars, suiteVars
<1> QED  BY <1>1, <1>2, BtsTypes, HandlerTypes DEF Next

-----------------------------------------------------------------------------
(* The map follows the links. *)

LEMMA NamedAppended ==
  ASSUME NEW S, NEW s \in Seq(S), NEW m \in S, AllNamed(s), Named(m)
  PROVE  AllNamed(Append(s, m))
<1> DEFINE r == Append(s, m)
<1>1. /\ r[Len(s) + 1] = m
      /\ \A i \in Indices(s) : r[i] = s[i]
      /\ \A i \in Indices(r) : i \in Indices(s) \/ i = Len(s) + 1
  BY Appended DEF Indices
<1> HIDE DEF r
<1> QED  BY <1>1 DEF AllNamed, r

LEMMA NamedTaken ==
  ASSUME NEW S, NEW s \in Seq(S), s # <<>>, AllNamed(s)
  PROVE  AllNamed(Tail(s)) /\ Named(Head(s))
<1> DEFINE r == Tail(s)
<1>1. /\ Head(s) = s[1] /\ 1 \in Indices(s)
      /\ \A i \in Indices(r) : i + 1 \in Indices(s) /\ r[i] = s[i + 1]
  BY Taken
<1> HIDE DEF r
<1> QED  BY <1>1 DEF AllNamed, r

LEMMA InitLinks == Init => LinksInv
<1> SUFFICES ASSUME Init PROVE LinksInv
  OBVIOUS
<1>1. {t \in Trxs : TrxConnMap[t] # None} = {}
  BY DEF Init, RSLInit
<1>2. TrxConnNum = Cardinality({t \in Trxs : TrxConnMap[t] # None})
  BY <1>1, FS_EmptySet DEF Init, RSLInit
<1>3. Indices(ipa) = {} /\ Indices(cchan) = {}
  <2>1. Len(ipa) = 0 /\ Len(cchan) = 0
    BY DEF Init, RSLInit
  <2> QED  BY <2>1 DEF Indices
<1>4. \A t \in Trxs : TrxConnMap[t] = None /\ link[t] = "down" /\ t \notin rfInd
  BY DEF Init, RSLInit
<1>5. main = "init"
  BY DEF Init
<1> QED  BY <1>2, <1>3, <1>4, <1>5 DEF LinksInv, LinkOf, AllNamed, In, Once, Before

\* Nothing of a link changes.
LEMMA LinksRest ==
  ASSUME LinksInv, UNCHANGED <<ipa, TrxConnMap, TrxConnNum, link, cchan, rfInd, main>>
  PROVE  LinksInv'
<1>1. ASSUME NEW t \in Trxs PROVE LinkOf(t)'
  <2>1. LinkOf(t)
    BY DEF LinksInv
  <2> QED  BY <2>1 DEF LinkOf
<1> QED  BY <1>1 DEF LinksInv

\* A message that is no event of the links is put into IPA_PT ...
LEMMA LinksPut ==
  ASSUME Types, LinksInv, NEW m \in Messages, ipa' = Append(ipa, m),
         m.t \notin {"ID_RESP", "DOWN", "COMMON"},
         UNCHANGED <<TrxConnMap, TrxConnNum, link, cchan, rfInd, main>>
  PROVE  LinksInv'
<1>1. ipa \in Seq(Messages)
  BY DEF Types
<1>2. AllNamed(ipa')
  BY <1>1, NamedAppended DEF LinksInv, Named
<1>3. ASSUME NEW t \in Trxs PROVE LinkOf(t)'
  <2>1. m # IdResp(t) /\ m # Down(t) /\ m # RfRes(t)
    BY DEF IdResp, Down, RfRes
  <2>2. LinkOf(t)
    BY DEF LinksInv
  <2>3. /\ In(ipa', IdResp(t)) <=> In(ipa, IdResp(t))
        /\ In(ipa', Down(t)) <=> In(ipa, Down(t))
        /\ In(ipa', RfRes(t)) <=> In(ipa, RfRes(t))
    BY <1>1, <2>1, InAppended
  <2>4. /\ Once(ipa', IdResp(t))
        /\ Before(ipa', IdResp(t), Down(t)) /\ Before(ipa', IdResp(t), RfRes(t))
    BY <1>1, <2>1, <2>2, OnceAppended, BeforeAppended DEF LinkOf
  <2> HIDE DEF IdResp, Down, RfRes
  <2> QED  BY <2>2, <2>3, <2>4 DEF LinkOf
<1> QED  BY <1>2, <1>3 DEF LinksInv

\* ... or taken from it, and may be handed to the main component.
LEMMA LinksTake ==
  ASSUME Types, LinksInv, ipa # <<>>, ipa' = Tail(ipa),
         Head(ipa).t \notin {"ID_RESP", "DOWN"},
         \/ cchan' = cchan /\ Head(ipa).t # "COMMON"
         \/ cchan' = Append(cchan, Head(ipa)),
         UNCHANGED <<TrxConnMap, TrxConnNum, link, rfInd, main>>
  PROVE  LinksInv'
<1>1. ipa \in Seq(Messages) /\ Head(ipa) \in Messages /\ Head(ipa) \in MainMessages
      /\ cchan \in Seq(MainMessages)
  BY DEF Types, MainMessages
<1>2. AllNamed(ipa')
  BY <1>1, NamedTaken DEF LinksInv
<1>3. ASSUME NEW t \in Trxs PROVE LinkOf(t)'
  <2>1. Head(ipa) # IdResp(t) /\ Head(ipa) # Down(t)
    BY DEF IdResp, Down
  <2>2. LinkOf(t)
    BY DEF LinksInv
  <2>3. /\ In(ipa', IdResp(t)) <=> In(ipa, IdResp(t))
        /\ In(ipa', Down(t)) <=> In(ipa, Down(t))
        /\ In(ipa', RfRes(t)) => In(ipa, RfRes(t))
    BY <1>1, <2>1, InTaken
  <2>4. /\ Once(ipa', IdResp(t))
        /\ Before(ipa', IdResp(t), Down(t)) /\ Before(ipa', IdResp(t), RfRes(t))
    BY <1>1, <2>2, OnceTaken, BeforeTaken DEF LinkOf
  <2>5. In(cchan', RfRes(t)) => In(cchan, RfRes(t)) \/ Head(ipa) = RfRes(t)
    <3>1. CASE cchan' = Append(cchan, Head(ipa))
      BY <1>1, <3>1, InAppended
    <3> QED  BY <3>1
  <2>6. Head(ipa) = RfRes(t) => link[t] \in {"ready", "lost"} /\ ~In(ipa, IdResp(t))
    BY <1>1, <2>2, InTaken, BeforeTaken DEF LinkOf
  <2> HIDE DEF IdResp, Down, RfRes
  <2> QED  BY <2>2, <2>3, <2>4, <2>5, <2>6 DEF LinkOf
<1> QED  BY <1>2, <1>3 DEF LinksInv

\* ASP_IPA_EVENT_ID_RESP
LEMMA LinksIdentified ==
  ASSUME Types, LinksInv, NEW m, LinkIdentified(m), UNCHANGED <<btsVars, suiteVars>>
  PROVE  LinksInv'
<1>1. /\ ipa \in Seq(Messages) /\ ipa # <<>> /\ m \in Messages /\ m = Head(ipa)
      /\ m.t = "ID_RESP" /\ ipa' = Tail(ipa) /\ TrxConnMap[m.trx] = None
      /\ TrxConnMap' = [TrxConnMap EXCEPT ![m.trx] = m.conn]
      /\ TrxConnNum' = TrxConnNum + 1 /\ cchan' = Append(cchan, [t |-> "TRX_UP", trx |-> m.trx])
      /\ cchan \in Seq(MainMessages) /\ UNCHANGED <<link, rfInd, main>>
  BY DEF LinkIdentified, Take, Registers, TrxUpEvent, Types, btsVars, suiteVars
<1>2. m.trx \in Trxs /\ m.conn = ConnOf[m.trx] /\ m = IdResp(m.trx) /\ m.conn # None
  <2>1. m.trx \in Trxs /\ m.conn \in Conns /\ m = [t |-> "ID_RESP", trx |-> m.trx, conn |-> m.conn]
    BY <1>1 DEF Messages
  <2>2. m.conn = ConnOf[m.trx]
    BY <1>1, NamedTaken DEF LinksInv, Named
  <2> QED  BY <2>1, <2>2, RSLAssumption DEF IdResp
<1>3. [t |-> "TRX_UP", trx |-> m.trx] \in MainMessages
  BY <1>2 DEF MainMessages
<1>4. AllNamed(ipa')
  BY <1>1, NamedTaken DEF LinksInv
<1>5. TrxConnNum' = Cardinality({t \in Trxs : TrxConnMap'[t] # None})
  <2> DEFINE S == {t \in Trxs : TrxConnMap[t] # None}
  <2>1. {t \in Trxs : TrxConnMap'[t] # None} = S \cup {m.trx} /\ m.trx \notin S
    BY <1>1, <1>2 DEF Types
  <2>2. IsFiniteSet(S) /\ TrxConnNum = Cardinality(S)
    BY RSLAssumption, FS_Subset DEF LinksInv
  <2> HIDE DEF S
  <2> QED  BY <1>1, <2>1, <2>2, FS_AddElement
<1>6. ASSUME NEW t \in Trxs PROVE LinkOf(t)'
  <2>1. LinkOf(t) /\ (t # m.trx => Head(ipa) # IdResp(t)) /\ Head(ipa) # Down(t)
        /\ Head(ipa) # RfRes(t)
    BY <1>1, <1>2 DEF LinksInv, IdResp, Down, RfRes
  <2>2. /\ In(ipa', IdResp(t)) => t # m.trx /\ In(ipa, IdResp(t))
        /\ t # m.trx => (In(ipa, IdResp(t)) => In(ipa', IdResp(t)))
        /\ In(ipa', Down(t)) <=> In(ipa, Down(t))
        /\ In(ipa', RfRes(t)) <=> In(ipa, RfRes(t))
    <3>1. Once(ipa, IdResp(t))
      BY <2>1 DEF LinkOf
    <3>2. t = m.trx => ~In(ipa', IdResp(t))
      BY <1>1, <1>2, <3>1, OnceTaken
    <3> HIDE DEF IdResp, Down, RfRes
    <3> QED  BY <1>1, <2>1, <3>2, InTaken
  <2>3. /\ Once(ipa', IdResp(t))
        /\ Before(ipa', IdResp(t), Down(t)) /\ Before(ipa', IdResp(t), RfRes(t))
    BY <1>1, <2>1, OnceTaken, BeforeTaken DEF LinkOf
  <2>4. In(cchan', RfRes(t)) => In(cchan, RfRes(t))
    BY <1>1, <1>3, InAppended DEF RfRes
  <2>5. /\ t = m.trx => /\ In(ipa, IdResp(t)) /\ TrxConnMap'[t] = ConnOf[t] /\ ConnOf[t] # None
                       /\ link[t] \in {"identified", "ready", "lost"}
        /\ t # m.trx => TrxConnMap'[t] = TrxConnMap[t]
    BY <1>1, <1>2, <2>1, InTaken DEF Types, LinkOf
  <2>6. t = m.trx /\ link[t] = "lost" => In(ipa', Down(t))
    BY <2>1, <2>2, <2>5 DEF LinkOf
  <2> HIDE DEF IdResp, Down, RfRes
  <2> QED  BY <1>1, <2>1, <2>2, <2>3, <2>4, <2>5, <2>6 DEF LinkOf
<1> QED  BY <1>1, <1>4, <1>5, <1>6 DEF LinksInv

\* ASP_IPA_EVENT_DOWN
LEMMA LinksLost ==
  ASSUME Types, LinksInv, NEW m, LinkLost(m), UNCHANGED <<btsVars, suiteVars>>
  PROVE  LinksInv'
<1>1. /\ ipa \in Seq(Messages) /\ ipa # <<>> /\ m \in Messages /\ m = Head(ipa)
      /\ m.t = "DOWN" /\ ipa' = Tail(ipa)
      /\ TrxConnNum' = TrxConnNum - 1
      /\ cchan \in Seq(MainMessages) /\ UNCHANGED <<link, rfInd, main>>
  BY DEF LinkLost, Take, Types, btsVars, suiteVars
<1>2. PICK u \in Trxs : /\ TrxConnMap[u] = m.conn
                        /\ TrxConnMap' = [TrxConnMap EXCEPT ![u] = None]
                        /\ cchan' = Append(cchan, [t |-> "TRX_DOWN", trx |-> u])
  BY DEF LinkLost, TrxsOn, Unregistered
<1>3. m = Down(u) /\ TrxConnMap[u] # None
  <2>1. m.conn \in Conns /\ m = [t |-> "DOWN", conn |-> m.conn]
    BY <1>1 DEF Messages
  <2>2. TrxConnMap[u] \in {None, ConnOf[u]}
    BY DEF LinksInv, LinkOf
  <2> QED  BY <1>2, <2>1, <2>2, RSLAssumption DEF Down
<1>4. [t |-> "TRX_DOWN", trx |-> u] \in MainMessages
  BY DEF MainMessages
<1>5. AllNamed(ipa')
  BY <1>1, NamedTaken DEF LinksInv
<1>6. TrxConnNum' = Cardinality({t \in Trxs : TrxConnMap'[t] # None})
  <2> DEFINE S == {t \in Trxs : TrxConnMap[t] # None}
  <2>1. {t \in Trxs : TrxConnMap'[t] # None} = S \ {u} /\ u \in S
    BY <1>2, <1>3 DEF Types
  <2>2. IsFiniteSet(S) /\ TrxConnNum = Cardinality(S)
    BY RSLAssumption, FS_Subset DEF LinksInv
  <2> HIDE DEF S
  <2> QED  BY <1>1, <2>1, <2>2, FS_RemoveElement
<1>7. ASSUME NEW t \in Trxs PROVE LinkOf(t)'
  <2>1. /\ LinkOf(t) /\ Head(ipa) # IdResp(t) /\ Head(ipa) # RfRes(t)
        /\ t # u => Head(ipa) # Down(t)
    BY <1>1, <1>3, RSLBtsAssumption DEF LinksInv, IdResp, Down, RfRes
  <2>2. /\ In(ipa', IdResp(t)) <=> In(ipa, IdResp(t))
        /\ In(ipa', Down(t)) => In(ipa, Down(t))
        /\ t # u => (In(ipa, Down(t)) => In(ipa', Down(t)))
        /\ In(ipa', RfRes(t)) <=> In(ipa, RfRes(t))
    BY <1>1, <2>1, InTaken
  <2>3. /\ Once(ipa', IdResp(t))
        /\ Before(ipa', IdResp(t), Down(t)) /\ Before(ipa', IdResp(t), RfRes(t))
    BY <1>1, <2>1, OnceTaken, BeforeTaken DEF LinkOf
  <2>4. In(cchan', RfRes(t)) => In(cchan, RfRes(t))
    BY <1>1, <1>2, <1>4, InAppended DEF RfRes
  <2>5. /\ t = u => /\ In(ipa, Down(t)) /\ ~In(ipa, IdResp(t)) /\ link[t] = "lost"
                   /\ TrxConnMap'[t] = None
        /\ t # u => TrxConnMap'[t] = TrxConnMap[t]
    BY <1>1, <1>2, <1>3, <2>1, InTaken, BeforeTaken DEF Types, LinkOf
  <2> HIDE DEF IdResp, Down, RfRes
  <2> QED  BY <1>1, <2>1, <2>2, <2>3, <2>4, <2>5 DEF LinkOf
<1> QED  BY <1>1, <1>5, <1>6, <1>7 DEF LinksInv, Named

\* Another step of a link, with the event it sends
LEMMA LinksStep ==
  ASSUME Types, LinksInv, NEW u \in Trxs,
         Connect(u) \/ Identify(u) \/ RfResInd(u) \/ LinkCloses(u)
  PROVE  LinksInv'
<1>1. PICK m \in {[t |-> "UP", conn |-> ConnOf[u]], IdResp(u), RfRes(u), Down(u)} :
        /\ ipa' = Append(ipa, m)
        /\ \/ m.t = "UP" /\ link[u] = "down" /\ link' = [link EXCEPT ![u] = "up"]
           \/ m.t = "ID_RESP" /\ link[u] = "up" /\ link' = [link EXCEPT ![u] = "identified"]
           \/ m.t = "COMMON" /\ link[u] = "identified" /\ link' = [link EXCEPT ![u] = "ready"]
           \/ /\ m.t = "DOWN" /\ link[u] \in {"up", "identified", "ready"}
              /\ link' = [link EXCEPT ![u] = "lost"]
  BY DEF Connect, Identify, RfResInd, LinkCloses, LinkStep, IdResp, RfRes, Down
<1>2. UNCHANGED <<TrxConnMap, TrxConnNum, cchan, rfInd, main>>
  BY DEF Connect, Identify, RfResInd, LinkCloses, LinkStep, BtsStep, trxMap, suiteVars
<1>3. /\ ipa \in Seq(Messages) /\ m \in Messages /\ Named(m) /\ link \in [Trxs -> Links]
      /\ (m.t = "ID_RESP" <=> m = IdResp(u)) /\ (m.t = "DOWN" <=> m = Down(u))
      /\ (m.t = "COMMON" <=> m = RfRes(u))
  <2>1. ipa \in Seq(Messages) /\ link \in [Trxs -> Links] /\ ConnOf[u] \in Conns
    BY RSLBtsAssumption DEF Types
  <2>2. m \in Messages /\ Named(m)
    BY <2>1 DEF IdResp, RfRes, Down, Messages, Named
  <2> QED  BY <2>1, <2>2 DEF IdResp, RfRes, Down
<1>4. AllNamed(ipa')
  BY <1>1, <1>3, NamedAppended DEF LinksInv
<1>5. ASSUME NEW t \in Trxs PROVE LinkOf(t)'
  <2>1. /\ LinkOf(t)
        /\ IdResp(t) # Down(t) /\ IdResp(t) # RfRes(t) /\ Down(t) # RfRes(t)
        /\ t # u => m # IdResp(t) /\ m # Down(t) /\ m # RfRes(t)
    BY <1>1, RSLBtsAssumption DEF LinksInv, IdResp, Down, RfRes
  <2>2. /\ In(ipa', IdResp(t)) <=> (In(ipa, IdResp(t)) \/ m = IdResp(t))
        /\ In(ipa', Down(t)) <=> (In(ipa, Down(t)) \/ m = Down(t))
        /\ In(ipa', RfRes(t)) <=> (In(ipa, RfRes(t)) \/ m = RfRes(t))
    BY <1>1, <1>3, InAppended
  <2>3. m = IdResp(t) =>
          /\ link[t] = "up" /\ ~In(ipa, IdResp(t)) /\ ~In(ipa, Down(t)) /\ ~In(ipa, RfRes(t))
          /\ ~In(cchan, RfRes(t)) /\ t \notin rfInd
    BY <1>1, <1>3, <2>1 DEF LinkOf
  <2>4. /\ Once(ipa', IdResp(t))
        /\ Before(ipa', IdResp(t), Down(t)) /\ Before(ipa', IdResp(t), RfRes(t))
    <3>1. /\ Once(ipa, IdResp(t))
          /\ Before(ipa, IdResp(t), Down(t)) /\ Before(ipa, IdResp(t), RfRes(t))
      BY <2>1 DEF LinkOf
    <3> QED  BY <1>1, <1>3, <2>1, <2>3, <3>1, OnceAppended, BeforeAppended
  <2>5. CASE t # u
    <3>1. link'[t] = link[t]
      BY <1>1, <1>3, <2>5
    <3> HIDE DEF IdResp, Down, RfRes
    <3> QED  BY <1>2, <2>1, <2>2, <2>4, <2>5, <3>1 DEF LinkOf
  <2>6. CASE t = u
    <3>1. \/ m.t = "UP" /\ link[t] = "down" /\ link'[t] = "up"
          \/ m = IdResp(t) /\ link[t] = "up" /\ link'[t] = "identified"
          \/ m = RfRes(t) /\ link[t] = "identified" /\ link'[t] = "ready"
          \/ m = Down(t) /\ link[t] \in {"up", "identified", "ready"} /\ link'[t] = "lost"
      BY <1>1, <1>3, <2>6
    <3>2. m.t = "UP" => m # IdResp(t) /\ m # Down(t) /\ m # RfRes(t)
      BY DEF IdResp, Down, RfRes
    <3> HIDE DEF IdResp, Down, RfRes
    <3> QED  BY <1>2, <2>1, <2>2, <2>3, <2>4, <3>1, <3>2 DEF LinkOf
  <2> QED  BY <2>5, <2>6
<1> QED  BY <1>2, <1>4, <1>5 DEF LinksInv

\* The main component reads.
LEMMA LinksRead ==
  ASSUME Types, LinksInv, MainStep
  PROVE  LinksInv'
<1>1. /\ cchan # <<>> /\ cchan' = Tail(cchan) /\ cchan \in Seq(MainMessages)
      /\ UNCHANGED <<ipa, TrxConnMap, TrxConnNum, link>>
  BY DEF MainStep, TrxUp, RfInd, Later, MainReads, btsVars, trxMap, Types
<1>2. Head(cchan) \in MainMessages /\ Head(cchan) = cchan[1]
  BY <1>1, Taken
<1>3. \/ rfInd' = rfInd /\ (main' = "running" => main = "running")
      \/ /\ Head(cchan).t = "COMMON" /\ Head(cchan).trx \in Trxs
         /\ rfInd' = rfInd \cup {Head(cchan).trx} /\ Head(cchan) = RfRes(Head(cchan).trx)
         /\ main = "init" /\ (main' = "running" => rfInd' = Trxs)
  BY <1>2 DEF MainStep, TrxUp, RfInd, Later, MainMessages, Messages, RfRes
<1>4. ASSUME NEW t \in Trxs PROVE LinkOf(t)'
  <2>1. LinkOf(t)
    BY DEF LinksInv
  <2>2. In(cchan', RfRes(t)) => In(cchan, RfRes(t))
    BY <1>1, InTaken
  <2>3. t \in rfInd' => t \in rfInd \/ In(cchan, RfRes(t))
    BY <1>1, <1>3, InTaken
  <2> HIDE DEF IdResp, Down, RfRes
  <2> QED  BY <1>1, <2>1, <2>2, <2>3 DEF LinkOf
<1>5. main' = "running" => rfInd' = Trxs
  BY <1>3 DEF LinksInv
<1> QED  BY <1>1, <1>4, <1>5 DEF LinksInv

LEMMA StepLinks ==
  ASSUME Types, LinksInv, [Next]_vars
  PROVE  LinksInv'
<1>1. CASE Route /\ UNCHANGED <<btsVars, suiteVars>>
  <2>1. PICK m : m \in {ipa[i] : i \in DOMAIN ipa \cap {1}} /\ FromLink(m)
    BY <1>1 DEF Route
  <2>2. CASE LinkIdentified(m) \/ LinkLost(m)
    BY <1>1, <2>2, LinksIdentified, LinksLost
  <2>3. CASE LinkFails(m)
    BY <1>1, <2>3, LinksRest DEF LinkFails, Fail, btsVars, suiteVars, trxMap
  <2>4. CASE /\ ~(LinkIdentified(m) \/ LinkLost(m) \/ LinkFails(m))
             /\ ipa # <<>> /\ m = Head(ipa)
    <3>1. /\ ipa' = Tail(ipa) /\ m.t \notin {"ID_RESP", "DOWN"}
          /\ \/ cchan' = cchan /\ m.t # "COMMON"
             \/ cchan' = Append(cchan, m)
          /\ UNCHANGED <<TrxConnMap, TrxConnNum, link, rfInd, main>>
      BY <1>1, <2>1, <2>4
      DEF FromLink, LinkEstablished, ImmAss, ImmAssRej, ChanRqd, CommonChannel, ChanActiv,
          ToHandler, ToWaitingQueue, Take, Forwarded, btsVars, suiteVars, trxMap
    <3> QED  BY <2>4, <3>1, LinksTake
  <2>5. LinkFails(m) \/ (ipa # <<>> /\ m = Head(ipa))
    BY <2>1
    DEF FromLink, LinkEstablished, LinkIdentified, LinkLost, ImmAss, ImmAssRej, ChanRqd,
        CommonChannel, ChanActiv, ToHandler, ToWaitingQueue, Take
  <2> QED  BY <2>2, <2>3, <2>4, <2>5
<1>2. ASSUME NEW h \in Hdlrs, FromClient(h) \/ Serve(h), UNCHANGED <<btsVars, suiteVars>>
      PROVE  LinksInv'
  <2>1. UNCHANGED <<ipa, TrxConnMap, TrxConnNum, link, cchan, rfInd, main>>
    BY <1>2
    DEF FromClient, ClientRqd, ClientMsg, ClientFails, FromHandler, Serve, RSLEM_register,
        RSLEM_unregister, RSLEM_suspend, WaitQueueEnable, WaitQueueDispatch, RSLEM_get_last_act,
        Reply, Fail, btsVars, suiteVars, trxMap
  <2> QED  BY <2>1, LinksRest
<1>3. CASE \E t \in Trxs : Connect(t) \/ Identify(t) \/ RfResInd(t) \/ LinkCloses(t)
  BY <1>3, LinksStep
<1>4. CASE BtsReacts
  <2>1. \E m \in Messages : m.t = "DR" /\ ipa' = Append(ipa, m)
    <3>1. Head(iut) \in IutMessages
      BY <1>4 DEF BtsReacts, Types
    <3>2. \A what \in {"act_ack", "rel_ack"} :
            Dr(Head(iut).lchan, what) \in Messages /\ Dr(Head(iut).lchan, what).t = "DR"
      BY <3>1 DEF Dr, Messages, IutMessages
    <3> QED  BY <1>4, <3>2 DEF BtsReacts
  <2>2. UNCHANGED <<TrxConnMap, TrxConnNum, link, cchan, rfInd, main>>
    BY <1>4 DEF BtsReacts, BtsStep, suiteVars, trxMap
  <2> QED  BY <2>1, <2>2, LinksPut
<1>5. ASSUME NEW c \in Lchans, BtsSends(c) PROVE LinksInv'
  <2>1. Dr(c, "data") \in Messages /\ Dr(c, "data").t = "DR"
    BY DEF Dr, Messages
  <2>2. ipa' = Append(ipa, Dr(c, "data")) /\ UNCHANGED <<TrxConnMap, TrxConnNum, link, cchan, rfInd, main>>
    BY <1>5 DEF BtsSends, BtsStep, suiteVars, trxMap, btsVars
  <2> QED  BY <2>1, <2>2, LinksPut
<1>6. ASSUME NEW r \in Ras, ipa' = Append(ipa, [t |-> "CHAN_RQD", ra |-> r]),
             UNCHANGED <<TrxConnMap, TrxConnNum, link, cchan, rfInd, main>>
      PROVE  LinksInv'
  <2>1. [t |-> "CHAN_RQD", ra |-> r] \in Messages
    BY DEF Messages
  <2> QED  BY <1>6, <2>1, LinksPut
<1>7. ASSUME NEW r \in Ras, MainAccess(r) PROVE LinksInv'
  BY <1>6, <1>7 DEF MainAccess, BtsStep, suiteVars, trxMap, btsVars
<1>8. ASSUME NEW h \in Hdlrs, Handler(h) PROVE LinksInv'
  <2>1. CASE Access(h)
    <3>1. RaOf[h] \in Ras
      BY RSLBtsAssumption
    <3> QED  BY <1>6, <2>1, <3>1 DEF Access, Step, trxMap, btsVars
  <2>2. CASE ~Access(h)
    <3>1. UNCHANGED <<ipa, TrxConnMap, TrxConnNum, link, cchan, rfInd, main>>
      BY <1>8, <2>2
      DEF Handler, Register, Announce, Accessed, Activate, Activated, ReadData, Deactivate,
          Released, Finish, Step, suiteVars, trxMap, btsVars
    <3> QED  BY <3>1, LinksRest
  <2> QED  BY <2>1, <2>2
<1>9. CASE UNCHANGED vars
  BY <1>9, LinksRest DEF vars, rslVars, trxMap, btsVars, suiteVars
<1> QED  BY <1>1, <1>2, <1>3, <1>4, <1>5, <1>7, <1>8, <1>9, LinksRead DEF Next, Main

-----------------------------------------------------------------------------
(* The table, the calls and the announcements. *)

LEMMA InitTable == Init => TableInv
<1> SUFFICES ASSUME Init PROVE TableInv
  OBVIOUS
<1>1. /\ \A h \in Hdlrs : stage[h] = "idle" /\ call[h] = Idle /\ inbox[h] = <<>>
      /\ ended = {} /\ ipa = <<>> /\ dchan_suspended = FALSE
      /\ \A i \in 1 .. Slots : ConnectionTable[i] = Free
  BY DEF Init, RSLInit
<1>2. \A h \in Hdlrs : CallOf(h) /\ ~Registered(h) /\ ~Expecting(h)
  BY <1>1 DEF CallOf, Registered, Expecting, Idle
<1>3. Indices(<<>>) = {}
  BY DEF Indices
<1>4. ASSUME NEW h \in Hdlrs PROVE RequestOf(h)
  <2>1. ~HasEntry(Request(h))
    <3>1. Request(h) # Free
      BY RSLAssumption, RSLBtsAssumption DEF Request, Free
    <3> QED  BY <1>1, <3>1 DEF HasEntry
  <2>2. \A m : ~In(<<>>, m) /\ Once(<<>>, m)
    BY <1>3 DEF In, Once
  <2> QED  BY <1>1, <1>2, <2>1, <2>2 DEF RequestOf
<1>5. Exclusive
  BY <1>1 DEF Exclusive, Gone
<1>6. Entered
  BY <1>1, <1>2 DEF Entered
<1> QED  BY <1>1, <1>2, <1>4, <1>5, <1>6 DEF TableInv

\* Handlers, table and clients rest; what is in the queues for the handlers does.
LEMMA TableRest ==
  ASSUME TableInv, UNCHANGED <<ConnectionTable, dchan_suspended, client, call, stage, ended>>,
         main = "running" => main' = "running",
         \A h \in Hdlrs :
            /\ In(ipa', ChanRqdOf(h)) => In(ipa, ChanRqdOf(h))
            /\ Once(ipa, ChanRqdOf(h)) => Once(ipa', ChanRqdOf(h))
            /\ In(inbox'[h], ChanRqdOf(h)) <=> In(inbox[h], ChanRqdOf(h))
            /\ Once(inbox[h], ChanRqdOf(h)) => Once(inbox'[h], ChanRqdOf(h))
  PROVE  TableInv'
<1>1. \A h \in Hdlrs : /\ Registered(h)' <=> Registered(h)
                       /\ Expecting(h)' <=> Expecting(h)
                       /\ Gone(h)' <=> Gone(h)
                       /\ HasEntry(Own(h))' <=> HasEntry(Own(h))
                       /\ HasEntry(Request(h))' <=> HasEntry(Request(h))
  BY DEF Registered, Expecting, Gone, HasEntry, Own, Request
<1>2. \A h \in Hdlrs : CallOf(h)'
  BY DEF TableInv, CallOf
<1>3. ASSUME NEW h \in Hdlrs PROVE RequestOf(h)'
  <2>1. RequestOf(h)
    BY DEF TableInv
  <2> HIDE DEF ChanRqdOf
  <2> QED  BY <1>1, <2>1 DEF RequestOf, ChanRqdOf, Rqd
<1>4. Exclusive'
  BY <1>1 DEF TableInv, Exclusive
<1>5. Entered'
  BY <1>1 DEF TableInv, Entered, Own, Request
<1> QED  BY <1>2, <1>3, <1>4, <1>5 DEF TableInv

\* A message that is no CHANNEL REQUIRED for a handler comes or goes.
LEMMA TablePut ==
  ASSUME Types, TableInv, NEW m \in Messages, ipa' = Append(ipa, m),
         m.t = "CHAN_RQD" => m.ra \notin HandlerRas,
         UNCHANGED <<ConnectionTable, dchan_suspended, client, call, stage, ended, inbox, main>>
  PROVE  TableInv'
<1>1. ASSUME NEW h \in Hdlrs
      PROVE  /\ In(ipa', ChanRqdOf(h)) => In(ipa, ChanRqdOf(h))
             /\ Once(ipa, ChanRqdOf(h)) => Once(ipa', ChanRqdOf(h))
  <2>1. m # ChanRqdOf(h) /\ ipa \in Seq(Messages)
    BY DEF ChanRqdOf, HandlerRas, Types
  <2> QED  BY <2>1, InAppended, OnceAppended
<1> QED  BY <1>1, TableRest

LEMMA TableTake ==
  ASSUME Types, TableInv, ipa # <<>>, ipa' = Tail(ipa),
         UNCHANGED <<ConnectionTable, dchan_suspended, client, call, stage, ended, main>>,
         \/ inbox' = inbox
         \/ \E h \in Hdlrs : Head(ipa).t = "DR" /\ inbox' = [inbox EXCEPT ![h] = Append(@, Head(ipa))]
  PROVE  TableInv'
<1>1. ASSUME NEW h \in Hdlrs
      PROVE  /\ In(ipa', ChanRqdOf(h)) => In(ipa, ChanRqdOf(h))
             /\ Once(ipa, ChanRqdOf(h)) => Once(ipa', ChanRqdOf(h))
  <2>1. ipa \in Seq(Messages)
    BY DEF Types
  <2> QED  BY <2>1, InTaken, OnceTaken
<1>2. ASSUME NEW h \in Hdlrs
      PROVE  /\ In(inbox'[h], ChanRqdOf(h)) <=> In(inbox[h], ChanRqdOf(h))
             /\ Once(inbox[h], ChanRqdOf(h)) => Once(inbox'[h], ChanRqdOf(h))
  <2>1. CASE inbox'[h] = Append(inbox[h], Head(ipa)) /\ Head(ipa).t = "DR"
    <3>1. /\ inbox[h] \in Seq(Messages) /\ Head(ipa) \in Messages /\ Head(ipa) # ChanRqdOf(h)
      BY <2>1, Taken DEF Types, ChanRqdOf
    <3> QED  BY <2>1, <3>1, InAppended, OnceAppended
  <2>2. inbox'[h] = inbox[h] \/ (inbox'[h] = Append(inbox[h], Head(ipa)) /\ Head(ipa).t = "DR")
    BY DEF Types
  <2> QED  BY <2>1, <2>2
<1> QED  BY <1>1, <1>2, TableRest

\* What distinguishes the entries.
LEMMA EntryKinds ==
  ASSUME NEW g \in Hdlrs, NEW h \in Hdlrs
  PROVE  /\ Own(g) # Free /\ Request(g) # Free /\ Own(g) # Request(h)
         /\ (Own(g) = Own(h) => g = h) /\ (Request(g) = Request(h) => g = h)
         /\ Own(g).lchan = ChanOf[g] /\ Own(g).ra = None /\ Own(g).comp = g
         /\ Request(g).lchan = None /\ Request(g).ra = RaOf[g] /\ Request(g).comp = g
         /\ Free.lchan = None /\ Free.ra = None /\ Free.comp = None
         /\ ChanOf[g] # None /\ RaOf[g] # None /\ g # None /\ ChanOf[g] \in Lchans
         /\ (RaOf[g] = RaOf[h] => g = h)
  BY RSLAssumption, RSLBtsAssumption DEF Own, Request, Free

\* A registered handler has not ended.
LEMMA RegisteredRuns ==
  ASSUME TableInv, NEW h \in Hdlrs, Registered(h)
  PROVE  ~Gone(h) /\ h \notin ended
  BY DEF TableInv, CallOf, Registered, Gone, Idle

\* The lookup of a channel finds the handler that has it.
LEMMA LookupLchan ==
  ASSUME Types, TableInv, NEW c \in Lchans, HasHandler(c)
  PROVE  \E h \in Hdlrs : /\ HandlerOf(c) = h /\ ChanOf[h] = c /\ Registered(h)
                         /\ First(SlotsOfLchan(c)) \in 1 .. Slots
                         /\ ConnectionTable[First(SlotsOfLchan(c))] = Own(h)
<1> DEFINE i == First(SlotsOfLchan(c))
<1>1. i \in 1 .. Slots /\ ConnectionTable[i].lchan = c /\ c # None
  BY SlotsIn, RSLAssumption DEF HasHandler, SlotsOfLchan
<1> HIDE DEF i
<1>2. PICK h \in Hdlrs : ConnectionTable[i] = Own(h) /\ Registered(h)
  BY <1>1, EntryKinds DEF TableInv, Entered, Free
<1>3. HandlerOf(c) = h /\ ChanOf[h] = c
  BY <1>1, <1>2, EntryKinds DEF HandlerOf, i
<1> QED  BY <1>1, <1>2, <1>3 DEF i

\* A channel that a handler registered is found.
LEMMA FoundLchan ==
  ASSUME Types, TableInv, NEW h \in Hdlrs, Registered(h)
  PROVE  HasHandler(ChanOf[h]) /\ HandlerOf(ChanOf[h]) = h
<1>1. HasHandler(ChanOf[h])
  BY EntryKinds DEF TableInv, Entered, HasEntry, HasHandler, SlotsOfLchan
<1>2. ChanOf[h] \in Lchans
  BY EntryKinds
<1>3. PICK g \in Hdlrs : HandlerOf(ChanOf[h]) = g /\ ChanOf[g] = ChanOf[h] /\ Registered(g)
  BY <1>1, <1>2, LookupLchan
<1>4. g = h
  BY <1>3, RegisteredRuns DEF TableInv, Exclusive
<1> QED  BY <1>1, <1>3, <1>4

\* The lookup of a random reference finds the handler that announced it.
LEMMA LookupRa ==
  ASSUME Types, TableInv, NEW r \in Ras, SlotsOfRa(r) # {}
  PROVE  \E h \in Hdlrs : /\ RaOf[h] = r /\ First(SlotsOfRa(r)) \in 1 .. Slots
                         /\ ConnectionTable[First(SlotsOfRa(r))] = Request(h)
<1> DEFINE i == First(SlotsOfRa(r))
<1>1. i \in 1 .. Slots /\ ConnectionTable[i].ra = r /\ r # None
  BY SlotsIn, RSLAssumption DEF SlotsOfRa
<1> HIDE DEF i
<1>2. PICK h \in Hdlrs : ConnectionTable[i] = Request(h)
  BY <1>1, EntryKinds DEF TableInv, Entered, Free
<1> QED  BY <1>1, <1>2, EntryKinds DEF i

\* RSLEM_register: the new entry is the only one of the handler.
LEMMA TableRegister ==
  ASSUME Types, TableInv, NEW h \in Hdlrs, RSLEM_register(h), UNCHANGED <<btsVars, suiteVars>>
  PROVE  TableInv'
<1>1. CASE FreeSlots = {}
  <2>1. UNCHANGED <<ConnectionTable, dchan_suspended, client, call, stage, ended, ipa, inbox, main>>
    BY <1>1 DEF RSLEM_register, Getcall, Dispatcher, Fail, tables, queueing, suiteVars
  <2> QED  BY <2>1, TableRest
<1>2. CASE FreeSlots # {}
  <2> DEFINE f == First(FreeSlots)
  <2>1. f \in 1 .. Slots /\ ConnectionTable[f] = Free
    <3>1. f \in 1 .. Slots /\ ConnectionTable[f].lchan = None /\ ConnectionTable[f].ra = None
      BY <1>2, SlotsIn DEF FreeSlots
    <3> HIDE DEF f
    <3> QED  BY <3>1, EntryKinds DEF TableInv, Entered
  <2>2. /\ call[h] = [op |-> "register", lchan |-> ChanOf[h]] /\ stage[h] = "registered"
        /\ call \in [Hdlrs -> Calls \cup {Idle}]
    BY DEF RSLEM_register, Getcall, TableInv, CallOf, Types, Idle
  <2>3. /\ ConnectionTable' = [ConnectionTable EXCEPT ![f] = Own(h)]
        /\ call' = [call EXCEPT ![h] = Idle]
        /\ UNCHANGED <<dchan_suspended, client, stage, ended, ipa, inbox, main>>
    BY <1>2, <2>2
    DEF RSLEM_register, Getcall, Dispatcher, Create, Reply, Own, queueing, suiteVars
  <2> HIDE DEF f
  <2>4. ~Registered(h) /\ Registered(h)' /\ \A g \in Hdlrs \ {h} : Registered(g)' <=> Registered(g)
    BY <2>2, <2>3 DEF Registered, Idle
  <2>5. \A i \in 1 .. Slots : ConnectionTable[i] # Own(h)
    BY <2>4, EntryKinds DEF TableInv, Entered
  <2>6. \A i \in 1 .. Slots : ConnectionTable'[i] = IF i = f THEN Own(h) ELSE ConnectionTable[i]
    BY <2>3 DEF Types
  <2>7. Entered'
    <3>1. \A i \in 1 .. Slots :
            \/ ConnectionTable'[i] = Free
            \/ \E g \in Hdlrs : ConnectionTable'[i] = Own(g) /\ Registered(g)'
            \/ \E g \in Hdlrs : ConnectionTable'[i] = Request(g)
      BY <2>4, <2>6 DEF TableInv, Entered
    <3>2. \A i, j \in 1 .. Slots :
            ConnectionTable'[i] = ConnectionTable'[j] /\ ConnectionTable'[i] # Free => i = j
      BY <2>5, <2>6 DEF TableInv, Entered
    <3>3. ASSUME NEW g \in Hdlrs, Registered(g)' PROVE HasEntry(Own(g))'
      <4>1. CASE g = h
        BY <4>1, <2>1, <2>6 DEF HasEntry, Own
      <4>2. CASE g # h
        <5>1. PICK i \in 1 .. Slots : ConnectionTable[i] = Own(g)
          BY <4>2, <2>4, <3>3 DEF TableInv, Entered, HasEntry
        <5>2. ConnectionTable'[i] = Own(g)
          BY <5>1, <2>1, <2>6, EntryKinds
        <5> QED  BY <5>2 DEF HasEntry, Own
      <4> QED  BY <4>1, <4>2
    <3> QED  BY <3>1, <3>2, <3>3 DEF Entered, Own, Request
  <2>8. \A g \in Hdlrs : CallOf(g)'
    BY <2>2, <2>3 DEF TableInv, CallOf, Idle
  <2>9. ASSUME NEW g \in Hdlrs PROVE RequestOf(g)'
    <3>1. HasEntry(Request(g))' <=> HasEntry(Request(g))
      <4>1. \A i \in 1 .. Slots : ConnectionTable'[i] = Request(g) <=> ConnectionTable[i] = Request(g)
        BY <2>1, <2>6, EntryKinds
      <4> QED  BY <4>1 DEF HasEntry, Request
    <3>2. RequestOf(g)
      BY DEF TableInv
    <3> QED  BY <2>3, <3>1, <3>2 DEF RequestOf, Expecting, ChanRqdOf, Rqd
  <2>10. Exclusive'
    BY <2>3 DEF TableInv, Exclusive, Gone
  <2> QED  BY <2>3, <2>7, <2>8, <2>9, <2>10 DEF TableInv
<1> QED  BY <1>1, <1>2

\* A cleared entry is gone, and only that one.
LEMMA Cleared ==
  ASSUME Types, TableInv, NEW i \in 1 .. Slots, ConnectionTable[i] # Free, Clear(i)
  PROVE  /\ \A j \in 1 .. Slots : ConnectionTable'[j] = IF j = i THEN Free ELSE ConnectionTable[j]
         /\ \A j \in 1 .. Slots : ConnectionTable'[j] # ConnectionTable[i]
         /\ \A e : e # Free /\ e # ConnectionTable[i] =>
               (HasEntry(e) <=> \E j \in 1 .. Slots : ConnectionTable'[j] = e)
<1>1. \A j \in 1 .. Slots : ConnectionTable'[j] = IF j = i THEN Free ELSE ConnectionTable[j]
  BY DEF Types, Clear
<1>2. \A j \in 1 .. Slots : ConnectionTable[j] = ConnectionTable[i] => j = i
  BY DEF TableInv, Entered
<1> QED  BY <1>1, <1>2 DEF HasEntry

\* RSLEM_unregister: the entry of the channel is that of the caller.
LEMMA TableUnregister ==
  ASSUME Types, TableInv, NEW h \in Hdlrs, RSLEM_unregister(h), UNCHANGED <<btsVars, suiteVars>>
  PROVE  TableInv'
<1>1. /\ call[h] = [op |-> "unregister", lchan |-> ChanOf[h]] /\ stage[h] = "done"
      /\ Registered(h) /\ call \in [Hdlrs -> Calls \cup {Idle}]
  BY DEF RSLEM_unregister, Getcall, TableInv, CallOf, Types, Idle, Registered
<1>2. HasHandler(ChanOf[h]) /\ HandlerOf(ChanOf[h]) = h /\ ChanOf[h] \in Lchans
  BY <1>1, FoundLchan, EntryKinds
<1> DEFINE i == First(SlotsOfLchan(ChanOf[h]))
<1>3. i \in 1 .. Slots /\ ConnectionTable[i] = Own(h)
  <2>1. PICK g \in Hdlrs : /\ HandlerOf(ChanOf[h]) = g
                           /\ First(SlotsOfLchan(ChanOf[h])) \in 1 .. Slots
                           /\ ConnectionTable[First(SlotsOfLchan(ChanOf[h]))] = Own(g)
    BY <1>2, LookupLchan
  <2> QED  BY <1>2, <2>1
<1>4. /\ Clear(i) /\ call' = [call EXCEPT ![h] = Idle]
      /\ UNCHANGED <<dchan_suspended, client, stage, ended, ipa, inbox, main>>
  BY <1>1, <1>2 DEF RSLEM_unregister, Getcall, Dispatcher, Reply, queueing, suiteVars
<1> HIDE DEF i
<1>5. /\ \A j \in 1 .. Slots : ConnectionTable'[j] = IF j = i THEN Free ELSE ConnectionTable[j]
      /\ \A j \in 1 .. Slots : ConnectionTable'[j] # Own(h)
      /\ \A e : e # Free /\ e # Own(h) =>
            (HasEntry(e) <=> \E j \in 1 .. Slots : ConnectionTable'[j] = e)
  BY <1>3, <1>4, Cleared, EntryKinds
<1>6. ~Registered(h)' /\ \A g \in Hdlrs \ {h} : Registered(g)' <=> Registered(g)
  BY <1>1, <1>4 DEF Registered, Idle
<1>7. Entered'
  <2>1. \A j \in 1 .. Slots :
          \/ ConnectionTable'[j] = Free
          \/ \E g \in Hdlrs : ConnectionTable'[j] = Own(g) /\ Registered(g)'
          \/ \E g \in Hdlrs : ConnectionTable'[j] = Request(g)
    BY <1>5, <1>6 DEF TableInv, Entered
  <2>2. \A j, k \in 1 .. Slots :
          ConnectionTable'[j] = ConnectionTable'[k] /\ ConnectionTable'[j] # Free => j = k
    BY <1>5 DEF TableInv, Entered
  <2>3. ASSUME NEW g \in Hdlrs, Registered(g)' PROVE HasEntry(Own(g))'
    <3>1. g # h /\ HasEntry(Own(g)) /\ Own(g) # Free /\ Own(g) # Own(h)
      BY <1>6, <2>3, EntryKinds DEF TableInv, Entered
    <3>2. \E j \in 1 .. Slots : ConnectionTable'[j] = Own(g)
      BY <1>5, <3>1
    <3> QED  BY <3>2 DEF HasEntry, Own
  <2> QED  BY <2>1, <2>2, <2>3 DEF Entered, Own, Request
<1>8. \A g \in Hdlrs : CallOf(g)'
  BY <1>1, <1>4 DEF TableInv, CallOf, Idle
<1>9. ASSUME NEW g \in Hdlrs PROVE RequestOf(g)'
  <2>1. HasEntry(Request(g))' <=> HasEntry(Request(g))
    <3>1. Request(g) # Free /\ Request(g) # Own(h)
      BY EntryKinds
    <3>2. HasEntry(Request(g)) <=> \E j \in 1 .. Slots : ConnectionTable'[j] = Request(g)
      BY <1>5, <3>1
    <3> QED  BY <3>2 DEF HasEntry, Request
  <2>2. RequestOf(g)
    BY DEF TableInv
  <2> QED  BY <1>4, <2>1, <2>2 DEF RequestOf, Expecting, ChanRqdOf, Rqd
<1>10. Exclusive'
  BY <1>4 DEF TableInv, Exclusive, Gone
<1> QED  BY <1>4, <1>7, <1>8, <1>9, <1>10 DEF TableInv

\* CHANNEL REQUIRED: the announced one goes to the handler, and its entry with it.
LEMMA TableChanRqd ==
  ASSUME Types, TableInv, NEW m, ChanRqd(m), UNCHANGED <<btsVars, suiteVars>>
  PROVE  TableInv'
<1>1. /\ ipa \in Seq(Messages) /\ ipa # <<>> /\ m = Head(ipa) /\ m \in Messages
      /\ m.t = "CHAN_RQD" /\ ipa' = Tail(ipa) /\ m.ra \in Ras /\ m = [t |-> "CHAN_RQD", ra |-> m.ra]
      /\ UNCHANGED <<dchan_suspended, client, call, stage, ended, main>>
  BY DEF ChanRqd, Take, Dispatcher, Types, Messages, queueing, suiteVars
<1>2. CASE SlotsOfRa(m.ra) = {}
  BY <1>1, <1>2, TableTake DEF ChanRqd
<1>3. CASE SlotsOfRa(m.ra) # {}
  <2> DEFINE i == First(SlotsOfRa(m.ra))
  <2>1. PICK h \in Hdlrs : RaOf[h] = m.ra /\ i \in 1 .. Slots /\ ConnectionTable[i] = Request(h)
    BY <1>1, <1>3, LookupRa
  <2>2. Clear(i) /\ inbox' = [inbox EXCEPT ![h] = Append(@, m)]
    BY <1>3, <2>1, EntryKinds DEF ChanRqd, Deliver
  <2> HIDE DEF i
  <2>3. /\ \A j \in 1 .. Slots : ConnectionTable'[j] = IF j = i THEN Free ELSE ConnectionTable[j]
        /\ \A j \in 1 .. Slots : ConnectionTable'[j] # Request(h)
        /\ \A e : e # Free /\ e # Request(h) =>
              (HasEntry(e) <=> \E j \in 1 .. Slots : ConnectionTable'[j] = e)
    BY <2>1, <2>2, Cleared, EntryKinds
  <2>4. \A g \in Hdlrs : Registered(g)' <=> Registered(g)
    BY <1>1 DEF Registered
  <2>5. Entered'
    <3>1. \A j \in 1 .. Slots :
            \/ ConnectionTable'[j] = Free
            \/ \E g \in Hdlrs : ConnectionTable'[j] = Own(g) /\ Registered(g)'
            \/ \E g \in Hdlrs : ConnectionTable'[j] = Request(g)
      BY <2>3, <2>4 DEF TableInv, Entered
    <3>2. \A j, k \in 1 .. Slots :
            ConnectionTable'[j] = ConnectionTable'[k] /\ ConnectionTable'[j] # Free => j = k
      BY <2>3 DEF TableInv, Entered
    <3>3. ASSUME NEW g \in Hdlrs, Registered(g)' PROVE HasEntry(Own(g))'
      <4>1. HasEntry(Own(g)) /\ Own(g) # Free /\ Own(g) # Request(h)
        BY <2>4, <3>3, EntryKinds DEF TableInv, Entered
      <4>2. \E j \in 1 .. Slots : ConnectionTable'[j] = Own(g)
        BY <2>3, <4>1
      <4> QED  BY <4>2 DEF HasEntry, Own
    <3> QED  BY <3>1, <3>2, <3>3 DEF Entered, Own, Request
  <2>6. \A g \in Hdlrs : CallOf(g)'
    BY <1>1 DEF TableInv, CallOf
  <2>7. ASSUME NEW g \in Hdlrs PROVE RequestOf(g)'
    <3>1. RequestOf(g) /\ ipa \in Seq(Messages) /\ inbox \in [Hdlrs -> Seq(Messages)]
      BY DEF TableInv, Types
    <3>2. CASE g = h
      <4>1. HasEntry(Request(g)) /\ ~HasEntry(Request(g))'
        <5>1. HasEntry(Request(g))
          BY <2>1, <3>2 DEF HasEntry
        <5>2. ~HasEntry(Request(g))'
          BY <2>3, <3>2 DEF HasEntry, Request
        <5> QED  BY <5>1, <5>2
      <4>2. m = ChanRqdOf(g)
        BY <1>1, <2>1, <3>2 DEF ChanRqdOf
      <4>3. Once(ipa', ChanRqdOf(g)) /\ ~In(ipa', ChanRqdOf(g)) /\ In(ipa, ChanRqdOf(g))
        <5>1. Once(ipa, ChanRqdOf(g))
          BY <3>1 DEF RequestOf
        <5> QED  BY <1>1, <4>2, <5>1, OnceTaken, InTaken
      <4>4. inbox'[g] = Append(inbox[g], ChanRqdOf(g))
        BY <2>2, <3>1, <3>2, <4>2
      <4>5. Once(inbox'[g], ChanRqdOf(g))
        <5>1. Once(inbox[g], ChanRqdOf(g)) /\ ~In(inbox[g], ChanRqdOf(g))
          BY <3>1, <4>1 DEF RequestOf
        <5>2. inbox[g] \in Seq(Messages) /\ ChanRqdOf(g) \in Messages
          BY <1>1, <3>1, <4>2
        <5> QED  BY <4>4, <5>1, <5>2, OnceAppended
      <4>6. stage[g] = "accessing" /\ client[g] = <<>>
        BY <3>1, <4>1, <4>3 DEF RequestOf
      <4>7. g \in Callers
        BY <3>1, <4>6 DEF RequestOf, Expecting
      <4> QED  BY <1>1, <4>1, <4>3, <4>5, <4>6, <4>7 DEF RequestOf, Expecting, ChanRqdOf, Rqd
    <3>3. CASE g # h
      <4>1. HasEntry(Request(g))' <=> HasEntry(Request(g))
        <5>1. Request(g) # Free /\ Request(g) # Request(h)
          BY <3>3, EntryKinds
        <5>2. HasEntry(Request(g)) <=> \E j \in 1 .. Slots : ConnectionTable'[j] = Request(g)
          BY <2>3, <5>1
        <5> QED  BY <5>2 DEF HasEntry, Request
      <4>2. inbox'[g] = inbox[g]
        BY <2>2, <3>1, <3>3
      <4>3. /\ In(ipa', ChanRqdOf(g)) => In(ipa, ChanRqdOf(g))
            /\ Once(ipa, ChanRqdOf(g)) => Once(ipa', ChanRqdOf(g))
        BY <1>1, InTaken, OnceTaken
      <4> QED  BY <1>1, <3>1, <4>1, <4>2, <4>3 DEF RequestOf, Expecting, ChanRqdOf, Rqd
    <3> QED  BY <3>2, <3>3
  <2>8. Exclusive'
    BY <1>1 DEF TableInv, Exclusive, Gone
  <2> QED  BY <1>1, <2>5, <2>6, <2>7, <2>8 DEF TableInv
<1> QED  BY <1>2, <1>3

\* What a handler sent first is what its stage lets it send.
LEMMA ClientHead ==
  ASSUME Types, ChannelInv, NEW h \in Hdlrs, client[h] # <<>>
  PROVE  \/ Expecting(h) /\ Head(client[h]) = Rqd(h)
         \/ Using(h) /\ Head(client[h]) = Activ(h)
         \/ stage[h] = "releasing" /\ Head(client[h]) = Rel(h)
<1>1. client[h] \in Seq(ClientMessages)
  BY DEF Types
<1>2. 1 \in Indices(client[h]) /\ Head(client[h]) = client[h][1]
  BY <1>1, Taken
<1>3. Head(client[h]) \in Elems(client[h])
  BY <1>2 DEF Elems
<1>4. ClientOf(h)
  BY DEF ChannelInv
<1> HIDE DEF Expecting, Using, Rqd, Activ, Rel
<1> QED  BY <1>3, <1>4 DEF ClientOf

\* RSLDC_ChanRqd: the new entry is the only one for the announcement.
LEMMA TableClientRqd ==
  ASSUME Types, TableInv, ChannelInv, NEW h \in Hdlrs, ClientRqd(h), UNCHANGED <<btsVars, suiteVars>>
  PROVE  TableInv'
<1> DEFINE f == First(FreeSlots)
<1>1. f \in 1 .. Slots /\ ConnectionTable[f] = Free
  <2>1. f \in 1 .. Slots /\ ConnectionTable[f].lchan = None /\ ConnectionTable[f].ra = None
    BY SlotsIn DEF FreeSlots, ClientRqd
  <2> HIDE DEF f
  <2> QED  BY <2>1, EntryKinds DEF TableInv, Entered
<1>2. /\ client \in [Hdlrs -> Seq(ClientMessages)] /\ client[h] # <<>> /\ Head(client[h]).t = "RQD"
      /\ RequestOf(h)
  BY DEF ClientRqd, FromHandler, Types, TableInv
<1>3. Expecting(h) /\ client[h] = <<Rqd(h)>>
  <2>1. \/ Expecting(h)
        \/ Using(h) /\ Head(client[h]) = Activ(h)
        \/ stage[h] = "releasing" /\ Head(client[h]) = Rel(h)
    BY <1>2, ClientHead
  <2>2. Expecting(h)
    BY <1>2, <2>1 DEF Activ, Rel
  <2> QED  BY <1>2, <2>2 DEF RequestOf
<1>4. /\ ConnectionTable' = [ConnectionTable EXCEPT ![f] = Request(h)]
      /\ client' = [client EXCEPT ![h] = <<>>]
      /\ UNCHANGED <<dchan_suspended, call, stage, ended, ipa, inbox, main>>
  <2>1. Head(client[h]).ra = RaOf[h] /\ Tail(client[h]) = <<>>
    BY <1>3 DEF Rqd
  <2> QED  BY <2>1 DEF ClientRqd, FromHandler, Dispatcher, Create, Request, queueing, suiteVars
<1> HIDE DEF f
<1>5. \A g \in Hdlrs : (Registered(g)' <=> Registered(g)) /\ (Expecting(g)' <=> Expecting(g))
  BY <1>4 DEF Registered, Expecting
<1>6. \A i \in 1 .. Slots : ConnectionTable[i] # Request(h)
  BY <1>2, <1>3 DEF RequestOf, HasEntry
<1>7. \A i \in 1 .. Slots : ConnectionTable'[i] = IF i = f THEN Request(h) ELSE ConnectionTable[i]
  BY <1>4 DEF Types
<1>8. Entered'
  <2>1. \A i \in 1 .. Slots :
          \/ ConnectionTable'[i] = Free
          \/ \E g \in Hdlrs : ConnectionTable'[i] = Own(g) /\ Registered(g)'
          \/ \E g \in Hdlrs : ConnectionTable'[i] = Request(g)
    BY <1>5, <1>7 DEF TableInv, Entered
  <2>2. \A i, j \in 1 .. Slots :
          ConnectionTable'[i] = ConnectionTable'[j] /\ ConnectionTable'[i] # Free => i = j
    BY <1>6, <1>7 DEF TableInv, Entered
  <2>3. ASSUME NEW g \in Hdlrs, Registered(g)' PROVE HasEntry(Own(g))'
    <3>1. PICK i \in 1 .. Slots : ConnectionTable[i] = Own(g)
      BY <1>5, <2>3 DEF TableInv, Entered, HasEntry
    <3>2. ConnectionTable'[i] = Own(g)
      BY <3>1, <1>1, <1>7, EntryKinds
    <3> QED  BY <3>2 DEF HasEntry, Own
  <2> QED  BY <2>1, <2>2, <2>3 DEF Entered, Own, Request
<1>9. \A g \in Hdlrs : CallOf(g)'
  BY <1>4 DEF TableInv, CallOf
<1>10. ASSUME NEW g \in Hdlrs PROVE RequestOf(g)'
  <2>1. RequestOf(g)
    BY DEF TableInv
  <2>2. CASE g = h
    <3>1. client'[g] = <<>> /\ inbox'[g] = inbox[g] /\ ~In(inbox[g], ChanRqdOf(g))
      BY <1>3, <1>4, <2>1, <2>2, <1>2 DEF RequestOf, ChanRqdOf
    <3>2. HasEntry(Request(g))'
      <4>1. ConnectionTable'[f] = Request(g)
        BY <1>1, <1>7, <2>2
      <4> QED  BY <1>1, <4>1 DEF HasEntry, Request
    <3> QED  BY <1>3, <1>4, <1>5, <2>1, <2>2, <3>1, <3>2 DEF RequestOf, ChanRqdOf, Rqd
  <2>3. CASE g # h
    <3>1. HasEntry(Request(g))' <=> HasEntry(Request(g))
      <4>1. \A i \in 1 .. Slots : ConnectionTable'[i] = Request(g) <=> ConnectionTable[i] = Request(g)
        BY <1>1, <1>7, <2>3, EntryKinds
      <4> QED  BY <4>1 DEF HasEntry, Request
    <3>2. client'[g] = client[g]
      BY <1>2, <1>4, <2>3
    <3> QED  BY <1>4, <1>5, <2>1, <3>1, <3>2 DEF RequestOf, ChanRqdOf, Rqd
  <2> QED  BY <2>2, <2>3
<1>11. Exclusive'
  BY <1>4 DEF TableInv, Exclusive, Gone
<1> QED  BY <1>4, <1>8, <1>9, <1>10, <1>11 DEF TableInv

\* The dispatcher takes an RSL message of h from CLIENT_PT.
LEMMA TableClientMsg ==
  ASSUME Types, TableInv, ChannelInv, NEW h \in Hdlrs, ClientMsg(h), UNCHANGED <<btsVars, suiteVars>>
  PROVE  TableInv'
<1>1. /\ client \in [Hdlrs -> Seq(ClientMessages)] /\ client[h] # <<>> /\ Head(client[h]).t # "RQD"
      /\ client' = [client EXCEPT ![h] = Tail(@)]
      /\ UNCHANGED <<ConnectionTable, dchan_suspended, call, stage, ended, ipa, inbox, main>>
  BY DEF ClientMsg, FromHandler, Dispatcher, Types, queueing, suiteVars
<1>2. Using(h) /\ ~Expecting(h)
  <2>1. \/ Head(client[h]) = Rqd(h)
        \/ Using(h)
        \/ stage[h] = "releasing"
    BY <1>1, ClientHead
  <2> QED  BY <1>1, <2>1 DEF Rqd, Using, Expecting
<1>3. \A g \in Hdlrs : /\ Registered(g)' <=> Registered(g)
                       /\ Expecting(g)' <=> Expecting(g)
                       /\ Gone(g)' <=> Gone(g)
                       /\ HasEntry(Own(g))' <=> HasEntry(Own(g))
                       /\ HasEntry(Request(g))' <=> HasEntry(Request(g))
  BY <1>1 DEF Registered, Expecting, Gone, HasEntry, Own, Request
<1>4. \A g \in Hdlrs : CallOf(g)'
  BY <1>1 DEF TableInv, CallOf
<1>5. ASSUME NEW g \in Hdlrs PROVE RequestOf(g)'
  <2>1. RequestOf(g)
    BY DEF TableInv
  <2>2. CASE g = h
    BY <1>1, <1>2, <1>3, <2>1, <2>2 DEF RequestOf, ChanRqdOf, Rqd, Using, Expecting
  <2>3. CASE g # h
    <3>1. client'[g] = client[g]
      BY <1>1, <2>3
    <3> QED  BY <1>1, <1>3, <2>1, <3>1 DEF RequestOf, ChanRqdOf, Rqd
  <2> QED  BY <2>2, <2>3
<1>6. Exclusive'
  BY <1>3 DEF TableInv, Exclusive
<1>7. Entered'
  BY <1>1, <1>3 DEF TableInv, Entered, Own, Request
<1> QED  BY <1>1, <1>4, <1>5, <1>6, <1>7 DEF TableInv

\* A step of h leaves the table and the others alone.
LEMMA TableOfOne ==
  ASSUME TableInv, NEW h \in Hdlrs, main = "running",
         UNCHANGED <<ConnectionTable, dchan_suspended, main>>,
         \A g \in Hdlrs \ {h} :
            /\ UNCHANGED <<stage[g], call[g], client[g], inbox[g]>>
            /\ g \in ended' <=> g \in ended
            /\ In(ipa', ChanRqdOf(g)) => In(ipa, ChanRqdOf(g))
            /\ Once(ipa, ChanRqdOf(g)) => Once(ipa', ChanRqdOf(g)),
         Registered(h)' <=> Registered(h),
         CallOf(h)', RequestOf(h)', Exclusive'
  PROVE  TableInv'
<1>1. \A g \in Hdlrs : /\ Registered(g)' <=> Registered(g)
                       /\ HasEntry(Own(g))' <=> HasEntry(Own(g))
                       /\ HasEntry(Request(g))' <=> HasEntry(Request(g))
  BY DEF Registered, HasEntry, Own, Request
<1>2. ASSUME NEW g \in Hdlrs PROVE CallOf(g)'
  BY DEF TableInv, CallOf
<1>3. ASSUME NEW g \in Hdlrs PROVE RequestOf(g)'
  <2>1. CASE g # h
    <3>1. RequestOf(g) /\ (Expecting(g)' <=> Expecting(g))
      BY <2>1 DEF TableInv, Expecting
    <3> HIDE DEF ChanRqdOf
    <3> QED  BY <1>1, <2>1, <3>1 DEF RequestOf, ChanRqdOf, Rqd
  <2> QED  BY <2>1
<1>4. Entered'
  BY <1>1 DEF TableInv, Entered, Own, Request
<1> QED  BY <1>2, <1>3, <1>4 DEF TableInv

\* What a step of a handler leaves alone
LEMMA StepFrame ==
  ASSUME Types, NEW h \in Hdlrs, NEW from, NEW to, Step(h, from, to)
  PROVE  /\ main = "running" /\ call[h] = Idle /\ stage[h] \in from /\ h \notin ended
         /\ stage'[h] = to
         /\ UNCHANGED <<ConnectionTable, dchan_suspended, main, ended, cchan, iut, bts, link>>
         /\ \A g \in Hdlrs \ {h} : stage'[g] = stage[g]
  BY DEF Step, Types, tables, queueing, btsVars

\* f_handler_init: the previous handler of the channel is gone.
LEMMA TableInit ==
  ASSUME Types, TableInv, NEW h \in Hdlrs, Register(h)
  PROVE  TableInv'
<1>1. /\ main = "running" /\ call[h] = Idle /\ stage[h] = "idle" /\ h \notin ended
      /\ stage'[h] = "registered"
      /\ UNCHANGED <<ConnectionTable, dchan_suspended, main, ended, ipa, client, inbox>>
      /\ \A g \in Hdlrs \ {h} : stage'[g] = stage[g]
  BY StepFrame DEF Register
<1>2. /\ call'[h] = [op |-> "register", lchan |-> ChanOf[h]]
      /\ \A g \in Hdlrs \ {h} : call'[g] = call[g]
  BY DEF Register, Asks, Types
<1>3. ~Registered(h)' /\ ~Registered(h)
  BY <1>1, <1>2 DEF Registered, Idle
<1>4. CallOf(h)'
  BY <1>1, <1>2 DEF CallOf
<1>5. RequestOf(h)'
  <2>1. RequestOf(h) /\ ~Expecting(h) /\ ~Expecting(h)'
    BY <1>1 DEF TableInv, Expecting
  <2>2. HasEntry(Request(h))' <=> HasEntry(Request(h))
    BY <1>1 DEF HasEntry, Request
  <2> HIDE DEF ChanRqdOf
  <2> QED  BY <1>1, <2>1, <2>2 DEF RequestOf, ChanRqdOf, Rqd, Expecting
<1>6. Exclusive'
  <2>1. \A g \in Hdlrs \ {h} : (ChanOf[g] = ChanOf[h] => Gone(g)) /\ (Gone(g)' <=> Gone(g))
    BY <1>1 DEF Register, Gone
  <2> QED  BY <2>1 DEF TableInv, Exclusive
<1> QED  BY <1>1, <1>2, <1>3, <1>4, <1>5, <1>6, TableOfOne

\* A handler gets on: its calls, registration and channel are as before.
LEMMA TableGoesOn ==
  ASSUME Types, TableInv, NEW h \in Hdlrs, NEW from, NEW to, Step(h, from, to),
         stage[h] \notin {"idle", "done"}, to \notin {"idle", "done"}, call' = call,
         \A g \in Hdlrs \ {h} :
            /\ UNCHANGED <<client[g], inbox[g]>>
            /\ In(ipa', ChanRqdOf(g)) => In(ipa, ChanRqdOf(g))
            /\ Once(ipa, ChanRqdOf(g)) => Once(ipa', ChanRqdOf(g)),
         RequestOf(h)'
  PROVE  TableInv'
<1>1. /\ main = "running" /\ call[h] = Idle /\ stage[h] \in from /\ h \notin ended
      /\ stage'[h] = to
      /\ UNCHANGED <<ConnectionTable, dchan_suspended, main, ended>>
      /\ \A g \in Hdlrs \ {h} : stage'[g] = stage[g]
  BY StepFrame
<1>3. Registered(h)' /\ Registered(h)
  BY <1>1 DEF Registered, Idle
<1>4. CallOf(h)'
  BY <1>1 DEF CallOf, Idle
<1>5. Exclusive'
  <2>1. \A g \in Hdlrs : Gone(g)' <=> Gone(g)
    BY <1>1 DEF Gone
  <2> QED  BY <2>1 DEF TableInv, Exclusive
<1> QED  BY <1>1, <1>3, <1>4, <1>5, TableOfOne

\* A handler that expects no random access has nothing of it in the queues.
LEMMA NoRequest ==
  ASSUME TableInv, NEW h \in Hdlrs, stage[h] \notin {"announced", "accessing"},
         stage'[h] \notin {"announced", "accessing"}, ipa' = ipa,
         UNCHANGED ConnectionTable, \A m : In(inbox'[h], m) => In(inbox[h], m)
  PROVE  RequestOf(h)'
<1>1. RequestOf(h) /\ ~Expecting(h) /\ ~Expecting(h)'
  BY DEF TableInv, Expecting
<1>2. ~HasEntry(Request(h)) /\ ~In(ipa, ChanRqdOf(h)) /\ ~In(inbox[h], ChanRqdOf(h))
  BY <1>1 DEF RequestOf, Expecting
<1>3. ~HasEntry(Request(h))'
  BY <1>2 DEF HasEntry, Request
<1>5. ~In(ipa', ChanRqdOf(h)) /\ ~In(inbox'[h], ChanRqdOf(h))
  BY <1>2
<1>6. Once(ipa', ChanRqdOf(h)) /\ Once(inbox'[h], ChanRqdOf(h))
  BY <1>5 DEF Once, In
<1> HIDE DEF ChanRqdOf
<1> QED  BY <1>1, <1>3, <1>5, <1>6 DEF RequestOf, ChanRqdOf, Rqd

\* f_rach_req_wait_chan_rqd: the announcement is the only message of h.
LEMMA TableAnnounce ==
  ASSUME Types, TableInv, ChannelInv, NEW h \in Hdlrs, Announce(h)
  PROVE  TableInv'
<1>1. /\ stage[h] = "registered" /\ stage'[h] = "announced" /\ h \in Callers
      /\ UNCHANGED <<ConnectionTable, ipa, call, inbox>>
      /\ client \in [Hdlrs -> Seq(ClientMessages)]
      /\ client' = [client EXCEPT ![h] = Append(@, Rqd(h))]
  BY StepFrame DEF Announce, Sends, Rqd, Types
<1>2. client[h] = <<>>
  BY <1>1, ClientHead DEF Expecting, Using
<1>3. client'[h] = <<Rqd(h)>> /\ \A g \in Hdlrs \ {h} : client'[g] = client[g]
  BY <1>1, <1>2
<1>4. RequestOf(h) /\ ~Expecting(h)
  BY <1>1 DEF TableInv, Expecting
<1>5. HasEntry(Request(h))' <=> HasEntry(Request(h))
  BY <1>1 DEF HasEntry, Request
<1>6. <<Rqd(h)>> # <<>>
  OBVIOUS
<1>7. RequestOf(h)'
  <2> HIDE DEF ChanRqdOf, Rqd
  <2> QED  BY <1>1, <1>3, <1>4, <1>5, <1>6 DEF RequestOf, ChanRqdOf, Rqd, Expecting
<1> QED  BY <1>1, <1>3, <1>7, TableGoesOn DEF Announce

\* The access burst: one CHANNEL REQUIRED for the announcement
LEMMA TableAccess ==
  ASSUME Types, TableInv, NEW h \in Hdlrs, Access(h)
  PROVE  TableInv'
<1>1. /\ stage[h] = "announced" /\ stage'[h] = "accessing"
      /\ Prompt => client[h] = <<>>
      /\ UNCHANGED <<ConnectionTable, call, inbox, client>>
      /\ ipa \in Seq(Messages) /\ ipa' = Append(ipa, ChanRqdOf(h)) /\ ChanRqdOf(h) \in Messages
  <2>1. ChanRqdOf(h) \in Messages
    BY RSLBtsAssumption DEF ChanRqdOf, Messages
  <2> QED  BY <2>1, StepFrame DEF Access, ChanRqdOf, Types
<1>2. RequestOf(h) /\ Expecting(h) /\ Expecting(h)' /\ ~In(ipa, ChanRqdOf(h))
      /\ ~In(inbox[h], ChanRqdOf(h))
  <2>1. RequestOf(h)
    BY DEF TableInv
  <2> QED  BY <1>1, <2>1 DEF RequestOf, Expecting
<1>3. HasEntry(Request(h))' <=> HasEntry(Request(h))
  BY <1>1 DEF HasEntry, Request
<1>4. Once(ipa', ChanRqdOf(h))
  BY <1>1, <1>2, OnceAppended DEF RequestOf
<1>5. RequestOf(h)'
  <2> HIDE DEF ChanRqdOf, Rqd
  <2> QED  BY <1>1, <1>2, <1>3, <1>4 DEF RequestOf, ChanRqdOf, Rqd
<1>6. ASSUME NEW g \in Hdlrs \ {h}
      PROVE  /\ In(ipa', ChanRqdOf(g)) => In(ipa, ChanRqdOf(g))
             /\ Once(ipa, ChanRqdOf(g)) => Once(ipa', ChanRqdOf(g))
  <2>1. ChanRqdOf(g) # ChanRqdOf(h)
    BY EntryKinds DEF ChanRqdOf
  <2> QED  BY <1>1, <2>1, InAppended, OnceAppended
<1> QED  BY <1>1, <1>5, <1>6, TableGoesOn DEF Access

\* ... which the handler reads.
LEMMA TableAccessed ==
  ASSUME Types, TableInv, NEW h \in Hdlrs, Accessed(h)
  PROVE  TableInv'
<1>1. /\ stage[h] = "accessing" /\ stage'[h] = "accessed"
      /\ UNCHANGED <<ConnectionTable, call, ipa, client>>
      /\ inbox \in [Hdlrs -> Seq(Messages)] /\ inbox[h] \in Seq(Messages) /\ inbox[h] # <<>>
      /\ Head(inbox[h]) = ChanRqdOf(h)
      /\ inbox' = [inbox EXCEPT ![h] = Tail(@)]
  BY StepFrame DEF Accessed, Reads, ChanRqdOf, Types
<1>2. RequestOf(h) /\ Expecting(h) /\ ~Expecting(h)'
  BY <1>1 DEF TableInv, Expecting
<1>3. inbox'[h] = Tail(inbox[h]) /\ \A g \in Hdlrs \ {h} : inbox'[g] = inbox[g]
  BY <1>1
<1>4. In(inbox[h], ChanRqdOf(h)) /\ ~In(inbox'[h], ChanRqdOf(h)) /\ Once(inbox'[h], ChanRqdOf(h))
  BY <1>1, <1>2, <1>3, InTaken, OnceTaken DEF RequestOf
<1>5. ~HasEntry(Request(h)) /\ ~In(ipa, ChanRqdOf(h))
  BY <1>2, <1>4 DEF RequestOf
<1>6. ~HasEntry(Request(h))'
  BY <1>1, <1>5 DEF HasEntry, Request
<1>7. RequestOf(h)'
  <2> HIDE DEF ChanRqdOf, Rqd
  <2> QED  BY <1>1, <1>2, <1>4, <1>5, <1>6 DEF RequestOf, ChanRqdOf, Rqd
<1> QED  BY <1>1, <1>3, <1>7, TableGoesOn DEF Accessed

\* Activation, its answer, measurement results and the release
LEMMA TableChannel ==
  ASSUME Types, TableInv, NEW h \in Hdlrs,
         Activate(h) \/ Activated(h) \/ ReadData(h) \/ Deactivate(h)
  PROVE  TableInv'
<1>1. PICK from \in {{"registered", "accessed"}, {"activating"}, {"active", "releasing"}, {"active"}},
           to \in Stages :
        Step(h, from, to) /\ to \notin {"idle", "announced", "accessing", "done"}
  <2>1. ReadData(h) => stage[h] \in {"active", "releasing"}
    BY DEF ReadData, Step
  <2> QED  BY <2>1 DEF Activate, Activated, ReadData, Deactivate, Stages
<1>2. /\ stage[h] \in from /\ stage'[h] = to /\ UNCHANGED ConnectionTable
  BY <1>1, StepFrame
<1>3. /\ UNCHANGED <<ipa, call>>
      /\ \A g \in Hdlrs \ {h} : UNCHANGED <<client[g], inbox[g]>>
      /\ \A m : In(inbox'[h], m) => In(inbox[h], m)
  <2>1. /\ UNCHANGED <<ipa, call>>
        /\ client' = client \/ \E m : Sends(h, m)
        /\ inbox' = inbox \/ \E m : Reads(h, m)
    BY DEF Activate, Activated, ReadData, Deactivate
  <2>2. \A g \in Hdlrs \ {h} : UNCHANGED <<client[g], inbox[g]>>
    BY <2>1 DEF Sends, Reads, Types
  <2>3. ASSUME \E m : Reads(h, m) PROVE \A m : In(inbox'[h], m) => In(inbox[h], m)
    <3>1. inbox[h] \in Seq(Messages) /\ inbox[h] # <<>> /\ inbox'[h] = Tail(inbox[h])
      BY <2>3 DEF Reads, Types
    <3> QED  BY <3>1, InTaken
  <2> QED  BY <2>1, <2>2, <2>3
<1>4. RequestOf(h)'
  BY <1>1, <1>2, <1>3, NoRequest
<1> QED  BY <1>1, <1>2, <1>3, <1>4, TableGoesOn

\* The handler asks for its entry to be removed ...
LEMMA TableReleased ==
  ASSUME Types, TableInv, NEW h \in Hdlrs, Released(h)
  PROVE  TableInv'
<1>1. /\ main = "running" /\ call[h] = Idle /\ stage[h] = "releasing" /\ h \notin ended
      /\ stage'[h] = "done"
      /\ UNCHANGED <<ConnectionTable, dchan_suspended, main, ended, ipa, client>>
      /\ \A g \in Hdlrs \ {h} : stage'[g] = stage[g]
  BY StepFrame DEF Released
<1>2. /\ call'[h] = [op |-> "unregister", lchan |-> ChanOf[h]]
      /\ \A g \in Hdlrs \ {h} : call'[g] = call[g]
  BY DEF Released, Asks, Types
<1>3. /\ \A g \in Hdlrs \ {h} : inbox'[g] = inbox[g]
      /\ \A m : In(inbox'[h], m) => In(inbox[h], m)
  <2>1. /\ inbox \in [Hdlrs -> Seq(Messages)] /\ inbox[h] # <<>>
        /\ inbox' = [inbox EXCEPT ![h] = Tail(@)]
    BY DEF Released, Reads, Types
  <2>2. inbox[h] \in Seq(Messages) /\ inbox'[h] = Tail(inbox[h])
    BY <2>1
  <2> QED  BY <2>1, <2>2, InTaken
<1>4. Registered(h)' /\ Registered(h)
  BY <1>1, <1>2 DEF Registered, Idle
<1>5. CallOf(h)'
  BY <1>1, <1>2 DEF CallOf
<1>6. RequestOf(h)'
  BY <1>1, <1>3, NoRequest
<1>7. Exclusive'
  <2>1. \A g \in Hdlrs : Gone(g)' <=> Gone(g)
    BY <1>1 DEF Gone
  <2> QED  BY <2>1 DEF TableInv, Exclusive
<1> QED  BY <1>1, <1>2, <1>3, <1>4, <1>5, <1>6, <1>7, TableOfOne

\* ... and ends.
LEMMA TableFinish ==
  ASSUME Types, TableInv, NEW h \in Hdlrs, Finish(h)
  PROVE  TableInv'
<1>1. /\ stage[h] = "done" /\ call[h] = Idle /\ ended' = ended \cup {h}
      /\ UNCHANGED <<ConnectionTable, dchan_suspended, main, ipa, client, inbox, stage, call>>
  BY DEF Finish, tables, queueing, suiteVars
<1>2. main = "running"
  BY <1>1 DEF TableInv
<1>3. Registered(h)' <=> Registered(h)
  BY <1>1 DEF Registered
<1>4. CallOf(h)'
  BY <1>1 DEF CallOf, Idle
<1>5. RequestOf(h)'
  BY <1>1, NoRequest
<1>6. Exclusive'
  <2>1. \A g \in Hdlrs : Gone(g) => Gone(g)'
    BY <1>1 DEF Gone
  <2> QED  BY <2>1 DEF TableInv, Exclusive
<1> QED  BY <1>1, <1>2, <1>3, <1>4, <1>5, <1>6, TableOfOne

\* The links, the BTS and the main component
LEMMA TableBts ==
  ASSUME Types, TableInv,
         \/ \E t \in Trxs : Connect(t) \/ Identify(t) \/ RfResInd(t) \/ LinkCloses(t)
         \/ BtsReacts
         \/ \E c \in Lchans : BtsSends(c)
         \/ \E r \in Ras : MainAccess(r)
  PROVE  TableInv'
<1>1. UNCHANGED <<ConnectionTable, dchan_suspended, client, call, stage, ended, inbox, main>>
  BY DEF Connect, Identify, RfResInd, LinkCloses, LinkStep, BtsReacts, BtsSends, MainAccess,
         BtsStep, tables, queueing, suiteVars
<1>2. PICK m \in Messages : ipa' = Append(ipa, m) /\ (m.t = "CHAN_RQD" => m.ra \notin HandlerRas)
  <2>1. ASSUME NEW t \in Trxs, Connect(t) \/ Identify(t) \/ RfResInd(t) \/ LinkCloses(t)
        PROVE  \E m \in Messages : ipa' = Append(ipa, m) /\ m.t # "CHAN_RQD"
    BY <2>1, RSLBtsAssumption DEF Connect, Identify, RfResInd, LinkCloses, LinkStep, Messages
  <2>2. CASE BtsReacts
    <3>1. Head(iut) \in IutMessages
      BY <2>2 DEF BtsReacts, Types
    <3>2. \A what \in {"act_ack", "rel_ack"} :
            Dr(Head(iut).lchan, what) \in Messages /\ Dr(Head(iut).lchan, what).t = "DR"
      BY <3>1 DEF Dr, Messages, IutMessages
    <3> QED  BY <2>2, <3>2 DEF BtsReacts
  <2>3. ASSUME NEW c \in Lchans, BtsSends(c)
        PROVE  \E m \in Messages : ipa' = Append(ipa, m) /\ m.t # "CHAN_RQD"
    <3>1. Dr(c, "data") \in Messages /\ Dr(c, "data").t = "DR"
      BY DEF Dr, Messages
    <3> QED  BY <2>3, <3>1 DEF BtsSends
  <2>4. ASSUME NEW r \in Ras, MainAccess(r)
        PROVE  \E m \in Messages : ipa' = Append(ipa, m) /\ m.ra \notin HandlerRas
    <3>1. [t |-> "CHAN_RQD", ra |-> r] \in Messages
      BY DEF Messages
    <3> QED  BY <2>4, <3>1 DEF MainAccess
  <2> QED  BY <2>1, <2>2, <2>3, <2>4
<1> QED  BY <1>1, <1>2, TablePut

LEMMA TableMain ==
  ASSUME TableInv, MainStep
  PROVE  TableInv'
<1>1. UNCHANGED <<ConnectionTable, dchan_suspended, client, call, stage, ended, inbox, ipa>>
  BY DEF MainStep, TrxUp, RfInd, Later, MainReads, tables, queueing
<1>2. main = "running" => main' = "running"
  BY DEF MainStep, TrxUp, RfInd, Later
<1> QED  BY <1>1, <1>2, TableRest

\* A message of a link
LEMMA TableRoute ==
  ASSUME Types, TableInv, Route, UNCHANGED <<btsVars, suiteVars>>
  PROVE  TableInv'
<1> USE DEF suiteVars
<1>1. PICK m : m \in {ipa[i] : i \in DOMAIN ipa \cap {1}} /\ FromLink(m)
  BY DEF Route
<1>2. CASE ChanRqd(m)
  BY <1>2, TableChanRqd
<1>3. CASE ToHandler(m)
  <2>1. /\ ipa # <<>> /\ m = Head(ipa) /\ m.t = "DR" /\ ipa' = Tail(ipa)
        /\ HasHandler(m.lchan) /\ inbox' = [inbox EXCEPT ![HandlerOf(m.lchan)] = Append(@, m)]
        /\ UNCHANGED <<ConnectionTable, dchan_suspended, client, call, stage, ended, main>>
    BY <1>3 DEF ToHandler, Take, Dispatcher, Deliver, tables, queueing
  <2>2. m.lchan \in Lchans
    <3>1. m \in Messages
      BY <2>1 DEF Types
    <3> QED  BY <2>1, <3>1 DEF Messages
  <2>3. PICK h \in Hdlrs : HandlerOf(m.lchan) = h
    BY <2>1, <2>2, LookupLchan
  <2> QED  BY <2>1, <2>3, TableTake
<1>4. CASE LinkFails(m)
  <2>1. UNCHANGED <<ConnectionTable, dchan_suspended, client, call, stage, ended, main, ipa, inbox>>
    BY <1>4 DEF LinkFails, Dispatcher, Fail, tables, queueing
  <2> QED  BY <2>1, TableRest
<1>5. CASE \/ LinkEstablished(m) \/ LinkIdentified(m) \/ LinkLost(m) \/ CommonChannel(m)
           \/ ToWaitingQueue(m)
  <2>1. /\ ipa # <<>> /\ ipa' = Tail(ipa)
        /\ UNCHANGED <<ConnectionTable, dchan_suspended, client, call, stage, ended, main, inbox>>
    BY <1>5
    DEF LinkEstablished, LinkIdentified, LinkLost, CommonChannel, ToWaitingQueue, Take, Dispatcher,
        tables, queueing
  <2> QED  BY <2>1, TableTake
<1>6. ~ImmAss(m) /\ ~ImmAssRej(m) /\ ~ChanActiv(m)
  BY RSLBtsAssumption DEF ImmAss, ImmAssRej, ChanActiv
<1> QED  BY <1>1, <1>2, <1>3, <1>4, <1>5, <1>6 DEF FromLink

\* Messages and calls of a handler
LEMMA TableClient ==
  ASSUME Types, TableInv, ChannelInv, NEW h \in Hdlrs, FromClient(h) \/ Serve(h),
         UNCHANGED <<btsVars, suiteVars>>
  PROVE  TableInv'
<1>1. CASE ClientFails(h)
  <2>1. UNCHANGED <<ConnectionTable, dchan_suspended, client, call, stage, ended, main, ipa, inbox>>
    BY <1>1 DEF ClientFails, Dispatcher, Fail, tables, queueing, suiteVars
  <2> QED  BY <2>1, TableRest
<1>2. call[h].op \in {"none", "register", "unregister"}
  BY DEF TableInv, CallOf, Idle
<1> QED  BY <1>1, <1>2, TableClientRqd, TableClientMsg, TableRegister, TableUnregister
    DEF FromClient, Serve, RSLEM_suspend, WaitQueueEnable, WaitQueueDispatch, RSLEM_get_last_act,
        Getcall

LEMMA StepTable ==
  ASSUME Types, TableInv, ChannelInv, [Next]_vars
  PROVE  TableInv'
<1>1. CASE Main /\ UNCHANGED <<btsVars, suiteVars>>
  BY <1>1, TableRoute, TableClient DEF Main
<1>2. ASSUME NEW h \in Hdlrs, Handler(h) PROVE TableInv'
  BY <1>2, TableInit, TableAnnounce, TableAccess, TableAccessed, TableChannel, TableReleased,
     TableFinish DEF Handler
<1>3. CASE UNCHANGED vars
  BY <1>3, TableRest DEF vars, rslVars, tables, queueing, suiteVars
<1> QED  BY <1>1, <1>2, <1>3, TableBts, TableMain DEF Next

-----------------------------------------------------------------------------
(* A channel is used from its activation to its release. *)

LEMMA ElemsAppended ==
  ASSUME NEW S, NEW s \in Seq(S), NEW m \in S
  PROVE  Elems(Append(s, m)) = Elems(s) \cup {m}
<1> DEFINE r == Append(s, m)
<1>1. /\ Len(s) \in Nat /\ r[Len(s) + 1] = m /\ Len(r) = Len(s) + 1
      /\ \A i \in Indices(s) : r[i] = s[i]
      /\ \A i \in Indices(r) : i \in Indices(s) \/ i = Len(s) + 1
  BY Appended DEF Indices
<1> HIDE DEF r
<1>2. (\A i \in Indices(s) : i \in Indices(r)) /\ Len(s) + 1 \in Indices(r)
  BY <1>1 DEF Indices
<1> QED  BY <1>1, <1>2 DEF Elems, r

LEMMA ElemsTaken ==
  ASSUME NEW S, NEW s \in Seq(S), s # <<>>
  PROVE  Head(s) \in Elems(s) /\ Elems(Tail(s)) \subseteq Elems(s)
<1> DEFINE r == Tail(s)
           h == Head(s)
<1>1. /\ h = s[1] /\ 1 \in Indices(s)
      /\ \A i \in Indices(r) : i + 1 \in Indices(s) /\ r[i] = s[i + 1]
  BY Taken
<1> HIDE DEF r, h
<1>2. h \in Elems(s)
  BY <1>1 DEF Elems
<1>3. Elems(r) \subseteq Elems(s)
  BY <1>1 DEF Elems
<1> QED  BY <1>2, <1>3 DEF r, h

LEMMA ElemsIn ==
  ASSUME NEW s, NEW m
  PROVE  In(s, m) <=> m \in Elems(s)
  BY DEF In, Elems

LEMMA Nothing ==
  /\ Elems(<<>>) = {} /\ \A m : ~In(<<>>, m)
  /\ \A c : Silent(<<>>, c)
<1>1. Indices(<<>>) = {}
  BY DEF Indices
<1> QED  BY <1>1 DEF Elems, In, Silent

\* A silent queue has no message of the channel.
LEMMA SilentElems ==
  ASSUME NEW s, NEW c, Silent(s, c), NEW m \in Elems(s)
  PROVE  ~About(m, c)
  BY DEF Silent, Elems

\* A message that comes last in a queue
LEMMA ClosedBy ==
  ASSUME NEW S, NEW s \in Seq(S), NEW a \in S, NEW c, ~In(s, a)
  PROVE  Closed(Append(s, a), c, a)
<1>1. Closed(s, c, a)
  BY ClosedWithout
<1> QED  BY <1>1, ClosedAppended

\* The handler that uses a channel is the only one that does, and is registered.
LEMMA UserRegistered ==
  ASSUME TableInv, NEW h \in Hdlrs, Using(h)
  PROVE  Registered(h) /\ ~Expecting(h)
<1>1. CallOf(h) /\ stage[h] \notin {"idle", "registered", "done"}
  BY DEF TableInv, Using
<1>2. call[h] = Idle
  BY <1>1 DEF CallOf
<1> QED  BY <1>1, <1>2 DEF Registered, Expecting, Using

LEMMA OneUser ==
  ASSUME TableInv, NEW g \in Hdlrs, NEW h \in Hdlrs, Using(g), Using(h), ChanOf[g] = ChanOf[h]
  PROVE  g = h
<1>1. ~Gone(g) /\ ~Gone(h)
  BY UserRegistered, RegisteredRuns
<1> QED  BY <1>1 DEF TableInv, Exclusive

\* The first entry of a handler that uses its channel is that of the channel.
LEMMA OwnSlot ==
  ASSUME Types, TableInv, NEW h \in Hdlrs, Using(h)
  PROVE  SlotsOfComp(h) # {} /\ LchanOfComp(h) = ChanOf[h]
<1>1. HasEntry(Own(h)) /\ ~HasEntry(Request(h))
  BY UserRegistered DEF TableInv, Entered, RequestOf
<1>2. SlotsOfComp(h) # {}
  <2>1. PICK i \in 1 .. Slots : ConnectionTable[i] = Own(h)
    BY <1>1 DEF HasEntry
  <2> QED  BY <2>1, EntryKinds DEF SlotsOfComp
<1> DEFINE i == First(SlotsOfComp(h))
<1>3. i \in 1 .. Slots /\ ConnectionTable[i].comp = h
  BY <1>2, SlotsIn DEF SlotsOfComp
<1> HIDE DEF i
<1>4. ConnectionTable[i] = Own(h)
  <2>1. CASE ConnectionTable[i] = Free
    BY <1>3, <2>1, EntryKinds
  <2>2. ASSUME NEW g \in Hdlrs, ConnectionTable[i] = Own(g) PROVE ConnectionTable[i] = Own(h)
    BY <1>3, <2>2, EntryKinds
  <2>3. ASSUME NEW g \in Hdlrs, ConnectionTable[i] = Request(g) PROVE FALSE
    <3>1. g = h
      BY <1>3, <2>3, EntryKinds
    <3> QED  BY <1>1, <1>3, <2>3, <3>1 DEF HasEntry
  <2> QED  BY <1>3, <2>1, <2>2, <2>3 DEF TableInv, Entered
<1> QED  BY <1>2, <1>4, EntryKinds DEF LchanOfComp, i

LEMMA InitChannel == Init => ChannelInv
<1> SUFFICES ASSUME Init PROVE ChannelInv
  OBVIOUS
<1>1. /\ \A h \in Hdlrs : stage[h] = "idle" /\ client[h] = <<>> /\ inbox[h] = <<>>
      /\ iut = <<>> /\ ipa = <<>> /\ bts = {}
  BY DEF Init, RSLInit
<1>2. \A h \in Hdlrs : ClientOf(h) /\ InboxOf(h) /\ ReleaseOf(h)
  BY <1>1, Nothing DEF ClientOf, InboxOf, ReleaseOf
<1> QED  BY <1>1, <1>2, Nothing DEF ChannelInv, IutUsed, IpaUsed, BtsUsed

\* No message of a channel comes into IPA_PT.
IpaQuiet ==
    /\ \A m : m.t = "DR" /\ In(ipa', m) => In(ipa, m)
    /\ \A c : Silent(ipa, c) => Silent(ipa', c)
    /\ \A c, m : Closed(ipa, c, m) => Closed(ipa', c, m)

LEMMA QuietAppended ==
  ASSUME Types, NEW m \in Messages, m.t # "DR", ipa' = Append(ipa, m)
  PROVE  IpaQuiet
<1>1. ipa \in Seq(Messages) /\ \A c : ~About(m, c)
  BY DEF Types, About, Messages
<1> HIDE DEF Messages
<1>2. \A a : In(ipa', a) <=> (In(ipa, a) \/ a = m)
  BY <1>1, InAppended
<1>3. \A c : Silent(ipa, c) => Silent(ipa', c)
  BY <1>1, SilentAppended
<1>4. \A c, a : Closed(ipa, c, a) => Closed(ipa', c, a)
  BY <1>1, ClosedAppended
<1> QED  BY <1>2, <1>3, <1>4 DEF IpaQuiet

LEMMA QuietTaken ==
  ASSUME Types, ipa # <<>>, ipa' = Tail(ipa)
  PROVE  IpaQuiet
<1>1. ipa \in Seq(Messages)
  BY DEF Types
<1> QED  BY <1>1, InTaken, SilentTaken, ClosedTaken DEF IpaQuiet

LEMMA QuietRest == ipa' = ipa => IpaQuiet
  BY DEF IpaQuiet

\* What h sent, got and released stays so when neither it nor the BTS does a step.
LEMMA ChannelSame ==
  ASSUME ChannelInv, NEW h \in Hdlrs, UNCHANGED <<stage[h], client[h], inbox[h], iut, bts>>, IpaQuiet
  PROVE  ClientOf(h)' /\ InboxOf(h)' /\ ReleaseOf(h)'
<1>1. ClientOf(h) /\ InboxOf(h) /\ ReleaseOf(h)
  BY DEF ChannelInv
<1>2. RelAck(h).t = "DR"
  BY DEF RelAck, Dr
<1>3. ReleaseOf(h)'
  <2>1. CASE stage[h] # "releasing"
    BY <2>1 DEF ReleaseOf
  <2>2. /\ In(ipa', RelAck(h)) => In(ipa, RelAck(h))
        /\ Silent(ipa, ChanOf[h]) => Silent(ipa', ChanOf[h])
        /\ Closed(ipa, ChanOf[h], RelAck(h)) => Closed(ipa', ChanOf[h], RelAck(h))
    BY <1>2 DEF IpaQuiet
  <2> HIDE DEF RelAck, IutRel
  <2>3. (ToRelease(h) => ToRelease(h)') /\ (InRelease(h) => InRelease(h)')
    BY <2>2 DEF ToRelease, InRelease, RelAck, IutRel, Rel
  <2>4. (Acknowledged(h) => Acknowledged(h)') /\ (Answered(h) => Answered(h)')
    BY <2>2 DEF Acknowledged, Answered, RelAck
  <2> QED  BY <1>1, <2>1, <2>3, <2>4 DEF ReleaseOf
<1>4. ClientOf(h)' /\ InboxOf(h)'
  BY <1>1 DEF ClientOf, InboxOf, Expecting, Using, Rqd, Activ, Rel, ChanRqdOf
<1> QED  BY <1>3, <1>4

\* Messages of the channels and active channels stay, and with them their users.
LEMMA ChannelUsed ==
  ASSUME ChannelInv, UNCHANGED <<iut, bts>>, IpaQuiet,
         \A h \in Hdlrs : /\ Using(h) => Using(h)'
                          /\ stage[h] = "releasing" => stage'[h] = "releasing"
  PROVE  IutUsed' /\ IpaUsed' /\ BtsUsed'
<1>1. \A c, m : UsedBy(c, m) => UsedBy(c, m)'
  BY DEF UsedBy
<1>2. IutUsed'
  BY <1>1 DEF ChannelInv, IutUsed
<1>3. IpaUsed'
  <2>1. \A m \in Elems(ipa') : m.t = "DR" => m \in Elems(ipa)
    BY ElemsIn DEF IpaQuiet
  <2> QED  BY <1>1, <2>1 DEF ChannelInv, IpaUsed
<1>4. BtsUsed'
  BY DEF ChannelInv, BtsUsed
<1> QED  BY <1>2, <1>3, <1>4

LEMMA ChannelRest ==
  ASSUME ChannelInv, UNCHANGED <<stage, client, inbox, iut, bts>>, IpaQuiet
  PROVE  ChannelInv'
<1>1. \A h \in Hdlrs : ClientOf(h)' /\ InboxOf(h)' /\ ReleaseOf(h)'
  BY ChannelSame
<1>2. \A h \in Hdlrs : /\ Using(h) => Using(h)'
                       /\ stage[h] = "releasing" => stage'[h] = "releasing"
  BY DEF Using
<1>3. IutUsed' /\ IpaUsed' /\ BtsUsed'
  BY <1>2, ChannelUsed
<1> QED  BY <1>1, <1>3 DEF ChannelInv

\* A step of h, which goes on using its channel if it did
LEMMA ChannelOfOne ==
  ASSUME ChannelInv, NEW h \in Hdlrs, UNCHANGED <<iut, bts>>, IpaQuiet,
         \A g \in Hdlrs \ {h} : UNCHANGED <<stage[g], client[g], inbox[g]>>,
         Using(h) => Using(h)', stage[h] = "releasing" => stage'[h] = "releasing",
         ClientOf(h)', InboxOf(h)', ReleaseOf(h)'
  PROVE  ChannelInv'
<1>1. \A g \in Hdlrs : ClientOf(g)' /\ InboxOf(g)' /\ ReleaseOf(g)'
  BY ChannelSame
<1>2. \A g \in Hdlrs : /\ Using(g) => Using(g)'
                       /\ stage[g] = "releasing" => stage'[g] = "releasing"
  BY DEF Using
<1>3. IutUsed' /\ IpaUsed' /\ BtsUsed'
  BY <1>2, ChannelUsed
<1> QED  BY <1>1, <1>3 DEF ChannelInv

\* What is left in the inbox is still for h.
LEMMA InboxKept ==
  ASSUME ChannelInv, NEW h \in Hdlrs, Elems(inbox'[h]) \subseteq Elems(inbox[h]),
         Using(h) => Using(h)', stage[h] = "releasing" => stage'[h] = "releasing"
  PROVE  InboxOf(h)'
<1>1. InboxOf(h)
  BY DEF ChannelInv
<1> HIDE DEF Using
<1> QED  BY <1>1 DEF InboxOf, ChanRqdOf

\* A handler with no request and no channel in use has nothing unsent.
LEMMA NothingSent ==
  ASSUME Types, ChannelInv, NEW h \in Hdlrs, ~Expecting(h), ~Using(h)
  PROVE  client[h] = <<>>
<1>1. stage[h] # "releasing"
  BY DEF Using
<1> QED  BY <1>1, ClientHead

\* f_handler_init, the access burst and the end of a handler
LEMMA ChannelIdle ==
  ASSUME Types, ChannelInv, NEW h \in Hdlrs, Register(h) \/ Access(h) \/ Finish(h)
  PROVE  ChannelInv'
<1>1. CASE Finish(h)
  <2>1. UNCHANGED <<stage, client, inbox, iut, bts, ipa>>
    BY <1>1 DEF Finish, btsVars, suiteVars
  <2> QED  BY <2>1, ChannelRest, QuietRest
<1>2. CASE Register(h) \/ Access(h)
  <2>1. /\ UNCHANGED <<client, inbox, iut, bts>>
        /\ stage[h] \notin {"activating", "active", "releasing"}
        /\ stage'[h] \notin {"activating", "active", "releasing"}
        /\ Expecting(h) => Expecting(h)'
        /\ \A g \in Hdlrs \ {h} : stage'[g] = stage[g]
    BY <1>2, StepFrame DEF Register, Access, Expecting
  <2>2. ~Using(h) /\ ~Using(h)' /\ stage[h] # "releasing" /\ stage'[h] # "releasing"
    BY <2>1 DEF Using
  <2>3. IpaQuiet
    <3>1. CASE Register(h)
      BY <3>1, QuietRest DEF Register
    <3>2. CASE Access(h)
      <4>1. /\ [t |-> "CHAN_RQD", ra |-> RaOf[h]] \in Messages
            /\ ipa' = Append(ipa, [t |-> "CHAN_RQD", ra |-> RaOf[h]])
        BY <3>2, RSLBtsAssumption DEF Messages, Access
      <4> QED  BY <4>1, QuietAppended
    <3> QED  BY <1>2, <3>1, <3>2
  <2>4. ClientOf(h)'
    <3>1. ClientOf(h)
      BY DEF ChannelInv
    <3> HIDE DEF Expecting, Using
    <3> QED  BY <2>1, <2>2, <3>1 DEF ClientOf, Rqd, Activ, Rel
  <2>5. InboxOf(h)'
    BY <2>1, <2>2, InboxKept
  <2>6. ReleaseOf(h)'
    BY <2>2 DEF ReleaseOf
  <2> QED  BY <2>1, <2>2, <2>3, <2>4, <2>5, <2>6, ChannelOfOne
<1> QED  BY <1>1, <1>2

\* The announcement and the activation are sent when nothing else is.
LEMMA ChannelSends ==
  ASSUME Types, ChannelInv, NEW h \in Hdlrs, Announce(h) \/ Activate(h)
  PROVE  ChannelInv'
<1>1. /\ UNCHANGED <<ipa, inbox, iut, bts>>
      /\ stage[h] \in {"registered", "accessed"}
      /\ stage'[h] # "releasing"
      /\ \A g \in Hdlrs \ {h} : stage'[g] = stage[g]
  BY StepFrame DEF Announce, Activate
<1>2. PICK m \in ClientMessages :
        /\ Sends(h, m)
        /\ \/ m = Rqd(h) /\ stage'[h] = "announced"
           \/ m = Activ(h) /\ stage'[h] = "activating"
  <2>1. Rqd(h) \in ClientMessages /\ Activ(h) \in ClientMessages
    BY RSLBtsAssumption DEF ClientMessages, Rqd, Activ
  <2> QED  BY <2>1, StepFrame DEF Announce, Activate, Rqd, Activ
<1>3. ~Expecting(h) /\ ~Using(h) /\ stage[h] # "releasing"
  BY <1>1 DEF Expecting, Using
<1>4. client[h] = <<>>
  BY <1>3, NothingSent
<1>5. Elems(client'[h]) = {m} /\ \A g \in Hdlrs \ {h} : client'[g] = client[g]
  <2>1. client \in [Hdlrs -> Seq(ClientMessages)] /\ client' = [client EXCEPT ![h] = Append(@, m)]
    BY <1>2 DEF Sends, Types
  <2>2. client'[h] = Append(client[h], m) /\ client[h] \in Seq(ClientMessages)
    BY <2>1
  <2>3. Elems(client'[h]) = Elems(client[h]) \cup {m}
    BY <2>2, ElemsAppended
  <2>4. Elems(client[h]) = {}
    BY <1>4, Nothing
  <2> QED  BY <2>1, <2>3, <2>4
<1>6. ClientOf(h)'
  BY <1>2, <1>5 DEF ClientOf, Expecting, Using, Rqd, Activ, Rel
<1>7. InboxOf(h)'
  BY <1>1, <1>3, InboxKept
<1>8. ReleaseOf(h)'
  BY <1>1 DEF ReleaseOf
<1> QED  BY <1>1, <1>3, <1>5, <1>6, <1>7, <1>8, ChannelOfOne, QuietRest

\* A handler reads the first message of its inbox.
LEMMA ReadsFirst ==
  ASSUME Types, NEW h \in Hdlrs, NEW m, Reads(h, m)
  PROVE  /\ In(inbox[h], m) /\ Elems(inbox'[h]) \subseteq Elems(inbox[h])
         /\ \A a : In(inbox'[h], a) => In(inbox[h], a)
         /\ \A c, a : Closed(inbox[h], c, a) => Closed(inbox'[h], c, a)
         /\ \A c : Closed(inbox[h], c, m) => Silent(inbox'[h], c)
         /\ \A g \in Hdlrs \ {h} : inbox'[g] = inbox[g]
<1>1. /\ inbox \in [Hdlrs -> Seq(Messages)] /\ inbox[h] # <<>> /\ Head(inbox[h]) = m
      /\ inbox' = [inbox EXCEPT ![h] = Tail(@)]
  BY DEF Types, Reads
<1>2. inbox[h] \in Seq(Messages) /\ inbox'[h] = Tail(inbox[h])
      /\ \A g \in Hdlrs \ {h} : inbox'[g] = inbox[g]
  BY <1>1
<1> HIDE DEF Messages
<1> QED  BY <1>1, <1>2, InTaken, ElemsTaken, ClosedTaken

\* f_rsl_chan_act, measurement results: the release does not get on.
LEMMA ChannelReads ==
  ASSUME Types, TableInv, ChannelInv, NEW h \in Hdlrs, Accessed(h) \/ Activated(h) \/ ReadData(h)
  PROVE  ChannelInv'
<1>1. PICK m : Reads(h, m) /\ UNCHANGED <<client, ipa>>
  BY DEF Accessed, Activated, ReadData
<1>2. /\ UNCHANGED <<iut, bts>>
      /\ \A g \in Hdlrs \ {h} : UNCHANGED <<stage[g], client[g], inbox[g]>>
      /\ Elems(inbox'[h]) \subseteq Elems(inbox[h])
  BY <1>1, StepFrame, ReadsFirst DEF Accessed, Activated, ReadData
<1>3. \/ Accessed(h) /\ stage[h] = "accessing" /\ stage'[h] = "accessed"
      \/ stage[h] = "activating" /\ stage'[h] = "active"
      \/ stage[h] \in {"active", "releasing"} /\ stage'[h] = stage[h]
  BY StepFrame DEF Accessed, Activated, ReadData
<1>4. /\ Using(h) => Using(h)'
      /\ stage[h] = "releasing" <=> stage'[h] = "releasing"
  BY <1>3 DEF Using
<1>5. InboxOf(h)'
  BY <1>2, <1>4, InboxKept
<1>6. ClientOf(h)'
  <2>1. CASE Accessed(h)
    <3>1. In(inbox[h], ChanRqdOf(h))
      BY <2>1, ReadsFirst DEF Accessed, ChanRqdOf
    <3>2. client[h] = <<>>
      BY <3>1 DEF TableInv, RequestOf
    <3> QED  BY <1>1, <3>2, Nothing DEF ClientOf
  <2>2. CASE ~Accessed(h)
    <3>1. ClientOf(h) /\ ~Expecting(h)
      BY <1>3, <2>2 DEF ChannelInv, Expecting
    <3> HIDE DEF Expecting, Using
    <3> QED  BY <1>1, <1>4, <3>1 DEF ClientOf, Rqd, Activ, Rel
  <2> QED  BY <2>1, <2>2
<1>7. ReleaseOf(h)'
  <2>1. CASE stage[h] = "releasing"
    <3>1. ReleaseOf(h)
      BY DEF ChannelInv
    <3>2. /\ In(inbox'[h], RelAck(h)) => In(inbox[h], RelAck(h))
          /\ Closed(inbox[h], ChanOf[h], RelAck(h)) => Closed(inbox'[h], ChanOf[h], RelAck(h))
      BY <1>1, ReadsFirst
    <3> HIDE DEF RelAck, IutRel
    <3>3. /\ (ToRelease(h) => ToRelease(h)') /\ (InRelease(h) => InRelease(h)')
      BY <1>1, <1>2, <3>2 DEF ToRelease, InRelease, RelAck, IutRel, Rel
    <3>4. /\ (Acknowledged(h) => Acknowledged(h)') /\ (Answered(h) => Answered(h)')
      BY <1>1, <1>2, <3>2 DEF Acknowledged, Answered, RelAck
    <3> QED  BY <2>1, <3>1, <3>3, <3>4 DEF ReleaseOf
  <2>2. CASE stage[h] # "releasing"
    BY <1>4, <2>2 DEF ReleaseOf
  <2> QED  BY <2>1, <2>2
<1> QED  BY <1>1, <1>2, <1>4, <1>5, <1>6, <1>7, ChannelOfOne, QuietRest

\* f_rsl_chan_deact: nothing of the release was there before.
LEMMA ChannelDeactivate ==
  ASSUME Types, TableInv, ChannelInv, NEW h \in Hdlrs, Deactivate(h)
  PROVE  ChannelInv'
<1>1. /\ stage[h] = "active" /\ stage'[h] = "releasing"
      /\ UNCHANGED <<ipa, inbox, iut, bts>>
      /\ client \in [Hdlrs -> Seq(ClientMessages)]
      /\ client' = [client EXCEPT ![h] = Append(@, Rel(h))] /\ Rel(h) \in ClientMessages
      /\ \A g \in Hdlrs \ {h} : stage'[g] = stage[g]
  <2>1. Rel(h) \in ClientMessages
    BY RSLBtsAssumption DEF ClientMessages, Rel
  <2> QED  BY <2>1, StepFrame DEF Deactivate, Sends, Rel, Types
<1>2. client'[h] = Append(client[h], Rel(h)) /\ client[h] \in Seq(ClientMessages)
      /\ \A g \in Hdlrs \ {h} : client'[g] = client[g]
  BY <1>1
<1>3. Using(h) /\ Using(h)' /\ ~Expecting(h)
  BY <1>1 DEF Using, Expecting
<1>4. ClientOf(h) /\ InboxOf(h) /\ IutUsed /\ IpaUsed
  BY DEF ChannelInv
<1>5. ASSUME NEW m \in {"CHAN_REL", "rel_ack"} PROVE ~UsedBy(ChanOf[h], m)
  BY <1>1, <1>3, OneUser DEF UsedBy
<1>6. ClientOf(h)'
  <2>1. Elems(client'[h]) = Elems(client[h]) \cup {Rel(h)}
    BY <1>1, <1>2, ElemsAppended
  <2> HIDE DEF Expecting, Using, Rqd, Activ, Rel
  <2> QED  BY <1>1, <1>3, <1>4, <2>1 DEF ClientOf, Rqd, Activ, Rel
<1>7. ToRelease(h)'
  <2>1. ~In(client[h], Rel(h))
    <3>1. Rel(h) # Activ(h) /\ Rel(h) # Rqd(h)
      BY DEF Rel, Activ, Rqd
    <3>2. Rel(h) \notin Elems(client[h])
      BY <1>1, <1>4, <3>1 DEF ClientOf
    <3> QED  BY <3>2, ElemsIn
  <2>2. Closed(client'[h], ChanOf[h], Rel(h))
    BY <1>1, <1>2, <2>1, ClosedBy
  <2>3. ~In(iut, IutRel(h))
    <3>1. IutRel(h).t = "CHAN_REL" /\ IutRel(h).lchan = ChanOf[h]
      BY DEF IutRel
    <3>2. IutRel(h) \notin Elems(iut)
      BY <1>4, <1>5, <3>1 DEF IutUsed
    <3> QED  BY <3>2, ElemsIn
  <2>4. ~In(ipa, RelAck(h))
    <3>1. RelAck(h).t = "DR" /\ RelAck(h).lchan = ChanOf[h] /\ RelAck(h).what = "rel_ack"
      BY DEF RelAck, Dr
    <3>2. RelAck(h) \notin Elems(ipa)
      BY <1>4, <1>5, <3>1 DEF IpaUsed
    <3> QED  BY <3>2, ElemsIn
  <2>5. ~In(inbox[h], RelAck(h))
    <3>1. RelAck(h).what = "rel_ack" /\ RelAck(h) # ChanRqdOf(h)
      BY DEF RelAck, Dr, ChanRqdOf
    <3>2. RelAck(h) \notin Elems(inbox[h])
      BY <1>1, <1>4, <3>1 DEF InboxOf
    <3> QED  BY <3>2, ElemsIn
  <2> HIDE DEF Rel, RelAck, IutRel
  <2> QED  BY <1>1, <2>2, <2>3, <2>4, <2>5 DEF ToRelease, Rel, RelAck, IutRel
<1>8. InboxOf(h)'
  BY <1>1, <1>3, InboxKept
<1>9. ReleaseOf(h)'
  BY <1>7 DEF ReleaseOf
<1> QED  BY <1>1, <1>2, <1>3, <1>6, <1>8, <1>9, ChannelOfOne, QuietRest

\* The acknowledgement is read when nothing of the channel is left.
LEMMA ChannelReleased ==
  ASSUME Types, TableInv, ChannelInv, NEW h \in Hdlrs, Released(h)
  PROVE  ChannelInv'
<1>1. /\ stage[h] = "releasing" /\ stage'[h] = "done" /\ Reads(h, RelAck(h))
      /\ UNCHANGED <<ipa, client, iut, bts>>
      /\ \A g \in Hdlrs \ {h} : stage'[g] = stage[g]
  BY StepFrame DEF Released, RelAck
<1>2. /\ In(inbox[h], RelAck(h)) /\ Elems(inbox'[h]) \subseteq Elems(inbox[h])
      /\ \A c : Closed(inbox[h], c, RelAck(h)) => Silent(inbox'[h], c)
      /\ \A g \in Hdlrs \ {h} : inbox'[g] = inbox[g]
  BY <1>1, ReadsFirst
<1>3. Answered(h)
  <2>1. ReleaseOf(h)
    BY DEF ChannelInv
  <2> QED  BY <1>1, <1>2, <2>1 DEF ReleaseOf, ToRelease, InRelease, Acknowledged
<1>4. /\ client[h] = <<>> /\ Silent(iut, ChanOf[h]) /\ ChanOf[h] \notin bts /\ Silent(ipa, ChanOf[h])
      /\ Silent(inbox'[h], ChanOf[h])
  BY <1>2, <1>3 DEF Answered
<1>5. ClientOf(h)' /\ ReleaseOf(h)'
  BY <1>1, <1>4, Nothing DEF ClientOf, ReleaseOf
<1>6. InboxOf(h)'
  <2>1. InboxOf(h)
    BY DEF ChannelInv
  <2>2. \A m \in Elems(inbox'[h]) : m = ChanRqdOf(h) \/ (m.t = "DR" /\ m.lchan = ChanOf[h])
    BY <1>2, <2>1 DEF InboxOf
  <2>3. \A m \in Elems(inbox'[h]) : ~About(m, ChanOf[h])
    BY <1>4, SilentElems
  <2>4. \A m \in Elems(inbox'[h]) : m = ChanRqdOf(h)
    BY <2>2, <2>3 DEF About
  <2> QED  BY <2>4 DEF InboxOf, ChanRqdOf
<1>7. \A g \in Hdlrs : ClientOf(g)' /\ InboxOf(g)' /\ ReleaseOf(g)'
  BY <1>1, <1>2, <1>5, <1>6, ChannelSame, QuietRest
<1>8. ASSUME NEW c, c # ChanOf[h], NEW m, UsedBy(c, m) PROVE UsedBy(c, m)'
  BY <1>1, <1>8 DEF UsedBy, Using
<1>9. IutUsed'
  <2>1. \A m \in Elems(iut) : m.t \in {"CHAN_ACTIV", "CHAN_REL"} /\ m.trx = TrxOf[m.lchan] /\ UsedBy(m.lchan, m.t)
    BY DEF ChannelInv, IutUsed
  <2>2. \A m \in Elems(iut) : m.lchan # ChanOf[h]
    BY <1>4, <2>1, SilentElems DEF About
  <2> QED  BY <1>1, <1>8, <2>1, <2>2 DEF IutUsed
<1>10. IpaUsed'
  <2>1. \A m \in Elems(ipa) : m.t = "DR" => UsedBy(m.lchan, m.what)
    BY DEF ChannelInv, IpaUsed
  <2>2. \A m \in Elems(ipa) : m.t = "DR" => m.lchan # ChanOf[h]
    BY <1>4, SilentElems DEF About
  <2> QED  BY <1>1, <1>8, <2>1, <2>2 DEF IpaUsed
<1>11. BtsUsed'
  BY <1>1, <1>4 DEF ChannelInv, BtsUsed, Using
<1> QED  BY <1>7, <1>9, <1>10, <1>11 DEF ChannelInv

\* RSLDC_ChanRqd was the only message of h.
LEMMA ChannelClientRqd ==
  ASSUME Types, TableInv, ChannelInv, NEW h \in Hdlrs, ClientRqd(h), UNCHANGED <<btsVars, suiteVars>>
  PROVE  ChannelInv'
<1>1. /\ client \in [Hdlrs -> Seq(ClientMessages)] /\ client[h] # <<>> /\ Head(client[h]).t = "RQD"
      /\ client' = [client EXCEPT ![h] = Tail(@)]
      /\ UNCHANGED <<ipa, inbox, iut, bts, stage>>
  BY RSLBtsAssumption DEF ClientRqd, FromHandler, Types, btsVars, suiteVars
<1>2. Expecting(h)
  <2>1. \/ Expecting(h)
        \/ Using(h) /\ Head(client[h]) = Activ(h)
        \/ stage[h] = "releasing" /\ Head(client[h]) = Rel(h)
    BY <1>1, ClientHead
  <2> QED  BY <1>1, <2>1 DEF Activ, Rel
<1>3. client'[h] = Tail(client[h]) /\ client[h] \in Seq(ClientMessages)
      /\ \A g \in Hdlrs \ {h} : client'[g] = client[g]
  BY <1>1
<1>4. ClientOf(h)'
  <2>1. ClientOf(h)
    BY DEF ChannelInv
  <2>2. Elems(client'[h]) \subseteq Elems(client[h])
    BY <1>1, <1>3, ElemsTaken
  <2> QED  BY <1>1, <2>1, <2>2 DEF ClientOf, Expecting, Using, Rqd, Activ, Rel
<1>5. stage[h] # "releasing"
  BY <1>2 DEF Expecting
<1>6. Using(h) => Using(h)'
  BY <1>1 DEF Using
<1>7. InboxOf(h)'
  BY <1>1, <1>6, InboxKept
<1>8. ReleaseOf(h)'
  BY <1>1, <1>5 DEF ReleaseOf
<1> QED  BY <1>1, <1>3, <1>4, <1>6, <1>7, <1>8, ChannelOfOne, QuietRest

\* The message to the BTS is that of h for its channel, on the link of the channel.
LEMMA ClientMsgSent ==
  ASSUME Types, TableInv, ChannelInv, NEW h \in Hdlrs, ClientMsg(h)
  PROVE  LET m == Head(client[h])
             r == [t |-> m.t, lchan |-> ChanOf[h], trx |-> TrxOf[ChanOf[h]]]
         IN  /\ Using(h) /\ m \in {Activ(h), Rel(h)} /\ (m = Rel(h) => stage[h] = "releasing")
             /\ r \in IutMessages /\ iut' = Append(iut, r)
<1>1. client[h] # <<>> /\ Head(client[h]).t # "RQD"
      /\ iut' = Append(iut, [t |-> Head(client[h]).t, lchan |-> Head(client[h]).lchan,
                             trx |-> TrxOf[LchanOfComp(h)]])
  BY DEF ClientMsg, FromHandler
<1>2. \/ Head(client[h]) = Rqd(h)
      \/ Using(h) /\ Head(client[h]) = Activ(h)
      \/ stage[h] = "releasing" /\ Head(client[h]) = Rel(h)
  BY <1>1, ClientHead
<1>3. Using(h) /\ Head(client[h]) \in {Activ(h), Rel(h)} /\ (Head(client[h]) = Rel(h) => stage[h] = "releasing")
  BY <1>1, <1>2 DEF Using, Rqd, Activ, Rel
<1>4. Head(client[h]).lchan = ChanOf[h] /\ Head(client[h]).t \in {"CHAN_ACTIV", "CHAN_REL"}
  BY <1>3 DEF Activ, Rel
<1>5. LchanOfComp(h) = ChanOf[h]
  BY <1>3, OwnSlot
<1>6. [t |-> Head(client[h]).t, lchan |-> ChanOf[h], trx |-> TrxOf[ChanOf[h]]] \in IutMessages
  BY <1>4, EntryKinds, RSLAssumption DEF IutMessages
<1> QED  BY <1>1, <1>3, <1>4, <1>5, <1>6

LEMMA ChannelClientMsg ==
  ASSUME Types, TableInv, ChannelInv, NEW h \in Hdlrs, ClientMsg(h), UNCHANGED <<btsVars, suiteVars>>
  PROVE  ChannelInv'
<1> DEFINE m == Head(client[h])
           r == [t |-> m.t, lchan |-> ChanOf[h], trx |-> TrxOf[ChanOf[h]]]
<1>1. /\ client \in [Hdlrs -> Seq(ClientMessages)] /\ client[h] # <<>>
      /\ client' = [client EXCEPT ![h] = Tail(@)]
      /\ iut \in Seq(IutMessages)
      /\ UNCHANGED <<ipa, inbox, bts, stage>>
  BY DEF ClientMsg, FromHandler, Types, btsVars, suiteVars
<1>2. /\ Using(h) /\ m \in {Activ(h), Rel(h)} /\ (m = Rel(h) => stage[h] = "releasing")
      /\ r \in IutMessages /\ iut' = Append(iut, r)
  BY ClientMsgSent
<1>3. client'[h] = Tail(client[h]) /\ client[h] \in Seq(ClientMessages)
      /\ \A g \in Hdlrs \ {h} : client'[g] = client[g]
  BY <1>1
<1>4. /\ r.lchan = ChanOf[h] /\ r.trx = TrxOf[ChanOf[h]] /\ r.t \in {"CHAN_ACTIV", "CHAN_REL"}
      /\ r.t = "CHAN_REL" => r = IutRel(h) /\ m = Rel(h)
      /\ r.t = "CHAN_ACTIV" => m = Activ(h) /\ m # Rel(h) /\ r # IutRel(h)
  BY <1>2 DEF Activ, Rel, IutRel
<1> HIDE DEF m, r
<1>5. \A g \in Hdlrs : (Using(g)' <=> Using(g)) /\ (Expecting(g)' <=> Expecting(g))
  BY <1>1 DEF Using, Expecting
<1>6. IutUsed' /\ IpaUsed' /\ BtsUsed'
  <2>1. \A c, a : UsedBy(c, a) => UsedBy(c, a)'
    BY <1>1, <1>5 DEF UsedBy
  <2>2. UsedBy(ChanOf[h], r.t)
    BY <1>2, <1>4 DEF UsedBy
  <2>3. Elems(iut') = Elems(iut) \cup {r}
    BY <1>1, <1>2, ElemsAppended
  <2>4. IutUsed'
    BY <1>4, <2>1, <2>2, <2>3 DEF ChannelInv, IutUsed
  <2>5. IpaUsed'
    BY <1>1, <2>1 DEF ChannelInv, IpaUsed
  <2>6. BtsUsed'
    BY <1>1, <1>5 DEF ChannelInv, BtsUsed
  <2> QED  BY <2>4, <2>5, <2>6
<1>7. ASSUME NEW g \in Hdlrs PROVE ClientOf(g)' /\ InboxOf(g)'
  <2>1. ClientOf(g) /\ InboxOf(g)
    BY DEF ChannelInv
  <2>2. Elems(client'[g]) \subseteq Elems(client[g])
    BY <1>1, <1>3, ElemsTaken
  <2>3. ClientOf(g)'
    BY <1>1, <1>5, <2>1, <2>2 DEF ClientOf, Rqd, Activ, Rel
  <2>4. InboxOf(g)'
    BY <1>1, <1>5, <2>1 DEF InboxOf, ChanRqdOf
  <2> QED  BY <2>3, <2>4
<1>8. ASSUME NEW g \in Hdlrs, stage[g] = "releasing" PROVE ReleaseOf(g)'
  <2>1. ToRelease(g) \/ InRelease(g) \/ Acknowledged(g) \/ Answered(g)
    BY <1>8 DEF ChannelInv, ReleaseOf
  <2>2. CASE g = h
    <3>1. ToRelease(h)
      BY <1>1, <2>1, <2>2 DEF InRelease, Acknowledged, Answered
    <3>2. CASE r.t = "CHAN_REL"
      <4>1. Silent(client'[h], ChanOf[h])
        <5>1. Closed(client[h], ChanOf[h], Head(client[h]))
          BY <1>4, <3>1, <3>2 DEF ToRelease, m
        <5> QED  BY <1>1, <1>3, <5>1, ClosedTaken
      <4>2. client'[h] = <<>>
        <5>1. CASE client'[h] # <<>>
          <6>1. Head(client'[h]) \in Elems(client'[h])
            <7>1. client'[h] \in Seq(ClientMessages)
              BY <1>1, <1>3, Taken
            <7> QED  BY <5>1, <7>1, ElemsTaken
          <6>2. ~About(Head(client'[h]), ChanOf[h])
            BY <4>1, <6>1, SilentElems
          <6>3. ~Expecting(h) /\ ClientOf(h)'
            BY <1>2, <1>7, UserRegistered
          <6>4. Head(client'[h]) \in {Activ(h), Rel(h)}
            BY <1>5, <6>1, <6>3 DEF ClientOf, Activ, Rel
          <6> QED  BY <6>2, <6>4 DEF About, Activ, Rel
        <5> QED  BY <5>1
      <4>3. Closed(iut', ChanOf[h], IutRel(h))
        BY <1>1, <1>2, <1>4, <3>1, <3>2, ClosedBy DEF ToRelease
      <4> HIDE DEF RelAck, IutRel
      <4>4. InRelease(h)'
        BY <1>1, <3>1, <4>2, <4>3 DEF ToRelease, InRelease, RelAck, IutRel
      <4> QED  BY <2>2, <4>4 DEF ReleaseOf
    <3>3. CASE r.t = "CHAN_ACTIV"
      <4>1. Closed(client'[h], ChanOf[h], Rel(h))
        BY <1>1, <1>3, <3>1, ClosedTaken DEF ToRelease
      <4>2. ~In(iut', IutRel(h))
        BY <1>1, <1>2, <1>4, <3>1, <3>3, InAppended DEF ToRelease
      <4> HIDE DEF RelAck, IutRel, Rel
      <4>3. ToRelease(h)'
        BY <1>1, <3>1, <4>1, <4>2 DEF ToRelease, RelAck, IutRel, Rel
      <4> QED  BY <2>2, <4>3 DEF ReleaseOf
    <3> QED  BY <1>4, <3>2, <3>3
  <2>3. CASE g # h
    <3>1. Using(g) /\ ChanOf[g] # ChanOf[h]
      BY <1>2, <1>8, <2>3, OneUser DEF Using
    <3>2. ~About(r, ChanOf[g]) /\ r # IutRel(g)
      BY <1>4, <3>1 DEF About, IutRel
    <3>3. /\ In(iut', IutRel(g)) => In(iut, IutRel(g))
          /\ Silent(iut, ChanOf[g]) => Silent(iut', ChanOf[g])
          /\ Closed(iut, ChanOf[g], IutRel(g)) => Closed(iut', ChanOf[g], IutRel(g))
      BY <1>1, <1>2, <3>2, InAppended, SilentAppended, ClosedAppended
    <3>4. client'[g] = client[g]
      BY <1>3, <2>3
    <3> HIDE DEF RelAck, IutRel
    <3>5. (ToRelease(g) => ToRelease(g)') /\ (InRelease(g) => InRelease(g)')
      BY <1>1, <3>3, <3>4 DEF ToRelease, InRelease, RelAck, IutRel, Rel
    <3>6. (Acknowledged(g) => Acknowledged(g)') /\ (Answered(g) => Answered(g)')
      BY <1>1, <3>3, <3>4 DEF Acknowledged, Answered, RelAck
    <3> QED  BY <2>1, <3>5, <3>6 DEF ReleaseOf
  <2> QED  BY <2>2, <2>3
<1>9. \A g \in Hdlrs : ReleaseOf(g)'
  BY <1>1, <1>8 DEF ReleaseOf
<1> QED  BY <1>6, <1>7, <1>9 DEF ChannelInv

\* CHAN ACTIV and RF CHAN REL are of the user of the channel.
LEMMA ChannelReacts ==
  ASSUME Types, TableInv, ChannelInv, BtsReacts
  PROVE  ChannelInv'
<1> DEFINE m == Head(iut)
           a == IF m.t = "CHAN_ACTIV" THEN Dr(m.lchan, "act_ack") ELSE Dr(m.lchan, "rel_ack")
<1>1. /\ iut \in Seq(IutMessages) /\ iut # <<>> /\ iut' = Tail(iut)
      /\ ipa \in Seq(Messages)
      /\ UNCHANGED <<client, inbox, stage>>
  BY DEF BtsReacts, BtsStep, suiteVars, Types
<1>2. m \in Elems(iut) /\ m \in IutMessages
  BY <1>1, ElemsTaken, Taken
<1>3. /\ m.t \in {"CHAN_ACTIV", "CHAN_REL"} /\ m.trx = TrxOf[m.lchan] /\ UsedBy(m.lchan, m.t)
      /\ m.lchan \in Lchans /\ m = [t |-> m.t, lchan |-> m.lchan, trx |-> m.trx]
  <2>1. /\ m.t \in {"CHAN_ACTIV", "CHAN_REL"} /\ m.lchan \in Lchans
        /\ m = [t |-> m.t, lchan |-> m.lchan, trx |-> m.trx]
    BY <1>2 DEF IutMessages
  <2>2. IutUsed
    BY DEF ChannelInv
  <2> HIDE DEF m
  <2> QED  BY <1>2, <2>1, <2>2 DEF IutUsed
<1>4. /\ ipa' = Append(ipa, a)
      /\ m.t = "CHAN_ACTIV" => bts' = bts \cup {m.lchan}
      /\ m.t = "CHAN_REL" => bts' = bts \ {m.lchan}
  BY <1>3 DEF BtsReacts
<1>5. /\ a.t = "DR" /\ a.lchan = m.lchan /\ a \in Messages /\ a.what \in {"act_ack", "rel_ack"}
      /\ a.what = "rel_ack" => m.t = "CHAN_REL"
      /\ m.t = "CHAN_ACTIV" => a.what # "rel_ack"
  BY <1>3 DEF Dr, Messages
<1> HIDE DEF m, a
<1>6. PICK h \in Hdlrs : ChanOf[h] = m.lchan /\ Using(h) /\ (m.t = "CHAN_REL" => stage[h] = "releasing")
  BY <1>3 DEF UsedBy
<1>7. \A c, k : UsedBy(c, k) => UsedBy(c, k)'
  BY <1>1 DEF UsedBy, Using
<1>8. IutUsed'
  <2>1. Elems(iut') \subseteq Elems(iut)
    BY <1>1, ElemsTaken
  <2> QED  BY <1>7, <2>1 DEF ChannelInv, IutUsed
<1>9. IpaUsed'
  <2>1. Elems(ipa') = Elems(ipa) \cup {a}
    BY <1>1, <1>4, <1>5, ElemsAppended
  <2>2. UsedBy(a.lchan, a.what)
    BY <1>5, <1>6 DEF UsedBy
  <2> QED  BY <1>7, <2>1, <2>2 DEF ChannelInv, IpaUsed
<1>10. BtsUsed'
  BY <1>1, <1>3, <1>4, <1>6 DEF ChannelInv, BtsUsed, Using
<1>11. \A g \in Hdlrs : ClientOf(g)' /\ InboxOf(g)'
  BY <1>1 DEF ChannelInv, ClientOf, InboxOf, Expecting, Using, Rqd, Activ, Rel, ChanRqdOf
<1>12. ASSUME NEW g \in Hdlrs, stage[g] = "releasing" PROVE ReleaseOf(g)'
  <2>1. ToRelease(g) \/ InRelease(g) \/ Acknowledged(g) \/ Answered(g)
    BY <1>12 DEF ChannelInv, ReleaseOf
  <2>2. /\ RelAck(g).what = "rel_ack" /\ RelAck(g).lchan = ChanOf[g]
        /\ IutRel(g).t = "CHAN_REL" /\ IutRel(g).lchan = ChanOf[g]
    BY DEF RelAck, IutRel, Dr
  <2>3. CASE g = h
    <3>1. ~Silent(iut, ChanOf[g])
      BY <1>2, <1>3, <1>6, <2>3, SilentElems DEF About
    <3>2. ToRelease(g) \/ InRelease(g)
      BY <2>1, <3>1 DEF Acknowledged, Answered
    <3>3. CASE m.t = "CHAN_ACTIV"
      <4>1. a # RelAck(g)
        BY <1>5, <2>2, <3>3
      <4>2. /\ In(iut', IutRel(g)) => In(iut, IutRel(g))
            /\ Closed(iut, ChanOf[g], IutRel(g)) => Closed(iut', ChanOf[g], IutRel(g))
            /\ In(ipa', RelAck(g)) => In(ipa, RelAck(g))
        BY <1>1, <1>4, <1>5, <4>1, InTaken, ClosedTaken, InAppended
      <4> HIDE DEF RelAck, IutRel
      <4>3. (ToRelease(g) => ToRelease(g)') /\ (InRelease(g) => InRelease(g)')
        BY <1>1, <4>2 DEF ToRelease, InRelease, RelAck, IutRel, Rel
      <4> QED  BY <3>2, <4>3 DEF ReleaseOf
    <3>4. CASE m.t = "CHAN_REL"
      <4>1. m = IutRel(g) /\ a = RelAck(g)
        BY <1>3, <1>6, <2>3, <3>4 DEF IutRel, RelAck, a
      <4>2. InRelease(g)
        BY <1>2, <3>2, <4>1, ElemsIn DEF ToRelease
      <4>3. Silent(iut', ChanOf[g])
        <5>1. Closed(iut, ChanOf[g], Head(iut))
          BY <4>1, <4>2 DEF InRelease, m
        <5> QED  BY <1>1, <5>1, ClosedTaken
      <4>4. Closed(ipa', ChanOf[g], RelAck(g))
        <5>1. ipa' = Append(ipa, RelAck(g)) /\ RelAck(g) \in Messages
          BY <1>4, <1>5, <4>1
        <5> QED  BY <1>1, <4>2, <5>1, ClosedBy DEF InRelease
      <4>5. ChanOf[g] \notin bts'
        BY <1>4, <1>6, <2>3, <3>4
      <4> HIDE DEF RelAck
      <4>6. Acknowledged(g)'
        BY <1>1, <4>2, <4>3, <4>4, <4>5 DEF InRelease, Acknowledged, RelAck
      <4> QED  BY <4>6 DEF ReleaseOf
    <3> QED  BY <1>3, <3>3, <3>4
  <2>4. CASE g # h
    <3>1. Using(g) /\ ChanOf[g] # m.lchan
      BY <1>6, <1>12, <2>4, OneUser DEF Using
    <3>2. ~About(a, ChanOf[g]) /\ a # RelAck(g)
      BY <1>5, <2>2, <3>1 DEF About
    <3>3. /\ In(iut', IutRel(g)) => In(iut, IutRel(g))
          /\ Silent(iut, ChanOf[g]) => Silent(iut', ChanOf[g])
          /\ Closed(iut, ChanOf[g], IutRel(g)) => Closed(iut', ChanOf[g], IutRel(g))
      BY <1>1, InTaken, SilentTaken, ClosedTaken
    <3>4. /\ In(ipa', RelAck(g)) => In(ipa, RelAck(g))
          /\ Silent(ipa, ChanOf[g]) => Silent(ipa', ChanOf[g])
          /\ Closed(ipa, ChanOf[g], RelAck(g)) => Closed(ipa', ChanOf[g], RelAck(g))
      BY <1>1, <1>4, <1>5, <3>2, InAppended, SilentAppended, ClosedAppended
    <3>5. ChanOf[g] \notin bts => ChanOf[g] \notin bts'
      BY <1>3, <1>4, <3>1
    <3> HIDE DEF RelAck, IutRel
    <3>6. (ToRelease(g) => ToRelease(g)') /\ (InRelease(g) => InRelease(g)')
      BY <1>1, <3>3, <3>4 DEF ToRelease, InRelease, RelAck, IutRel, Rel
    <3>7. (Acknowledged(g) => Acknowledged(g)') /\ (Answered(g) => Answered(g)')
      BY <1>1, <3>3, <3>4, <3>5 DEF Acknowledged, Answered, RelAck
    <3> QED  BY <2>1, <3>6, <3>7 DEF ReleaseOf
  <2> QED  BY <2>3, <2>4
<1>13. \A g \in Hdlrs : ReleaseOf(g)'
  BY <1>1, <1>12 DEF ReleaseOf
<1> QED  BY <1>8, <1>9, <1>10, <1>11, <1>13 DEF ChannelInv

\* Measurement results come of an active channel, which is not yet released.
LEMMA ChannelData ==
  ASSUME Types, TableInv, ChannelInv, NEW c \in Lchans, BtsSends(c)
  PROVE  ChannelInv'
<1> DEFINE a == Dr(c, "data")
<1>1. /\ UNCHANGED <<client, inbox, stage, iut, bts>> /\ c \in bts
      /\ ipa \in Seq(Messages) /\ ipa' = Append(ipa, a) /\ a \in Messages
  <2>1. Dr(c, "data") \in Messages
    BY DEF Dr, Messages
  <2> QED  BY <2>1 DEF BtsSends, BtsStep, btsVars, suiteVars, Types
<1>2. a.t = "DR" /\ a.lchan = c /\ a.what = "data" /\ a.what # "rel_ack"
  BY DEF Dr
<1> HIDE DEF a
<1>3. PICK h \in Hdlrs : ChanOf[h] = c /\ Using(h)
  BY <1>1 DEF ChannelInv, BtsUsed
<1>4. \A d, k : UsedBy(d, k) => UsedBy(d, k)'
  BY <1>1 DEF UsedBy, Using
<1>5. IutUsed'
  BY <1>1, <1>4 DEF ChannelInv, IutUsed
<1>6. IpaUsed'
  <2>1. Elems(ipa') = Elems(ipa) \cup {a}
    BY <1>1, ElemsAppended
  <2>2. UsedBy(a.lchan, a.what)
    BY <1>2, <1>3 DEF UsedBy
  <2> QED  BY <1>4, <2>1, <2>2 DEF ChannelInv, IpaUsed
<1>7. BtsUsed'
  BY <1>1 DEF ChannelInv, BtsUsed, Using
<1>8. \A g \in Hdlrs : ClientOf(g)' /\ InboxOf(g)'
  BY <1>1 DEF ChannelInv, ClientOf, InboxOf, Expecting, Using, Rqd, Activ, Rel, ChanRqdOf
<1>9. ASSUME NEW g \in Hdlrs PROVE ReleaseOf(g)'
  <2>1. ReleaseOf(g)
    BY DEF ChannelInv
  <2>2. RelAck(g).what = "rel_ack"
    BY DEF RelAck, Dr
  <2>3. In(ipa', RelAck(g)) => In(ipa, RelAck(g))
    BY <1>1, <1>2, <2>2, InAppended
  <2>4. ChanOf[g] \notin bts =>
            /\ Silent(ipa, ChanOf[g]) => Silent(ipa', ChanOf[g])
            /\ Closed(ipa, ChanOf[g], RelAck(g)) => Closed(ipa', ChanOf[g], RelAck(g))
    <3>1. CASE ChanOf[g] \notin bts
      <4>1. ~About(a, ChanOf[g])
        BY <1>1, <1>2, <3>1 DEF About
      <4> QED  BY <1>1, <4>1, SilentAppended, ClosedAppended
    <3> QED  BY <3>1
  <2> HIDE DEF RelAck, IutRel
  <2>5. (ToRelease(g) => ToRelease(g)') /\ (InRelease(g) => InRelease(g)')
    BY <1>1, <2>3 DEF ToRelease, InRelease, RelAck, IutRel, Rel
  <2>6. (Acknowledged(g) => Acknowledged(g)') /\ (Answered(g) => Answered(g)')
    BY <1>1, <2>4 DEF Acknowledged, Answered, RelAck
  <2> QED  BY <1>1, <2>1, <2>5, <2>6 DEF ReleaseOf
<1> QED  BY <1>5, <1>6, <1>7, <1>8, <1>9 DEF ChannelInv

\* A message goes to an inbox.
LEMMA Delivered ==
  ASSUME Types, NEW h \in Hdlrs, NEW m \in Messages, inbox' = [inbox EXCEPT ![h] = Append(@, m)]
  PROVE  /\ \A g \in Hdlrs \ {h} : inbox'[g] = inbox[g]
         /\ inbox[h] \in Seq(Messages) /\ inbox'[h] = Append(inbox[h], m)
  BY DEF Types

\* A message of a channel goes to the user of the channel.
LEMMA ChannelToHandler ==
  ASSUME Types, TableInv, ChannelInv, NEW m, ToHandler(m), UNCHANGED <<btsVars, suiteVars>>
  PROVE  ChannelInv'
<1>1. /\ ipa \in Seq(Messages) /\ ipa # <<>> /\ m = Head(ipa) /\ m.t = "DR" /\ ipa' = Tail(ipa)
      /\ HasHandler(m.lchan) /\ inbox' = [inbox EXCEPT ![HandlerOf(m.lchan)] = Append(@, m)]
      /\ UNCHANGED <<client, stage, iut, bts>>
  BY DEF ToHandler, Take, Deliver, btsVars, suiteVars, Types
<1>2. m \in Messages /\ m.lchan \in Lchans /\ m = Dr(m.lchan, m.what)
  <2>1. m \in Messages
    BY <1>1, Taken
  <2> QED  BY <1>1, <2>1 DEF Messages, Dr
<1>3. PICK h \in Hdlrs : HandlerOf(m.lchan) = h /\ ChanOf[h] = m.lchan /\ Registered(h)
  BY <1>1, <1>2, LookupLchan
<1>4. Using(h) /\ (m.what = "rel_ack" => stage[h] = "releasing")
  <2>1. UsedBy(m.lchan, m.what)
    <3>1. m \in Elems(ipa)
      BY <1>1, ElemsTaken
    <3> QED  BY <1>1, <3>1 DEF ChannelInv, IpaUsed
  <2>2. PICK g \in Hdlrs : /\ ChanOf[g] = m.lchan /\ Using(g)
                           /\ m.what = "rel_ack" => stage[g] = "releasing"
    BY <2>1 DEF UsedBy
  <2>3. Registered(g)
    BY <2>2, UserRegistered
  <2>4. g = h
    BY <1>3, <2>2, <2>3, RegisteredRuns DEF TableInv, Exclusive
  <2> QED  BY <2>2, <2>4
<1>5. /\ \A g \in Hdlrs \ {h} : inbox'[g] = inbox[g]
      /\ inbox[h] \in Seq(Messages) /\ inbox'[h] = Append(inbox[h], m)
  BY <1>1, <1>2, <1>3, Delivered
<1>6. IpaQuiet
  BY <1>1, QuietTaken
<1>7. ClientOf(h)'
  BY <1>1 DEF ChannelInv, ClientOf, Expecting, Using, Rqd, Activ, Rel
<1>8. InboxOf(h)'
  <2>1. Elems(inbox'[h]) = Elems(inbox[h]) \cup {m}
    BY <1>2, <1>5, ElemsAppended
  <2>2. InboxOf(h) /\ (Using(h)' <=> Using(h)) /\ stage' = stage
    BY <1>1 DEF ChannelInv, Using
  <2> HIDE DEF Using
  <2> QED  BY <1>1, <1>3, <1>4, <2>1, <2>2 DEF InboxOf, ChanRqdOf
<1>9. ReleaseOf(h)'
  <2>1. CASE stage[h] # "releasing"
    BY <1>1, <2>1 DEF ReleaseOf
  <2>2. CASE stage[h] = "releasing"
    <3>1. ToRelease(h) \/ InRelease(h) \/ Acknowledged(h)
      <4>1. ~Silent(ipa, ChanOf[h])
        BY <1>1, <1>3, ElemsTaken, SilentElems DEF About
      <4>2. ReleaseOf(h)
        BY DEF ChannelInv
      <4> QED  BY <2>2, <4>1, <4>2 DEF ReleaseOf, Answered
    <3>2. RelAck(h).t = "DR" /\ RelAck(h).what = "rel_ack" /\ RelAck(h).lchan = ChanOf[h]
      BY DEF RelAck, Dr
    <3>3. CASE m = RelAck(h)
      <4>1. Acknowledged(h)
        BY <1>1, <3>1, <3>3, InTaken DEF ToRelease, InRelease
      <4>2. Silent(ipa', ChanOf[h])
        BY <1>1, <3>3, <4>1, ClosedTaken DEF Acknowledged
      <4>3. Closed(inbox'[h], ChanOf[h], RelAck(h))
        BY <1>2, <1>5, <3>3, <4>1, ClosedBy DEF Acknowledged
      <4> HIDE DEF RelAck
      <4>4. Answered(h)'
        BY <1>1, <4>1, <4>2, <4>3 DEF Acknowledged, Answered, RelAck
      <4> QED  BY <4>4 DEF ReleaseOf
    <3>4. CASE m # RelAck(h)
      <4>1. /\ In(inbox'[h], RelAck(h)) => In(inbox[h], RelAck(h))
            /\ In(ipa', RelAck(h)) => In(ipa, RelAck(h))
            /\ Closed(ipa, ChanOf[h], RelAck(h)) => Closed(ipa', ChanOf[h], RelAck(h))
        BY <1>1, <1>2, <1>5, <3>4, InAppended, InTaken, ClosedTaken
      <4> HIDE DEF RelAck, IutRel
      <4>2. (ToRelease(h) => ToRelease(h)') /\ (InRelease(h) => InRelease(h)')
        BY <1>1, <4>1 DEF ToRelease, InRelease, RelAck, IutRel, Rel
      <4>3. Acknowledged(h) => Acknowledged(h)'
        BY <1>1, <4>1 DEF Acknowledged, RelAck
      <4> QED  BY <3>1, <4>2, <4>3 DEF ReleaseOf
    <3> QED  BY <3>3, <3>4
  <2> QED  BY <2>1, <2>2
<1> QED  BY <1>1, <1>5, <1>6, <1>7, <1>8, <1>9, ChannelOfOne DEF Using

\* CHANNEL REQUIRED is for the handler that announced it.
LEMMA ChannelChanRqd ==
  ASSUME Types, TableInv, ChannelInv, NEW m, ChanRqd(m), UNCHANGED <<btsVars, suiteVars>>
  PROVE  ChannelInv'
<1>1. /\ ipa \in Seq(Messages) /\ ipa # <<>> /\ m = Head(ipa) /\ m.t = "CHAN_RQD" /\ ipa' = Tail(ipa)
      /\ UNCHANGED <<client, stage, iut, bts>>
  BY DEF ChanRqd, Take, btsVars, suiteVars, Types
<1>2. m \in Messages /\ m.ra \in Ras /\ m = [t |-> "CHAN_RQD", ra |-> m.ra]
  <2>1. m \in Messages
    BY <1>1, Taken
  <2> QED  BY <1>1, <2>1 DEF Messages
<1>3. IpaQuiet
  BY <1>1, QuietTaken
<1>4. CASE SlotsOfRa(m.ra) = {}
  BY <1>1, <1>3, <1>4, ChannelRest DEF ChanRqd
<1>5. CASE SlotsOfRa(m.ra) # {}
  <2>1. PICK h \in Hdlrs : RaOf[h] = m.ra /\ ConnectionTable[First(SlotsOfRa(m.ra))] = Request(h)
    BY <1>2, <1>5, LookupRa
  <2>2. inbox' = [inbox EXCEPT ![h] = Append(@, m)] /\ m = ChanRqdOf(h)
    BY <1>2, <1>5, <2>1, EntryKinds DEF ChanRqd, Deliver, ChanRqdOf
  <2>3. /\ \A g \in Hdlrs \ {h} : inbox'[g] = inbox[g]
        /\ inbox[h] \in Seq(Messages) /\ inbox'[h] = Append(inbox[h], m)
    BY <1>2, <2>2, Delivered
  <2>4. ClientOf(h)'
    BY <1>1 DEF ChannelInv, ClientOf, Expecting, Using, Rqd, Activ, Rel
  <2>5. InboxOf(h)'
    <3>1. Elems(inbox'[h]) = Elems(inbox[h]) \cup {m}
      BY <1>2, <2>3, ElemsAppended
    <3>2. InboxOf(h) /\ (Using(h)' <=> Using(h)) /\ stage' = stage
      BY <1>1 DEF ChannelInv, Using
    <3> HIDE DEF Using
    <3> QED  BY <2>2, <3>1, <3>2 DEF InboxOf, ChanRqdOf
  <2>6. ReleaseOf(h)'
    <3>1. stage[h] # "releasing"
      <4>1. HasEntry(Request(h))
        BY <1>2, <1>5, <2>1, LookupRa DEF HasEntry
      <4> QED  BY <4>1 DEF TableInv, RequestOf, Expecting
    <3> QED  BY <1>1, <3>1 DEF ReleaseOf
  <2> QED  BY <1>1, <1>3, <2>3, <2>4, <2>5, <2>6, ChannelOfOne DEF Using
<1> QED  BY <1>4, <1>5

LEMMA ChannelRoute ==
  ASSUME Types, TableInv, ChannelInv, Route, UNCHANGED <<btsVars, suiteVars>>
  PROVE  ChannelInv'
<1> USE DEF btsVars, suiteVars
<1>1. PICK m : m \in {ipa[i] : i \in DOMAIN ipa \cap {1}} /\ FromLink(m)
  BY DEF Route
<1>2. CASE LinkFails(m)
  <2>1. UNCHANGED <<stage, client, inbox, iut, bts, ipa>>
    BY <1>2 DEF LinkFails, Fail
  <2> QED  BY <2>1, ChannelRest, QuietRest
<1>3. CASE \/ LinkEstablished(m) \/ LinkIdentified(m) \/ LinkLost(m) \/ CommonChannel(m)
           \/ ToWaitingQueue(m)
  <2>1. /\ ipa # <<>> /\ ipa' = Tail(ipa) /\ UNCHANGED <<stage, client, inbox, iut, bts>>
    BY <1>3 DEF LinkEstablished, LinkIdentified, LinkLost, CommonChannel, ToWaitingQueue, Take
  <2> QED  BY <2>1, ChannelRest, QuietTaken
<1>4. ~ImmAss(m) /\ ~ImmAssRej(m) /\ ~ChanActiv(m)
  BY RSLBtsAssumption DEF ImmAss, ImmAssRej, ChanActiv
<1> QED  BY <1>1, <1>2, <1>3, <1>4, ChannelToHandler, ChannelChanRqd DEF FromLink

LEMMA ChannelClient ==
  ASSUME Types, TableInv, ChannelInv, NEW h \in Hdlrs, FromClient(h) \/ Serve(h),
         UNCHANGED <<btsVars, suiteVars>>
  PROVE  ChannelInv'
<1>1. CASE ClientFails(h) \/ RSLEM_register(h) \/ RSLEM_unregister(h)
  <2>1. UNCHANGED <<stage, client, inbox, iut, bts, ipa>>
    BY <1>1 DEF ClientFails, RSLEM_register, RSLEM_unregister, Reply, Fail, btsVars, suiteVars
  <2> QED  BY <2>1, ChannelRest, QuietRest
<1>2. call[h].op \in {"none", "register", "unregister"}
  BY DEF TableInv, CallOf, Idle
<1> QED  BY <1>1, <1>2, ChannelClientRqd, ChannelClientMsg
    DEF FromClient, Serve, RSLEM_suspend, WaitQueueEnable, WaitQueueDispatch, RSLEM_get_last_act,
        Getcall

LEMMA ChannelBts ==
  ASSUME Types, TableInv, ChannelInv,
         \/ \E t \in Trxs : Connect(t) \/ Identify(t) \/ RfResInd(t) \/ LinkCloses(t)
         \/ \E r \in Ras : MainAccess(r)
         \/ MainStep
  PROVE  ChannelInv'
<1>1. CASE MainStep
  <2>1. UNCHANGED <<stage, client, inbox, iut, bts, ipa>>
    BY <1>1 DEF MainStep, TrxUp, RfInd, Later, MainReads, btsVars
  <2> QED  BY <2>1, ChannelRest, QuietRest
<1>2. CASE ~MainStep
  <2>1. UNCHANGED <<stage, client, inbox, iut, bts>>
    BY <1>2 DEF Connect, Identify, RfResInd, LinkCloses, LinkStep, MainAccess, BtsStep, btsVars, suiteVars
  <2>2. PICK m \in Messages : m.t # "DR" /\ ipa' = Append(ipa, m)
    <3>1. ASSUME NEW t \in Trxs, Connect(t) \/ Identify(t) \/ RfResInd(t) \/ LinkCloses(t)
          PROVE  \E m \in Messages : m.t # "DR" /\ ipa' = Append(ipa, m)
      BY <3>1, RSLBtsAssumption DEF Connect, Identify, RfResInd, LinkCloses, LinkStep, Messages
    <3>2. ASSUME NEW r \in Ras, MainAccess(r)
          PROVE  \E m \in Messages : m.t # "DR" /\ ipa' = Append(ipa, m)
      <4>1. [t |-> "CHAN_RQD", ra |-> r] \in Messages
        BY DEF Messages
      <4> QED  BY <3>2, <4>1 DEF MainAccess
    <3> QED  BY <1>2, <3>1, <3>2
  <2> QED  BY <2>1, <2>2, ChannelRest, QuietAppended
<1> QED  BY <1>1, <1>2

LEMMA StepChannel ==
  ASSUME Types, TableInv, ChannelInv, [Next]_vars
  PROVE  ChannelInv'
<1>1. CASE Main /\ UNCHANGED <<btsVars, suiteVars>>
  BY <1>1, ChannelRoute, ChannelClient DEF Main
<1>2. ASSUME NEW h \in Hdlrs, Handler(h) PROVE ChannelInv'
  BY <1>2, ChannelIdle, ChannelSends, ChannelReads, ChannelDeactivate, ChannelReleased DEF Handler
<1>3. CASE UNCHANGED vars
  BY <1>3, ChannelRest, QuietRest DEF vars, rslVars, btsVars, suiteVars
<1> QED  BY <1>1, <1>2, <1>3, ChannelBts, ChannelReacts, ChannelData DEF Next

-----------------------------------------------------------------------------
(* The table has room. *)

UsedLchans == {ChanOf[h] : h \in Hdlrs}

LEMMA UsedLchansFinite == IsFiniteSet(UsedLchans)
<1>1. ChanOf \in Surjection(Hdlrs, UsedLchans)
  BY RSLBtsAssumption DEF Surjection, UsedLchans
<1> QED  BY <1>1, SlotsSuffice, FS_Surjection

\* Channels and requests share the slots of a full table.
LEMMA SlotsCounted ==
  ASSUME TableInv, NEW C \in SUBSET UsedLchans, NEW K \in SUBSET Callers,
         \A i \in 1 .. Slots :
            \/ \E h \in Hdlrs : ConnectionTable[i] = Own(h) /\ Registered(h) /\ ChanOf[h] \in C
            \/ \E h \in K : ConnectionTable[i] = Request(h)
  PROVE  Slots <= Cardinality(C) + Cardinality(K)
<1> DEFINE A == {i \in 1 .. Slots : ConnectionTable[i].lchan # None}
           B == {i \in 1 .. Slots : ConnectionTable[i].lchan = None}
           f == [i \in A |-> ConnectionTable[i].lchan]
           g == [i \in B |-> ConnectionTable[i].comp]
<1>1. IsFiniteSet(Callers) /\ IsFiniteSet(C) /\ IsFiniteSet(K) /\ K \subseteq Hdlrs
  BY UsedLchansFinite, SlotsSuffice, RSLBtsAssumption, FS_Subset
<1>2. \A i \in A : \E h \in Hdlrs : ConnectionTable[i] = Own(h) /\ Registered(h) /\ ChanOf[h] \in C
  BY <1>1, EntryKinds
<1>3. \A i \in B : \E h \in K : ConnectionTable[i] = Request(h)
  BY EntryKinds
<1>4. \A i, j \in 1 .. Slots : ConnectionTable[i] = ConnectionTable[j] /\ ConnectionTable[i] # Free => i = j
  BY DEF TableInv, Entered
<1>5. f \in Injection(A, C)
  <2>1. f \in [A -> C]
    BY <1>2, EntryKinds
  <2>2. ASSUME NEW i \in A, NEW j \in A, f[i] = f[j] PROVE i = j
    <3>1. PICK h \in Hdlrs : ConnectionTable[i] = Own(h) /\ Registered(h)
      BY <1>2
    <3>2. PICK k \in Hdlrs : ConnectionTable[j] = Own(k) /\ Registered(k)
      BY <1>2
    <3>3. ChanOf[h] = ChanOf[k]
      BY <2>2, <3>1, <3>2, EntryKinds
    <3>4. h = k
      BY <3>1, <3>2, <3>3, RegisteredRuns DEF TableInv, Exclusive
    <3> QED  BY <1>4, <3>1, <3>2, <3>4, EntryKinds
  <2> HIDE DEF f, A
  <2> QED  BY <2>1, <2>2 DEF Injection, IsInjective
<1>6. g \in Injection(B, K)
  <2>1. g \in [B -> K]
    BY <1>1, <1>3, EntryKinds
  <2>2. ASSUME NEW i \in B, NEW j \in B, g[i] = g[j] PROVE i = j
    <3>1. PICK h \in K : ConnectionTable[i] = Request(h)
      BY <1>3
    <3>2. PICK k \in K : ConnectionTable[j] = Request(k)
      BY <1>3
    <3>3. h = k
      BY <1>1, <2>2, <3>1, <3>2, EntryKinds
    <3> QED  BY <1>1, <1>4, <3>1, <3>2, <3>3, EntryKinds
  <2> HIDE DEF g, B
  <2> QED  BY <2>1, <2>2 DEF Injection, IsInjective
<1>7. A \cup B = 1 .. Slots /\ A \cap B = {}
  OBVIOUS
<1> HIDE DEF A, B, f, g
<1>8. /\ IsFiniteSet(A) /\ Cardinality(A) <= Cardinality(C)
      /\ IsFiniteSet(B) /\ Cardinality(B) <= Cardinality(K)
  BY <1>1, <1>5, <1>6, FS_Injection
<1>9. Cardinality(A \cup B) = Cardinality(A) + Cardinality(B)
  <2>1. Cardinality(A \cup B) = Cardinality(A) + Cardinality(B) - 0
    BY <1>7, <1>8, FS_Union, FS_EmptySet
  <2> QED  BY <1>8, <2>1, FS_CardinalityType
<1>10. Cardinality(1 .. Slots) = Slots
  BY RSLAssumption, FS_Interval
<1>11. /\ Cardinality(A) \in Nat /\ Cardinality(B) \in Nat
       /\ Cardinality(C) \in Nat /\ Cardinality(K) \in Nat
  BY <1>1, <1>8, FS_CardinalityType
<1>12. Slots = Cardinality(A) + Cardinality(B)
  BY <1>7, <1>9, <1>10, Zenon
<1> QED  BY <1>8, <1>11, <1>12

\* A slot is free for a handler that registers its channel or announces a random access.
LEMMA SlotFree ==
  ASSUME Types, TableInv, NEW h \in Hdlrs,
         \/ ~Registered(h) /\ ~Gone(h)
         \/ h \in Callers /\ ~HasEntry(Request(h))
  PROVE  FreeSlots # {}
<1> SUFFICES ASSUME FreeSlots = {} PROVE FALSE
  OBVIOUS
<1> DEFINE C == IF Registered(h) \/ Gone(h) THEN UsedLchans ELSE UsedLchans \ {ChanOf[h]}
           K == IF HasEntry(Request(h)) THEN Callers ELSE Callers \ {h}
<1>1. ASSUME NEW i \in 1 .. Slots
      PROVE  \/ \E g \in Hdlrs : ConnectionTable[i] = Own(g) /\ Registered(g) /\ ChanOf[g] \in C
             \/ \E g \in K : ConnectionTable[i] = Request(g)
  <2>1. ConnectionTable[i] # Free
    BY EntryKinds DEF FreeSlots
  <2>2. ASSUME NEW g \in Hdlrs, ConnectionTable[i] = Own(g), Registered(g) PROVE ChanOf[g] \in C
    <3>1. ~Gone(g) /\ ChanOf[g] \in UsedLchans
      BY <2>2, RegisteredRuns DEF UsedLchans
    <3>2. ~Registered(h) /\ ~Gone(h) => ChanOf[g] # ChanOf[h]
      BY <2>2, <3>1 DEF TableInv, Exclusive
    <3> QED  BY <3>1, <3>2
  <2>3. ASSUME NEW g \in Hdlrs, ConnectionTable[i] = Request(g) PROVE g \in K
    <3>1. HasEntry(Request(g))
      BY <2>3 DEF HasEntry
    <3>2. g \in Callers
      BY <3>1 DEF TableInv, RequestOf
    <3> QED  BY <3>1, <3>2
  <2> HIDE DEF C, K
  <2> QED  BY <2>1, <2>2, <2>3 DEF TableInv, Entered
<1>2. C \in SUBSET UsedLchans /\ K \in SUBSET Callers
  OBVIOUS
<1>3. Slots <= Cardinality(C) + Cardinality(K)
  <2> HIDE DEF C, K
  <2> QED  BY <1>1, <1>2, SlotsCounted
<1>4. IsFiniteSet(UsedLchans) /\ IsFiniteSet(Callers) /\ ChanOf[h] \in UsedLchans
  BY UsedLchansFinite, SlotsSuffice, RSLBtsAssumption, FS_Subset DEF UsedLchans
<1>5. /\ Cardinality(UsedLchans \ {ChanOf[h]}) = Cardinality(UsedLchans) - 1
      /\ h \in Callers => Cardinality(Callers \ {h}) = Cardinality(Callers) - 1
      /\ Cardinality(UsedLchans) \in Nat /\ Cardinality(Callers) \in Nat
      /\ Cardinality(UsedLchans) + Cardinality(Callers) <= Slots
      /\ h \notin Callers => Callers \ {h} = Callers
  <2>1. /\ Cardinality(UsedLchans \ {ChanOf[h]}) = Cardinality(UsedLchans) - 1
        /\ h \in Callers => Cardinality(Callers \ {h}) = Cardinality(Callers) - 1
    BY <1>4, FS_RemoveElement
  <2>2. Cardinality(UsedLchans) \in Nat /\ Cardinality(Callers) \in Nat
    BY <1>4, FS_CardinalityType
  <2>3. Cardinality(UsedLchans) + Cardinality(Callers) <= Slots
    BY SlotsSuffice DEF UsedLchans
  <2> QED  BY <2>1, <2>2, <2>3
<1>6. CASE ~Registered(h) /\ ~Gone(h)
  <2>1. C = UsedLchans \ {ChanOf[h]}
    BY <1>6
  <2>2. Cardinality(K) <= Cardinality(Callers) /\ Cardinality(K) \in Nat
    BY <1>2, <1>4, FS_Subset, FS_CardinalityType
  <2> HIDE DEF C, K
  <2> QED  BY <1>3, <1>5, <2>1, <2>2, RSLAssumption
<1>7. CASE h \in Callers /\ ~HasEntry(Request(h))
  <2>1. K = Callers \ {h}
    BY <1>7
  <2>2. Cardinality(C) <= Cardinality(UsedLchans) /\ Cardinality(C) \in Nat
    BY <1>2, <1>4, FS_Subset, FS_CardinalityType
  <2> HIDE DEF C, K
  <2> QED  BY <1>3, <1>5, <1>7, <2>1, <2>2, RSLAssumption
<1> QED  BY <1>6, <1>7

-----------------------------------------------------------------------------
(* The dispatcher fails only when a link is lost. *)

\* The link of a channel in use is up or was lost.
LEMMA LinkOfUser ==
  ASSUME Types, LinksInv, TableInv, NEW h \in Hdlrs, Using(h)
  PROVE  LinkUpFor(ChanOf[h]) \/ Lost
<1> DEFINE t == TrxOf[ChanOf[h]]
<1>1. t \in Trxs /\ ChanOf[h] # None
  BY EntryKinds, RSLAssumption
<1>2. rfInd = Trxs
  BY DEF TableInv, LinksInv, Using
<1> HIDE DEF t
<1>3. link[t] \in {"ready", "lost"} /\ ~In(ipa, IdResp(t))
  BY <1>1, <1>2 DEF LinksInv, LinkOf
<1>4. link[t] = "ready" => TrxConnMap[t] # None
  BY <1>1, <1>3 DEF LinksInv, LinkOf
<1> QED  BY <1>1, <1>3, <1>4 DEF LinkUpFor, Lost, t

LEMMA ClientNeverFails ==
  ASSUME BtsInv, NEW h \in Hdlrs, ClientFails(h)
  PROVE  Lost
<1> USE DEF BtsInv
<1>1. client[h] # <<>>
  BY DEF ClientFails
<1>2. CASE Head(client[h]).t = "RQD"
  <2>1. FreeSlots = {}
    BY <1>2 DEF ClientFails
  <2>2. Expecting(h)
    <3>1. \/ Expecting(h)
          \/ Head(client[h]) = Activ(h)
          \/ Head(client[h]) = Rel(h)
      BY <1>1, ClientHead
    <3> QED  BY <1>2, <3>1 DEF Activ, Rel
  <2>3. h \in Callers /\ ~HasEntry(Request(h))
    BY <1>1, <2>2 DEF TableInv, RequestOf
  <2> QED  BY <2>1, <2>3, SlotFree
<1>3. CASE Head(client[h]).t # "RQD"
  <2>1. ~CanSend(h)
    BY <1>3 DEF ClientFails
  <2>2. Using(h)
    <3>1. \/ Head(client[h]) = Rqd(h)
          \/ Using(h)
          \/ stage[h] = "releasing"
      BY <1>1, ClientHead
    <3> QED  BY <1>3, <3>1 DEF Rqd, Using
  <2>3. SlotsOfComp(h) # {} /\ LchanOfComp(h) = ChanOf[h]
    BY <2>2, OwnSlot
  <2>4. ~LinkUpFor(ChanOf[h])
    BY <2>1, <2>3 DEF CanSend
  <2> QED  BY <2>2, <2>4, LinkOfUser
<1> QED  BY <1>2, <1>3

LEMMA CallNeverFails ==
  ASSUME BtsInv, NEW h \in Hdlrs, Serve(h)
  PROVE  outcome' = outcome
<1> USE DEF BtsInv
<1>1. call[h].op \in {"none", "register", "unregister"}
  BY DEF TableInv, CallOf, Idle
<1>2. CASE RSLEM_register(h)
  <2>1. stage[h] = "registered" /\ call[h] # Idle /\ h \notin ended /\ call[h].op = "register"
    BY <1>2 DEF RSLEM_register, Getcall, TableInv, CallOf, Idle
  <2>2. ~Registered(h) /\ ~Gone(h)
    BY <2>1 DEF Registered, Gone
  <2>3. FreeSlots # {}
    BY <2>2, SlotFree
  <2> QED  BY <1>2, <2>3 DEF RSLEM_register, Running
<1>3. CASE RSLEM_unregister(h)
  <2>1. call[h] = [op |-> "unregister", lchan |-> ChanOf[h]] /\ stage[h] = "done"
    BY <1>3 DEF RSLEM_unregister, Getcall, TableInv, CallOf, Idle
  <2>2. Registered(h)
    BY <2>1 DEF Registered
  <2>3. HasHandler(call[h].lchan)
    BY <2>1, <2>2, FoundLchan
  <2> QED  BY <1>3, <2>3 DEF RSLEM_unregister, Running
<1> QED  BY <1>1, <1>2, <1>3
    DEF Serve, RSLEM_suspend, WaitQueueEnable, WaitQueueDispatch, RSLEM_get_last_act, Getcall

LEMMA LinkNeverFails ==
  ASSUME BtsInv, NEW m, LinkFails(m)
  PROVE  Lost
<1> USE DEF BtsInv
<1>1. /\ ipa \in Seq(Messages) /\ ipa # <<>> /\ m = Head(ipa) /\ m \in Messages /\ m \in Elems(ipa)
      /\ In(ipa, m) /\ Named(m)
  <2>1. ipa \in Seq(Messages) /\ ipa # <<>> /\ m = Head(ipa)
    BY DEF LinkFails, Types
  <2>2. m \in Messages /\ m \in Elems(ipa) /\ In(ipa, m)
    BY <2>1, Taken, ElemsTaken, InTaken
  <2> QED  BY <2>1, <2>2, NamedTaken DEF LinksInv
<1>2. CASE m.t = "ID_RESP"
  <2>1. m.trx \in Trxs /\ m = IdResp(m.trx)
    BY <1>1, <1>2 DEF Messages, Named, IdResp
  <2>2. TrxConnMap[m.trx] = None
    BY <1>1, <2>1 DEF LinksInv, LinkOf
  <2> QED  BY <1>2, <2>2 DEF LinkFails, Registers
<1>3. CASE m.t = "DOWN"
  <2>1. PICK t \in Trxs : m.conn = ConnOf[t]
    BY <1>1, <1>3 DEF Named
  <2>2. m = Down(t)
    BY <1>1, <1>3, <2>1 DEF Messages, Down
  <2> QED  BY <1>1, <2>2 DEF LinksInv, LinkOf, Lost
<1>4. CASE m.t = "CHAN_RQD"
  <2>1. SlotsOfRa(m.ra) # {} /\ ConnectionTable[First(SlotsOfRa(m.ra))].comp \in ended
    BY <1>4 DEF LinkFails
  <2>2. m.ra \in Ras
    BY <1>1, <1>4 DEF Messages
  <2>3. PICK h \in Hdlrs : /\ First(SlotsOfRa(m.ra)) \in 1 .. Slots
                           /\ ConnectionTable[First(SlotsOfRa(m.ra))] = Request(h)
    BY <2>1, <2>2, LookupRa
  <2>4. HasEntry(Request(h)) /\ h \in ended
    BY <2>1, <2>3, EntryKinds DEF HasEntry
  <2>5. Expecting(h)
    BY <2>4 DEF TableInv, RequestOf
  <2> QED  BY <2>4, <2>5 DEF TableInv, CallOf, Expecting
<1>5. CASE m.t = "DR"
  <2>1. UsedBy(m.lchan, m.what)
    BY <1>1, <1>5 DEF ChannelInv, IpaUsed
  <2>2. PICK h \in Hdlrs : ChanOf[h] = m.lchan /\ Using(h)
    BY <2>1 DEF UsedBy
  <2>3. Registered(h) /\ h \notin ended
    BY <2>2, UserRegistered, RegisteredRuns
  <2>4. HasHandler(m.lchan) /\ HandlerOf(m.lchan) = h
    BY <2>2, <2>3, FoundLchan
  <2> QED  BY <1>5, <2>3, <2>4 DEF LinkFails
<1>6. m.t \notin {"IMM_ASS", "IMM_REJ"}
  BY <1>1 DEF Messages
<1> QED  BY <1>2, <1>3, <1>4, <1>5, <1>6 DEF LinkFails

\* A lost link stays so.
LEMMA LostStays ==
  ASSUME Types, Lost, [Next]_vars
  PROVE  Lost'
<1>1. PICK t \in Trxs : link[t] = "lost"
  BY DEF Lost
<1>2. CASE \E u \in Trxs : Connect(u) \/ Identify(u) \/ RfResInd(u) \/ LinkCloses(u)
  BY <1>1, <1>2 DEF Connect, Identify, RfResInd, LinkCloses, LinkStep, BtsStep
<1>3. CASE ~(\E u \in Trxs : Connect(u) \/ Identify(u) \/ RfResInd(u) \/ LinkCloses(u))
  <2>1. link' = link
    <3>1. ASSUME NEW h \in Hdlrs, Handler(h) PROVE link' = link
      BY <3>1
      DEF Handler, Register, Announce, Access, Accessed, Activate, Activated, ReadData, Deactivate,
          Released, Finish, Step, btsVars
    <3> QED  BY <1>3, <3>1
        DEF Next, vars, btsVars, BtsReacts, BtsSends, MainAccess, MainStep, TrxUp, RfInd, Later,
            MainReads
  <2> QED  BY <1>1, <2>1 DEF Lost
<1> QED  BY <1>2, <1>3

LEMMA StepNeverFails ==
  ASSUME BtsInv, NeverFails, [Next]_vars
  PROVE  NeverFails'
<1>1. CASE Lost
  BY <1>1, LostStays DEF NeverFails, BtsInv
<1>2. CASE ~Lost
  <2>1. outcome # "failed"
    BY <1>2 DEF NeverFails
  <2>2. ASSUME NEW m, FromLink(m) PROVE outcome' = outcome
    <3>1. ~LinkFails(m)
      BY <1>2, LinkNeverFails
    <3> QED  BY <2>2, <3>1
        DEF FromLink, LinkEstablished, LinkIdentified, LinkLost, ImmAss, ImmAssRej, ChanRqd,
            CommonChannel, ChanActiv, ToHandler, ToWaitingQueue, Running
  <2>3. ASSUME NEW h \in Hdlrs, FromClient(h) PROVE outcome' = outcome
    <3>1. ~ClientFails(h)
      BY <1>2, ClientNeverFails
    <3> QED  BY <2>3, <3>1 DEF FromClient, ClientRqd, ClientMsg, Running
  <2>4. ASSUME NEW h \in Hdlrs, Handler(h) PROVE outcome' = outcome
    BY <2>4
    DEF Handler, Register, Announce, Access, Accessed, Activate, Activated, ReadData, Deactivate,
        Released, Finish, Step
  <2>5. ASSUME Main PROVE outcome' = outcome
    <3>1. ASSUME NEW h \in Hdlrs, FromClient(h) \/ Serve(h) PROVE outcome' = outcome
      BY <2>3, <3>1, CallNeverFails
    <3> QED  BY <2>2, <2>5, <3>1 DEF Main, Route
  <2>6. ASSUME \/ \E t \in Trxs : Connect(t) \/ Identify(t) \/ RfResInd(t) \/ LinkCloses(t)
               \/ BtsReacts
               \/ \E c \in Lchans : BtsSends(c)
               \/ \E r \in Ras : MainAccess(r)
               \/ MainStep
               \/ UNCHANGED vars
        PROVE  outcome' = outcome
    BY <2>6
    DEF vars, rslVars, Connect, Identify, RfResInd, LinkCloses, LinkStep, BtsStep, BtsReacts,
        BtsSends, MainAccess, MainStep, TrxUp, RfInd, Later, MainReads
  <2>7. outcome' = outcome
    BY <2>4, <2>5, <2>6 DEF Next
  <2> QED  BY <2>1, <2>7 DEF NeverFails
<1> QED  BY <1>1, <1>2

-----------------------------------------------------------------------------
(* The theorems. *)

LEMMA InitInv == Init => BtsInv
  BY InitTypes, InitLinks, InitTable, InitChannel DEF BtsInv

LEMMA StepInv == BtsInv /\ [Next]_vars => BtsInv'
<1> SUFFICES ASSUME BtsInv, [Next]_vars PROVE BtsInv'
  OBVIOUS
<1>1. Types /\ LinksInv /\ TableInv /\ ChannelInv
  BY DEF BtsInv
<1>2. \A h \in Hdlrs : CallOf(h)
  BY <1>1 DEF TableInv
<1> QED  BY <1>1, <1>2, StepTypes, StepLinks, StepTable, StepChannel DEF BtsInv

\* The invariant of the dispatcher, of the suite bts and of the BTS.
THEOREM BtsInvariant == Spec => []BtsInv
  BY InitInv, StepInv, PTL DEF Spec

\* The dispatcher ends the testcase only when a link was lost: no message comes
\* when its handler is gone, no lookup fails and no slot is missing.
THEOREM BtsNeverFails == Spec => []NeverFails
<1>1. Init => NeverFails
  BY DEF Init, RSLInit, NeverFails
<1>2. BtsInv /\ NeverFails /\ [Next]_vars => NeverFails'
  BY StepNeverFails
<1> QED  BY <1>1, <1>2, BtsInvariant, PTL DEF Spec

\* TrxConnMap, TrxConnNum (f_trx_conn_map_register, f_trx_conn_map_unregister)
\* follow the links.
THEOREM BtsMapFollowsLinks == Spec => []MapFollowsLinks
<1>1. BtsInv => MapFollowsLinks
  <2> SUFFICES ASSUME BtsInv PROVE MapFollowsLinks
    OBVIOUS
  <2>1. \A m : Pending(m) <=> In(ipa, m)
    <3>1. ipa \in Seq(Messages)
      BY DEF BtsInv, Types
    <3>2. DOMAIN ipa = Indices(ipa)
      BY <3>1 DEF Indices
    <3> QED  BY <3>2 DEF Pending, In
  <2>2. LinksInv
    BY DEF BtsInv
  <2>3. \A t \in Trxs : LinkOf(t)
    BY <2>2 DEF LinksInv
  <2>4. \A t \in Trxs :
          /\ link[t] \in {"identified", "ready"} =>
                TrxConnMap[t] = IF Pending(IdResp(t)) THEN None ELSE ConnOf[t]
          /\ link[t] = "lost" /\ ~Pending(Down(t)) => TrxConnMap[t] = None
    <3> HIDE DEF IdResp, Down
    <3> QED  BY <2>1, <2>3 DEF LinkOf
  <2> QED  BY <2>2, <2>4 DEF MapFollowsLinks, LinksInv, IdResp, Down
<1> QED  BY <1>1, BtsInvariant, PTL

\* A handler gets messages of its channel only while it uses the channel.
THEOREM BtsRoutedToUser == Spec => []RoutedToUser
<1>1. BtsInv => RoutedToUser
  <2> SUFFICES ASSUME BtsInv, NEW h \in Hdlrs, NEW i \in DOMAIN inbox[h], inbox[h][i].t = "DR"
               PROVE  inbox[h][i].lchan = ChanOf[h] /\ stage[h] \in {"activating", "active", "releasing"}
    BY DEF RoutedToUser
  <2>1. inbox[h] \in Seq(Messages)
    BY DEF BtsInv, Types
  <2>2. inbox[h][i] \in Elems(inbox[h])
    BY <2>1 DEF Elems, Indices
  <2>3. InboxOf(h)
    BY DEF BtsInv, ChannelInv
  <2> QED  BY <2>2, <2>3 DEF InboxOf, ChanRqdOf, Using
<1> QED  BY <1>1, BtsInvariant, PTL

\* When the dispatcher takes RSLDC_ChanRqd before the access burst is sent, the
\* CHANNEL REQUIRED of a handler does not go to the main component.
THEOREM BtsRachConfirmed ==
  ASSUME Prompt
  PROVE  Spec => []RachConfirmed
<1> DEFINE Confirmed == \A m \in Elems(cchan) : m.t = "CHAN_RQD" => m.ra \notin HandlerRas
<1>1. Init => Confirmed
  BY Nothing DEF Init, RSLInit
<1>2. BtsInv /\ Confirmed /\ [Next]_vars => Confirmed'
  <2> SUFFICES ASSUME BtsInv, Confirmed, [Next]_vars PROVE Confirmed'
    OBVIOUS
  <2>1. cchan \in Seq(MainMessages)
    BY DEF BtsInv, Types
  <2>2. ASSUME NEW m, cchan' = Append(cchan, m), m \in MainMessages,
               m.t = "CHAN_RQD" => m.ra \notin HandlerRas
        PROVE  Confirmed'
    <3>1. Elems(cchan') = Elems(cchan) \cup {m}
      BY <2>1, <2>2, ElemsAppended
    <3>2. HandlerRas' = HandlerRas
      BY DEF HandlerRas
    <3> QED  BY <2>2, <3>1, <3>2
  <2>3. CASE cchan # <<>> /\ cchan' = Tail(cchan)
    <3>1. Elems(cchan') \subseteq Elems(cchan)
      BY <2>1, <2>3, ElemsTaken
    <3> QED  BY <3>1 DEF HandlerRas
  <2>4. CASE cchan' = cchan
    BY <2>4 DEF HandlerRas
  <2>5. ASSUME NEW m, m \in {ipa[i] : i \in DOMAIN ipa \cap {1}}, FromLink(m) PROVE Confirmed'
    <3>1. /\ m \in Messages /\ m \in MainMessages /\ ipa \in Seq(Messages)
      BY <2>5 DEF BtsInv, Types, MainMessages
    <3>2. CASE LinkIdentified(m)
      <4>1. [t |-> "TRX_UP", trx |-> m.trx] \in MainMessages
        BY <3>1, <3>2 DEF LinkIdentified, Take, Messages, MainMessages
      <4> QED  BY <2>2, <3>2, <4>1 DEF LinkIdentified, TrxUpEvent
    <3>3. CASE LinkLost(m)
      <4>1. PICK t \in Trxs : cchan' = Append(cchan, [t |-> "TRX_DOWN", trx |-> t])
        BY <3>3 DEF LinkLost, TrxsOn
      <4>2. [t |-> "TRX_DOWN", trx |-> t] \in MainMessages
        BY DEF MainMessages
      <4> QED  BY <2>2, <4>1, <4>2
    <3>4. CASE CommonChannel(m)
      BY <2>2, <3>1, <3>4 DEF CommonChannel, Forwarded, Take
    <3>5. CASE ChanRqd(m)
      <4>1. CASE SlotsOfRa(m.ra) # {}
        BY <2>4, <3>5, <4>1 DEF ChanRqd
      <4>2. CASE SlotsOfRa(m.ra) = {}
        <5>1. cchan' = Append(cchan, m) /\ In(ipa, m) /\ m = [t |-> "CHAN_RQD", ra |-> m.ra]
          BY <3>1, <3>5, <4>2, InTaken DEF ChanRqd, Take, Messages
        <5>2. ASSUME NEW h \in Hdlrs, m.ra = RaOf[h] PROVE FALSE
          <6>1. In(ipa, ChanRqdOf(h))
            BY <5>1, <5>2 DEF ChanRqdOf
          <6>2. HasEntry(Request(h))
            BY <6>1 DEF BtsInv, TableInv, RequestOf
          <6>3. PICK i \in 1 .. Slots : ConnectionTable[i] = Request(h)
            BY <6>2 DEF HasEntry
          <6> QED  BY <4>2, <5>2, <6>3, EntryKinds DEF SlotsOfRa
        <5>3. m.ra \notin HandlerRas
          BY <5>2 DEF HandlerRas
        <5> QED  BY <2>2, <3>1, <5>1, <5>3
      <4> QED  BY <4>1, <4>2
    <3>6. CASE LinkEstablished(m) \/ ToHandler(m) \/ ToWaitingQueue(m) \/ LinkFails(m)
      BY <2>4, <3>6 DEF LinkEstablished, ToHandler, ToWaitingQueue, LinkFails, Fail
    <3>7. ~ImmAss(m) /\ ~ImmAssRej(m) /\ ~ChanActiv(m)
      BY RSLBtsAssumption DEF ImmAss, ImmAssRej, ChanActiv
    <3> QED  BY <2>5, <3>2, <3>3, <3>4, <3>5, <3>6, <3>7 DEF FromLink
  <2>6. CASE Route
    BY <2>5, <2>6 DEF Route
  <2>7. CASE MainStep
    BY <2>3, <2>7 DEF MainStep, TrxUp, RfInd, Later, MainReads
  <2>8. ASSUME NEW h \in Hdlrs, FromClient(h) \/ Serve(h) PROVE Confirmed'
    <3>1. cchan' = cchan
      BY <2>8
      DEF FromClient, ClientRqd, ClientMsg, ClientFails, FromHandler, Serve, RSLEM_register,
          RSLEM_unregister, RSLEM_suspend, WaitQueueEnable, WaitQueueDispatch, RSLEM_get_last_act,
          Reply, Fail
    <3> QED  BY <2>4, <3>1
  <2>9. ASSUME NEW h \in Hdlrs, Handler(h) PROVE Confirmed'
    <3>1. cchan' = cchan
      BY <2>9
      DEF Handler, Register, Announce, Access, Accessed, Activate, Activated, ReadData, Deactivate,
          Released, Finish, Step
    <3> QED  BY <2>4, <3>1
  <2>10. CASE \/ \E t \in Trxs : Connect(t) \/ Identify(t) \/ RfResInd(t) \/ LinkCloses(t)
              \/ BtsReacts
              \/ \E c \in Lchans : BtsSends(c)
              \/ \E r \in Ras : MainAccess(r)
              \/ UNCHANGED vars
    <3>1. cchan' = cchan
      BY <2>10
      DEF Connect, Identify, RfResInd, LinkCloses, LinkStep, BtsReacts, BtsSends, MainAccess,
          BtsStep, vars, rslVars
    <3> QED  BY <2>4, <3>1
  <2> HIDE DEF Confirmed
  <2> QED  BY <2>6, <2>7, <2>8, <2>9, <2>10 DEF Next, Main
<1>3. BtsInv /\ Confirmed => RachConfirmed
  <2> SUFFICES ASSUME BtsInv, Confirmed PROVE RachConfirmed
    OBVIOUS
  <2>1. cchan \in Seq(MainMessages)
    BY DEF BtsInv, Types
  <2>2. \A i \in DOMAIN cchan : cchan[i] \in Elems(cchan)
    BY <2>1 DEF Elems, Indices
  <2> QED  BY <2>2 DEF RachConfirmed
<1> HIDE DEF Confirmed
<1> QED  BY <1>1, <1>2, <1>3, BtsInvariant, PTL DEF Spec

=============================================================================
