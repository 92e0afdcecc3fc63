---------------------------- MODULE RSLBscProofs -----------------------------
(***************************************************************************)
(* The dispatcher of RSL as the suite bsc uses it, for any number of       *)
(* handlers, channels and table slots: a channel goes from hand to hand    *)
(* with one message per procedure under way at a time, so the activation   *)
(* stored for it is that of the handler which asks for it.                 *)
(***************************************************************************)
EXTENDS RSLBsc, FiniteSetTheorems, SequenceTheorems, TLAPS

-----------------------------------------------------------------------------
(* Queues, and all queues of the model by the place they are at. *)

Indices(s) == 1 .. Len(s)
Elems(s) == {s[i] : i \in Indices(s)}

\* A message of S is in queue s; at most one is.
In(s, S) == \E i \in Indices(s) : s[i] \in S
Once(s, S) == \A i, j \in Indices(s) : s[i] \in S /\ s[j] \in S => i = j

\* At most one is in all the queues q.
Somewhere(q, S) == \E p \in DOMAIN q : In(q[p], S)
Single(q, S) ==
    /\ \A p \in DOMAIN q : Once(q[p], S)
    /\ \A p, r \in DOMAIN q : In(q[p], S) /\ In(q[r], S) => p = r

Places == ({"ipa", "waiting", "iut"} \X {None}) \cup ({"inbox", "client"} \X Hdlrs)

QueueAt(a, w, i, b, c, kind, h) ==
    CASE kind = "ipa" -> a [] kind = "waiting" -> w [] kind = "iut" -> i
      [] kind = "inbox" -> b[h] [] kind = "client" -> c[h]
QueuesOf(a, w, i, b, c) == [p \in Places |-> QueueAt(a, w, i, b, c, p[1], p[2])]
queues == QueuesOf(ipa, WaitingQueue, iut, inbox, client)

Ipa == <<"ipa", None>>
Waiting == <<"waiting", None>>
Iut == <<"iut", None>>
InboxOf(h) == <<"inbox", h>>
ClientOf(h) == <<"client", h>>

-----------------------------------------------------------------------------
(* The messages in them. *)

RequestRas == {RaOf[h] : h \in Hdlrs}
Drs == [t : {"DR"}, lchan : Lchans, what : {"data", "crcx", "rel", "assign"}, new : Lchans \cup {None}]
Answers == [t : {"IMM_ASS"}, ra : RequestRas, lchan : Lchans] \cup [t : {"IMM_REJ"}, ra : RequestRas]
FromBsc == Drs \cup Answers \cup [t : {"CHAN_ACTIV"}, lchan : Lchans, for : Hdlrs]
           \cup [t : {"DOWN"}, conn : Conns]
Rqds == [t : {"RQD"}, ra : RequestRas]
FromHdlrs == Rqds \cup [t : {"EST", "ASS_CMPL", "REL_ACK"}, lchan : Lchans]
ToBsc == Rqds \cup [t : {"EST", "ASS_CMPL", "REL_ACK", "ACT_ACK"}, lchan : Lchans, trx : Trxs]
All == FromBsc \cup FromHdlrs \cup ToBsc

Types ==
    /\ ConnectionTable \in [1 .. Slots -> {e \in Entries : Owned(e)}]
    /\ LastActTable \in [Lchans -> Hdlrs \cup {None}]
    /\ TrxConnMap = [t \in Trxs |-> None] /\ TrxConnNum = 0
    /\ dchan_suspended \in BOOLEAN /\ wait_queue_enabled \in BOOLEAN
    /\ call \in [Hdlrs -> Calls \cup {Idle}]
    /\ ended \subseteq Hdlrs /\ outcome \in {"running", "failed"}
    /\ testcase \in Testcases
    /\ stage \in [Hdlrs -> Stages]
    /\ g_chan_nr \in [Hdlrs -> Lchans \cup {None}]
    /\ other \in [Hdlrs -> Lchans \cup {None}]
    /\ bsc \in [Lchans -> {"free", "imm", "ass", "ho", "used", "rel"}]
    /\ user \in [Lchans -> Hdlrs \cup {None}]
    /\ hoCommand \in [Hdlrs -> Lchans \cup {None}]

QueueTypes ==
    /\ ipa \in Seq(FromBsc) /\ WaitingQueue \in Seq(Drs) /\ iut \in Seq(ToBsc)
    /\ inbox \in [Hdlrs -> Seq(Drs \cup Answers)] /\ client \in [Hdlrs -> Seq(FromHdlrs)]

IsRequest(m) == m.t \in {"RQD", "IMM_ASS", "IMM_REJ"}
IsActivation(m) == m.t \in {"CHAN_ACTIV", "ACT_ACK"}
IsCommand(m) == m.t = "DR" /\ m.what = "assign"
IsComplete(m) == m.t = "ASS_CMPL"
IsRelease(m) == m.t = "REL_ACK" \/ (m.t = "DR" /\ m.what = "rel")

\* Where the request of a channel, its activation, the command to change it, the
\* confirmation of that and its release have come to: one message each at most.
RequestMsgs(r) == {m \in All : IsRequest(m) /\ m.ra = r}
ActivationMsgs(c) == {m \in All : IsActivation(m) /\ m.lchan = c}
CommandMsgs(c) == {m \in All : IsCommand(m) /\ m.lchan = c}
CompleteMsgs(c) == {m \in All : IsComplete(m) /\ m.lchan = c}
ReleaseMsgs(c) == {m \in All : IsRelease(m) /\ m.lchan = c}

Procedures ==
    {RequestMsgs(r) : r \in RequestRas} \cup {ActivationMsgs(c) : c \in Lchans}
    \cup {CommandMsgs(c) : c \in Lchans} \cup {CompleteMsgs(c) : c \in Lchans}
    \cup {ReleaseMsgs(c) : c \in Lchans}

-----------------------------------------------------------------------------
(* The inductive invariant. *)

Activating == {"imm", "ass", "ho"}
Gives(h, c, states) == c \in Lchans /\ user[c] = h /\ bsc[c] \in states
NoneFor(h) == \A c \in Lchans : ~Gives(h, c, Activating)

\* h does not go through an assignment any more.
Late(h) == stage[h] = "done" \/ (stage[h] \in {"active", "clearing"} /\ other[h] # None)

HasChannel == {"active", "queueing", "assigning", "registering", "dispatching", "assigned",
               "entering", "resuming"}

HdlrInv(h) ==
    /\ stage[h] \in HasChannel => Gives(h, g_chan_nr[h], {"used"})
    /\ stage[h] = "clearing" => Gives(h, g_chan_nr[h], {"rel"})
    /\ stage[h] \in {"registering", "dispatching"} => Gives(h, other[h], {"used"})
    /\ stage[h] = "assigned" => Gives(h, other[h], {"used", "rel"})
    /\ stage[h] \in {"idle", "suspending"} => hoCommand[h] = None
    /\ stage[h] = "handover" /\ hoCommand[h] # None =>
          Gives(h, hoCommand[h], {"used"}) /\ NoneFor(h)
    /\ call[h].op = "last" => stage[h] \in {"active", "assigned"} /\ call[h].lchan = g_chan_nr[h]
    /\ call[h].op = "register" =>
          \/ stage[h] = "registering" /\ call[h].lchan = other[h]
          \/ stage[h] = "entering" /\ call[h].lchan = g_chan_nr[h]

LchanInv(c) ==
    /\ bsc[c] # "free" => user[c] \in Hdlrs
    /\ bsc[c] \in {"used", "rel"} => LastActTable[c] = user[c]
    /\ bsc[c] = "imm" => stage[user[c]] = "requested"
    /\ bsc[c] = "ass" => stage[user[c]] = "assigning"
    /\ bsc[c] = "ho" => stage[user[c]] = "handover"
    /\ \A d \in Lchans :
          bsc[c] \in Activating /\ bsc[d] \in Activating /\ user[c] = user[d] => c = d

EntryInv(entry) ==
    /\ entry.ra # None => entry.ra = RaOf[entry.comp]
    /\ entry.lchan # None =>
          Late(entry.comp) \/ Gives(entry.comp, entry.lchan, {"used", "rel"})

Requesting(h) == stage[h] = "requested" /\ NoneFor(h)

\* What message m at place p says of the channels and their handlers.
RequestMeans(p, m) == IsRequest(m) =>
    \A h \in Hdlrs : RaOf[h] = m.ra =>
        /\ Requesting(h)
        /\ m.t = "IMM_ASS" => Gives(h, m.lchan, {"used"})
        /\ p[1] \in {"inbox", "client"} => p[2] = h
ActivationMeans(m) ==
    /\ IsActivation(m) => bsc[m.lchan] \in Activating
    /\ m.t = "CHAN_ACTIV" => m.for = user[m.lchan]
    /\ m.t = "ACT_ACK" => LastActTable[m.lchan] = user[m.lchan]
Commanded(h, m) ==
    /\ stage[h] = "assigning" /\ NoneFor(h) /\ g_chan_nr[h] = m.lchan
    /\ Gives(h, m.lchan, {"used"}) /\ Gives(h, m.new, {"used"})
Completing(h, m) ==
    /\ stage[h] = "assigned" /\ g_chan_nr[h] = m.lchan
    /\ Gives(h, other[h], {"used"})
ReleaseMeans(m) ==
    /\ IsRelease(m) => bsc[m.lchan] = "rel"
    /\ m.t = "REL_ACK" =>
          LET h == user[m.lchan] IN Late(h) /\ (g_chan_nr[h] = m.lchan => stage[h] = "done")

Means(p, m) ==
    /\ RequestMeans(p, m)
    /\ ActivationMeans(m)
    /\ IsCommand(m) => \E h \in Hdlrs : Commanded(h, m)
    /\ IsComplete(m) => \E h \in Hdlrs : Completing(h, m)
    /\ ReleaseMeans(m)
    /\ (IsCommand(m) \/ IsRelease(m)) /\ p[1] = "inbox" => user[m.lchan] = p[2] \/ Late(p[2])

MessagesInv == \A p \in Places : \A m \in Elems(queues[p]) : Means(p, m)
SingleInv == \A S \in Procedures : Single(queues, S)

HdlrsInv == \A h \in Hdlrs : HdlrInv(h)
LchansInv == \A c \in Lchans : LchanInv(c)
TableInv == \A i \in 1 .. Slots : EntryInv(ConnectionTable[i])

OwnInv ==
    /\ Types /\ QueueTypes
    /\ HdlrsInv /\ LchansInv /\ TableInv
    /\ MessagesInv /\ SingleInv
-----------------------------------------------------------------------------
(* Lemmas about queues. *)

LEMMA Appended ==
  ASSUME NEW T, NEW s \in Seq(T), NEW m \in T
  PROVE  /\ Append(s, m) \in Seq(T)
         /\ Len(Append(s, m)) = Len(s) + 1 /\ Len(s) \in Nat
         /\ Append(s, m)[Len(s) + 1] = m
         /\ \A i \in Indices(s) : i \in Indices(Append(s, m)) /\ Append(s, m)[i] = s[i]
         /\ \A i \in Indices(Append(s, m)) : i \in Indices(s) \/ i = Len(s) + 1
         /\ Len(s) + 1 \in Indices(Append(s, m)) /\ Len(s) + 1 \notin Indices(s)
  BY DEF Indices

LEMMA Taken ==
  ASSUME NEW T, NEW s \in Seq(T), s # <<>>
  PROVE  /\ Head(s) \in T /\ Head(s) = s[1] /\ 1 \in Indices(s)
         /\ Tail(s) \in Seq(T) /\ Len(Tail(s)) = Len(s) - 1 /\ Len(s) \in Nat
         /\ \A i \in Indices(Tail(s)) : i + 1 \in Indices(s) /\ Tail(s)[i] = s[i + 1]
         /\ \A i \in Indices(s) : i = 1 \/ (i - 1 \in Indices(Tail(s)) /\ Tail(s)[i - 1] = s[i])
  BY DEF Indices

\* What a queue holds after an arrival, and after its head is taken.
LEMMA AppendedQueue ==
  ASSUME NEW T, NEW s \in Seq(T), NEW m \in T
  PROVE  /\ Append(s, m) \in Seq(T)
         /\ Elems(Append(s, m)) = Elems(s) \cup {m}
         /\ \A S : In(Append(s, m), S) <=> (In(s, S) \/ m \in S)
         /\ \A S : Once(s, S) /\ (m \in S => ~In(s, S)) => Once(Append(s, m), S)
<1> DEFINE r == Append(s, m)
           n == Len(s) + 1
<1>1. /\ r \in Seq(T) /\ r[n] = m /\ n \in Indices(r) /\ n \notin Indices(s)
      /\ \A i \in Indices(s) : i \in Indices(r) /\ r[i] = s[i]
      /\ \A i \in Indices(r) : i \in Indices(s) \/ i = n
  BY Appended
<1> HIDE DEF r, n
<1>2. Elems(r) = Elems(s) \cup {m}
  BY <1>1 DEF Elems
<1>3. \A S : In(r, S) <=> (In(s, S) \/ m \in S)
  BY <1>1 DEF In
<1>4. \A S : Once(s, S) /\ (m \in S => ~In(s, S)) => Once(r, S)
  BY <1>1 DEF In, Once
<1> QED  BY <1>1, <1>2, <1>3, <1>4 DEF r

LEMMA TakenQueue ==
  ASSUME NEW T, NEW s \in Seq(T), s # <<>>
  PROVE  /\ Tail(s) \in Seq(T) /\ Head(s) \in T /\ Head(s) \in Elems(s)
         /\ Elems(Tail(s)) \subseteq Elems(s)
         /\ \A S : In(Tail(s), S) => In(s, S)
         /\ \A S : Head(s) \in S => In(s, S)
         /\ \A S : Once(s, S) => Once(Tail(s), S) /\ (Head(s) \in S => ~In(Tail(s), S))
<1> DEFINE r == Tail(s)
           h == Head(s)
<1>1. /\ r \in Seq(T) /\ h \in T /\ h = s[1] /\ 1 \in Indices(s)
      /\ \A i \in Indices(r) : i + 1 \in Indices(s) /\ r[i] = s[i + 1] /\ i \in Nat \ {0}
  BY Taken DEF Indices
<1> HIDE DEF r, h
<1>2. \A i, j \in Indices(r) : i + 1 = j + 1 => i = j
  BY <1>1
<1>3. \A i \in Indices(r) : i + 1 # 1
  BY <1>1
<1>4. h \in Elems(s) /\ Elems(r) \subseteq Elems(s)
  BY <1>1 DEF Elems
<1>5. \A S : (In(r, S) => In(s, S)) /\ (h \in S => In(s, S))
  BY <1>1 DEF In
<1>6. \A S : Once(s, S) => Once(r, S) /\ (h \in S => ~In(r, S))
  BY <1>1, <1>2, <1>3 DEF In, Once
<1> QED  BY <1>1, <1>4, <1>5, <1>6 DEF r, h

\* Queue p of q gets the message m, or its head is taken.
With(f, x, s) == [f EXCEPT ![x] = s]
Put(q, p, m) == With(q, p, Append(q[p], m))
Drop(q, p) == With(q, p, Tail(q[p]))

LEMMA PutQueues ==
  ASSUME NEW T, NEW P, NEW q \in [P -> Seq(T)], NEW p \in P, NEW m \in T
  PROVE  /\ Put(q, p, m) \in [P -> Seq(T)]
         /\ \A r \in P : \A x \in Elems(Put(q, p, m)[r]) : x \in Elems(q[r]) \/ (r = p /\ x = m)
         /\ \A S : Single(q, S) /\ (m \in S => ~Somewhere(q, S)) => Single(Put(q, p, m), S)
         /\ \A S : Somewhere(Put(q, p, m), S) <=> (Somewhere(q, S) \/ m \in S)
<1> DEFINE s == Append(q[p], m)
           q2 == Put(q, p, m)
<1>1. /\ s \in Seq(T) /\ Elems(s) = Elems(q[p]) \cup {m}
      /\ \A S : In(s, S) <=> (In(q[p], S) \/ m \in S)
      /\ \A S : Once(q[p], S) /\ (m \in S => ~In(q[p], S)) => Once(s, S)
  BY AppendedQueue
<1>2. q2 = [q EXCEPT ![p] = s]
  BY DEF Put, With
<1> HIDE DEF s, q2
<1>3. q2 \in [P -> Seq(T)] /\ q2[p] = s /\ \A r \in P : r # p => q2[r] = q[r]
  BY <1>1, <1>2
<1>4. \A r \in P : \A x \in Elems(q2[r]) : x \in Elems(q[r]) \/ (r = p /\ x = m)
  BY <1>1, <1>3
<1>5. ASSUME NEW S PROVE Somewhere(q2, S) <=> (Somewhere(q, S) \/ m \in S)
  BY <1>1, <1>3 DEF Somewhere
<1>6. ASSUME NEW S, Single(q, S), m \in S => ~Somewhere(q, S) PROVE Single(q2, S)
  <2>0. DOMAIN q = P /\ DOMAIN q2 = P
    BY <1>3
  <2>1. \A r \in P : Once(q2[r], S)
    BY <1>1, <1>3, <1>6, <2>0 DEF Single, Somewhere
  <2>2. ASSUME NEW r \in P, NEW u \in P, In(q2[r], S), In(q2[u], S) PROVE r = u
    BY <1>1, <1>3, <1>6, <2>0, <2>2 DEF Single, Somewhere
  <2> QED  BY <2>0, <2>1, <2>2 DEF Single
<1> QED  BY <1>3, <1>4, <1>5, <1>6 DEF q2

LEMMA DropQueues ==
  ASSUME NEW T, NEW P, NEW q \in [P -> Seq(T)], NEW p \in P, q[p] # <<>>
  PROVE  /\ Drop(q, p) \in [P -> Seq(T)]
         /\ Head(q[p]) \in T /\ Head(q[p]) \in Elems(q[p])
         /\ \A r \in P : Elems(Drop(q, p)[r]) \subseteq Elems(q[r])
         /\ \A S : Somewhere(Drop(q, p), S) => Somewhere(q, S)
         /\ \A S : Single(q, S) => /\ Single(Drop(q, p), S)
                                   /\ Head(q[p]) \in S => ~Somewhere(Drop(q, p), S)
<1> DEFINE s == Tail(q[p])
           h == Head(q[p])
           q2 == Drop(q, p)
<1>1. /\ s \in Seq(T) /\ h \in T /\ h \in Elems(q[p]) /\ Elems(s) \subseteq Elems(q[p])
      /\ \A S : In(s, S) => In(q[p], S)
      /\ \A S : h \in S => In(q[p], S)
      /\ \A S : Once(q[p], S) => Once(s, S) /\ (h \in S => ~In(s, S))
  BY TakenQueue
<1>2. q2 = [q EXCEPT ![p] = s]
  BY DEF Drop, With
<1> HIDE DEF s, q2, h
<1>3. q2 \in [P -> Seq(T)] /\ q2[p] = s /\ \A r \in P : r # p => q2[r] = q[r]
  BY <1>1, <1>2
<1>4. \A r \in P : Elems(q2[r]) \subseteq Elems(q[r])
  BY <1>1, <1>3
<1>5. ASSUME NEW S PROVE Somewhere(q2, S) => Somewhere(q, S)
  BY <1>1, <1>3 DEF Somewhere
<1>6. ASSUME NEW S, Single(q, S) PROVE Single(q2, S) /\ (h \in S => ~Somewhere(q2, S))
  <2>0. DOMAIN q = P /\ DOMAIN q2 = P
    BY <1>3
  <2>1. \A r \in P : Once(q2[r], S)
    BY <1>1, <1>3, <1>6, <2>0 DEF Single
  <2>2. ASSUME NEW r \in P, NEW u \in P, In(q2[r], S), In(q2[u], S) PROVE r = u
    BY <1>1, <1>3, <1>6, <2>0, <2>2 DEF Single
  <2>3. ASSUME h \in S, NEW r \in P, In(q2[r], S) PROVE FALSE
    BY <1>1, <1>3, <1>6, <2>0, <2>3 DEF Single
  <2> QED  BY <2>0, <2>1, <2>2, <2>3 DEF Single, Somewhere
<1> QED  BY <1>1, <1>3, <1>4, <1>5, <1>6 DEF q2, h

LEMMA Concatenated ==
  ASSUME NEW T, NEW s \in Seq(T), NEW r \in Seq(T)
  PROVE  /\ s \o r \in Seq(T)
         /\ \A S : In(s \o r, S) <=> (In(s, S) \/ In(r, S))
         /\ \A S : Once(s, S) /\ Once(r, S) /\ ~(In(s, S) /\ In(r, S)) => Once(s \o r, S)
<1> DEFINE q == s \o r
<1>1. /\ q \in Seq(T) /\ Len(s) \in Nat /\ Len(r) \in Nat /\ Len(q) = Len(s) + Len(r)
      /\ \A i \in Indices(s) : i \in Indices(q) /\ q[i] = s[i]
      /\ \A i \in Indices(r) : Len(s) + i \in Indices(q) /\ q[Len(s) + i] = r[i]
      /\ \A i \in Indices(q) : i \in Indices(s) \/ (i - Len(s) \in Indices(r) /\ q[i] = r[i - Len(s)])
  BY DEF Indices
<1>2. \A i, j \in Indices(q) : i - Len(s) = j - Len(s) => i = j
  BY <1>1 DEF Indices
<1> HIDE DEF q
<1>3. ASSUME NEW S PROVE In(q, S) <=> (In(s, S) \/ In(r, S))
  <2>1. In(q, S) => In(s, S) \/ In(r, S)
    BY <1>1 DEF In
  <2>2. In(s, S) => In(q, S)
    BY <1>1 DEF In
  <2>3. In(r, S) => In(q, S)
    BY <1>1 DEF In
  <2> QED  BY <2>1, <2>2, <2>3
<1>4. ASSUME NEW S, Once(s, S), Once(r, S), ~(In(s, S) /\ In(r, S)) PROVE Once(q, S)
  <2> SUFFICES ASSUME NEW i \in Indices(q), NEW j \in Indices(q), q[i] \in S, q[j] \in S
               PROVE  i = j
    BY DEF Once
  <2>1. CASE i \in Indices(s) /\ j \in Indices(s)
    BY <1>1, <1>4, <2>1 DEF Once
  <2>2. CASE i - Len(s) \in Indices(r) /\ j - Len(s) \in Indices(r) /\ q[i] = r[i - Len(s)] /\ q[j] = r[j - Len(s)]
    BY <1>2, <1>4, <2>2 DEF Once
  <2>3. CASE i \in Indices(s) /\ j - Len(s) \in Indices(r) /\ q[j] = r[j - Len(s)]
    BY <1>1, <1>4, <2>3 DEF In
  <2>4. CASE j \in Indices(s) /\ i - Len(s) \in Indices(r) /\ q[i] = r[i - Len(s)]
    BY <1>1, <1>4, <2>4 DEF In
  <2> QED  BY <1>1, <2>1, <2>2, <2>3, <2>4
<1> QED  BY <1>1, <1>3, <1>4 DEF q

-----------------------------------------------------------------------------
(* The places of the model's queues. *)

LEMMA PlacesAre ==
  /\ Ipa \in Places /\ Waiting \in Places /\ Iut \in Places
  /\ \A h \in Hdlrs : InboxOf(h) \in Places /\ ClientOf(h) \in Places
  /\ \A p \in Places : \/ p = Ipa \/ p = Waiting \/ p = Iut
                       \/ \E h \in Hdlrs : p = InboxOf(h) \/ p = ClientOf(h)
  BY DEF Places, Ipa, Waiting, Iut, InboxOf, ClientOf

\* Which queue is at which place.
LEMMA QueuesAre ==
  ASSUME NEW a, NEW w, NEW i, NEW b, NEW c
  PROVE  /\ QueuesOf(a, w, i, b, c)[Ipa] = a
         /\ QueuesOf(a, w, i, b, c)[Waiting] = w
         /\ QueuesOf(a, w, i, b, c)[Iut] = i
         /\ \A h \in Hdlrs : /\ QueuesOf(a, w, i, b, c)[InboxOf(h)] = b[h]
                             /\ QueuesOf(a, w, i, b, c)[ClientOf(h)] = c[h]
  BY PlacesAre DEF QueuesOf, QueueAt, Ipa, Waiting, Iut, InboxOf, ClientOf

LEMMA SeqOfMore ==
  ASSUME NEW S, NEW T, S \subseteq T, NEW s \in Seq(S) PROVE s \in Seq(T)
  OBVIOUS

LEMMA QueuesTyped ==
  ASSUME QueueTypes PROVE queues \in [Places -> Seq(All)]
<1>1. /\ ipa \in Seq(All) /\ WaitingQueue \in Seq(All) /\ iut \in Seq(All)
      /\ \A h \in Hdlrs : inbox[h] \in Seq(All) /\ client[h] \in Seq(All)
  <2>1. FromBsc \subseteq All /\ Drs \subseteq All /\ ToBsc \subseteq All
        /\ Drs \cup Answers \subseteq All /\ FromHdlrs \subseteq All
    BY DEF All, FromBsc
  <2>2. /\ ipa \in Seq(FromBsc) /\ WaitingQueue \in Seq(Drs) /\ iut \in Seq(ToBsc)
        /\ \A h \in Hdlrs : inbox[h] \in Seq(Drs \cup Answers) /\ client[h] \in Seq(FromHdlrs)
    BY DEF QueueTypes
  <2> QED  BY <2>1, <2>2, SeqOfMore
<1>2. ASSUME NEW p \in Places PROVE queues[p] \in Seq(All)
  BY <1>1, PlacesAre, QueuesAre DEF queues
<1>3. queues = [p \in Places |-> queues[p]]
  BY DEF queues, QueuesOf
<1> QED  BY <1>2, <1>3

\* A change of one queue is a change at its place.
LEMMA PlacesApart ==
  /\ Ipa # Waiting /\ Ipa # Iut /\ Waiting # Iut
  /\ \A h \in Hdlrs : /\ InboxOf(h) # Ipa /\ InboxOf(h) # Waiting /\ InboxOf(h) # Iut
                      /\ ClientOf(h) # Ipa /\ ClientOf(h) # Waiting /\ ClientOf(h) # Iut
  /\ \A g, h \in Hdlrs : InboxOf(g) # ClientOf(h)
  /\ \A g, h \in Hdlrs : (InboxOf(g) = InboxOf(h) => g = h) /\ (ClientOf(g) = ClientOf(h) => g = h)
  BY DEF Ipa, Waiting, Iut, InboxOf, ClientOf

LEMMA Rebuilt ==
  /\ \A a, w, i, b, c : LET q == QueuesOf(a, w, i, b, c) IN
        DOMAIN q = Places /\ q = [r \in Places |-> q[r]]
  /\ \A q, r, s : \A p \in Places :
        /\ DOMAIN q = Places /\ q = [u \in Places |-> q[u]]
        /\ DOMAIN r = Places /\ r = [u \in Places |-> r[u]]
        /\ r[p] = s /\ \A u \in Places : u # p => r[u] = q[u]
        => r = With(q, p, s)
<1>1. \A a, w, i, b, c : LET q == QueuesOf(a, w, i, b, c) IN
        DOMAIN q = Places /\ q = [r \in Places |-> q[r]]
  BY DEF QueuesOf
<1>2. ASSUME NEW q, NEW r, NEW s, NEW p \in Places,
             DOMAIN q = Places, q = [u \in Places |-> q[u]],
             DOMAIN r = Places, r = [u \in Places |-> r[u]],
             r[p] = s, \A u \in Places : u # p => r[u] = q[u]
      PROVE  r = With(q, p, s)
  BY <1>2 DEF With
<1> QED  BY <1>1, <1>2

LEMMA IpaChanged ==
  \A a, w, i, b, c, s :
      QueuesOf(s, w, i, b, c) = With(QueuesOf(a, w, i, b, c), Ipa, s)
<1> SUFFICES ASSUME NEW a, NEW w, NEW i, NEW b, NEW c, NEW s
             PROVE  QueuesOf(s, w, i, b, c) = With(QueuesOf(a, w, i, b, c), Ipa, s)
  OBVIOUS
<1> DEFINE q == QueuesOf(a, w, i, b, c)
           r == QueuesOf(s, w, i, b, c)
<1>1. r[Ipa] = s /\ \A u \in Places : u # Ipa => r[u] = q[u]
  BY PlacesAre, QueuesAre
<1>2. /\ DOMAIN q = Places /\ q = [u \in Places |-> q[u]]
      /\ DOMAIN r = Places /\ r = [u \in Places |-> r[u]]
  BY Rebuilt
<1> HIDE DEF q, r
<1>3. r = With(q, Ipa, s)
  BY <1>1, <1>2, Rebuilt, PlacesAre
<1> QED  BY <1>3 DEF q, r

LEMMA WaitingChanged ==
  \A a, w, i, b, c, s :
      QueuesOf(a, s, i, b, c) = With(QueuesOf(a, w, i, b, c), Waiting, s)
<1> SUFFICES ASSUME NEW a, NEW w, NEW i, NEW b, NEW c, NEW s
             PROVE  QueuesOf(a, s, i, b, c) = With(QueuesOf(a, w, i, b, c), Waiting, s)
  OBVIOUS
<1> DEFINE q == QueuesOf(a, w, i, b, c)
           r == QueuesOf(a, s, i, b, c)
<1>1. r[Waiting] = s /\ \A u \in Places : u # Waiting => r[u] = q[u]
  BY PlacesAre, QueuesAre
<1>2. /\ DOMAIN q = Places /\ q = [u \in Places |-> q[u]]
      /\ DOMAIN r = Places /\ r = [u \in Places |-> r[u]]
  BY Rebuilt
<1> HIDE DEF q, r
<1>3. r = With(q, Waiting, s)
  BY <1>1, <1>2, Rebuilt, PlacesAre
<1> QED  BY <1>3 DEF q, r

LEMMA IutChanged ==
  \A a, w, i, b, c, s :
      QueuesOf(a, w, s, b, c) = With(QueuesOf(a, w, i, b, c), Iut, s)
<1> SUFFICES ASSUME NEW a, NEW w, NEW i, NEW b, NEW c, NEW s
             PROVE  QueuesOf(a, w, s, b, c) = With(QueuesOf(a, w, i, b, c), Iut, s)
  OBVIOUS
<1> DEFINE q == QueuesOf(a, w, i, b, c)
           r == QueuesOf(a, w, s, b, c)
<1>1. r[Iut] = s /\ \A u \in Places : u # Iut => r[u] = q[u]
  BY PlacesAre, QueuesAre
<1>2. /\ DOMAIN q = Places /\ q = [u \in Places |-> q[u]]
      /\ DOMAIN r = Places /\ r = [u \in Places |-> r[u]]
  BY Rebuilt
<1> HIDE DEF q, r
<1>3. r = With(q, Iut, s)
  BY <1>1, <1>2, Rebuilt, PlacesAre
<1> QED  BY <1>3 DEF q, r

LEMMA InboxChanged ==
  \A a, w, i, b, c, s : \A h \in Hdlrs : DOMAIN b = Hdlrs =>
      QueuesOf(a, w, i, With(b, h, s), c) = With(QueuesOf(a, w, i, b, c), InboxOf(h), s)
<1> SUFFICES ASSUME NEW a, NEW w, NEW i, NEW b, NEW c, NEW s, NEW h \in Hdlrs, DOMAIN b = Hdlrs
             PROVE  QueuesOf(a, w, i, With(b, h, s), c) = With(QueuesOf(a, w, i, b, c), InboxOf(h), s)
  OBVIOUS
<1> DEFINE q == QueuesOf(a, w, i, b, c)
           r == QueuesOf(a, w, i, With(b, h, s), c)
           f == With(b, h, s)
<1>0. f[h] = s /\ \A g \in Hdlrs : g # h => f[g] = b[g]
  BY DEF With
<1>1. r[InboxOf(h)] = s /\ \A u \in Places : u # InboxOf(h) => r[u] = q[u]
  BY <1>0, PlacesAre, QueuesAre
<1>2. /\ DOMAIN q = Places /\ q = [u \in Places |-> q[u]]
      /\ DOMAIN r = Places /\ r = [u \in Places |-> r[u]]
  BY Rebuilt
<1> HIDE DEF q, r
<1>3. r = With(q, InboxOf(h), s)
  BY <1>1, <1>2, Rebuilt, PlacesAre
<1> QED  BY <1>3 DEF q, r

LEMMA ClientChanged ==
  \A a, w, i, b, c, s : \A h \in Hdlrs : DOMAIN c = Hdlrs =>
      QueuesOf(a, w, i, b, With(c, h, s)) = With(QueuesOf(a, w, i, b, c), ClientOf(h), s)
<1> SUFFICES ASSUME NEW a, NEW w, NEW i, NEW b, NEW c, NEW s, NEW h \in Hdlrs, DOMAIN c = Hdlrs
             PROVE  QueuesOf(a, w, i, b, With(c, h, s)) = With(QueuesOf(a, w, i, b, c), ClientOf(h), s)
  OBVIOUS
<1> DEFINE q == QueuesOf(a, w, i, b, c)
           r == QueuesOf(a, w, i, b, With(c, h, s))
           f == With(c, h, s)
<1>0. f[h] = s /\ \A g \in Hdlrs : g # h => f[g] = c[g]
  BY DEF With
<1>1. r[ClientOf(h)] = s /\ \A u \in Places : u # ClientOf(h) => r[u] = q[u]
  BY <1>0, PlacesAre, QueuesAre
<1>2. /\ DOMAIN q = Places /\ q = [u \in Places |-> q[u]]
      /\ DOMAIN r = Places /\ r = [u \in Places |-> r[u]]
  BY Rebuilt
<1> HIDE DEF q, r
<1>3. r = With(q, ClientOf(h), s)
  BY <1>1, <1>2, Rebuilt, PlacesAre
<1> QED  BY <1>3 DEF q, r

LEMMA PutAndDrop ==
  ASSUME NEW a, NEW w, NEW i, NEW b, NEW c
  PROVE  LET q == QueuesOf(a, w, i, b, c) IN
         /\ \A m : /\ QueuesOf(Append(a, m), w, i, b, c) = Put(q, Ipa, m)
                   /\ QueuesOf(a, Append(w, m), i, b, c) = Put(q, Waiting, m)
                   /\ QueuesOf(a, w, Append(i, m), b, c) = Put(q, Iut, m)
         /\ QueuesOf(Tail(a), w, i, b, c) = Drop(q, Ipa)
         /\ QueuesOf(a, w, Tail(i), b, c) = Drop(q, Iut)
         /\ DOMAIN b = Hdlrs => \A h \in Hdlrs : \A m :
              QueuesOf(a, w, i, With(b, h, Append(b[h], m)), c) = Put(q, InboxOf(h), m)
         /\ DOMAIN b = Hdlrs => \A h \in Hdlrs :
              QueuesOf(a, w, i, With(b, h, Tail(b[h])), c) = Drop(q, InboxOf(h))
         /\ DOMAIN c = Hdlrs => \A h \in Hdlrs : \A m :
              QueuesOf(a, w, i, b, With(c, h, Append(c[h], m))) = Put(q, ClientOf(h), m)
         /\ DOMAIN c = Hdlrs => \A h \in Hdlrs :
              QueuesOf(a, w, i, b, With(c, h, Tail(c[h]))) = Drop(q, ClientOf(h))
<1> DEFINE q == QueuesOf(a, w, i, b, c)
<1>1. /\ q[Ipa] = a /\ q[Waiting] = w /\ q[Iut] = i
      /\ \A h \in Hdlrs : q[InboxOf(h)] = b[h] /\ q[ClientOf(h)] = c[h]
  BY QueuesAre
<1>2. /\ \A s : QueuesOf(s, w, i, b, c) = With(q, Ipa, s)
      /\ \A s : QueuesOf(a, s, i, b, c) = With(q, Waiting, s)
      /\ \A s : QueuesOf(a, w, s, b, c) = With(q, Iut, s)
      /\ DOMAIN b = Hdlrs => \A h \in Hdlrs : \A s :
           QueuesOf(a, w, i, With(b, h, s), c) = With(q, InboxOf(h), s)
      /\ DOMAIN c = Hdlrs => \A h \in Hdlrs : \A s :
           QueuesOf(a, w, i, b, With(c, h, s)) = With(q, ClientOf(h), s)
  BY IpaChanged, WaitingChanged, IutChanged, InboxChanged, ClientChanged
<1> HIDE DEF q
<1>3. \A m : /\ QueuesOf(Append(a, m), w, i, b, c) = Put(q, Ipa, m)
             /\ QueuesOf(a, Append(w, m), i, b, c) = Put(q, Waiting, m)
             /\ QueuesOf(a, w, Append(i, m), b, c) = Put(q, Iut, m)
  BY <1>1, <1>2, Zenon DEF Put
<1>4. /\ QueuesOf(Tail(a), w, i, b, c) = Drop(q, Ipa)
      /\ QueuesOf(a, w, Tail(i), b, c) = Drop(q, Iut)
  BY <1>1, <1>2, Zenon DEF Drop
<1>5. ASSUME DOMAIN b = Hdlrs, NEW h \in Hdlrs
      PROVE  /\ \A m : QueuesOf(a, w, i, With(b, h, Append(b[h], m)), c) = Put(q, InboxOf(h), m)
             /\ QueuesOf(a, w, i, With(b, h, Tail(b[h])), c) = Drop(q, InboxOf(h))
  <2>1. q[InboxOf(h)] = b[h] /\ \A s : QueuesOf(a, w, i, With(b, h, s), c) = With(q, InboxOf(h), s)
    BY <1>1, <1>2, <1>5
  <2> QED  BY <2>1, Zenon DEF Put, Drop
<1>6. ASSUME DOMAIN c = Hdlrs, NEW h \in Hdlrs
      PROVE  /\ \A m : QueuesOf(a, w, i, b, With(c, h, Append(c[h], m))) = Put(q, ClientOf(h), m)
             /\ QueuesOf(a, w, i, b, With(c, h, Tail(c[h]))) = Drop(q, ClientOf(h))
  <2>1. q[ClientOf(h)] = c[h] /\ \A s : QueuesOf(a, w, i, b, With(c, h, s)) = With(q, ClientOf(h), s)
    BY <1>1, <1>2, <1>6
  <2> QED  BY <2>1, Zenon DEF Put, Drop
<1>7. /\ DOMAIN b = Hdlrs => \A h \in Hdlrs : \A m :
              QueuesOf(a, w, i, With(b, h, Append(b[h], m)), c) = Put(q, InboxOf(h), m)
      /\ DOMAIN b = Hdlrs => \A h \in Hdlrs :
              QueuesOf(a, w, i, With(b, h, Tail(b[h])), c) = Drop(q, InboxOf(h))
  BY <1>5
<1>8. /\ DOMAIN c = Hdlrs => \A h \in Hdlrs : \A m :
              QueuesOf(a, w, i, b, With(c, h, Append(c[h], m))) = Put(q, ClientOf(h), m)
      /\ DOMAIN c = Hdlrs => \A h \in Hdlrs :
              QueuesOf(a, w, i, b, With(c, h, Tail(c[h]))) = Drop(q, ClientOf(h))
  BY <1>6
<1> QED  BY <1>3, <1>4, <1>7, <1>8 DEF q

-----------------------------------------------------------------------------
(* What a step does to the queues: message m arrives at place p, the head at p is
   taken, or it is taken and m arrives at r. *)

Arrives(p, m) == queues' = Put(queues, p, m)
Leaves(p) == queues[p] # <<>> /\ queues' = Drop(queues, p)
Passes(p, r, m) == queues[p] # <<>> /\ queues' = Put(Drop(queues, p), r, m)

LEMMA SomewhereIn ==
  ASSUME NEW q, NEW S
  PROVE  Somewhere(q, S) <=> \E p \in DOMAIN q : \E x \in Elems(q[p]) : x \in S
  BY DEF Somewhere, In, Elems

LEMMA Arrival ==
  ASSUME QueueTypes, NEW p \in Places, NEW m \in All, Arrives(p, m)
  PROVE  /\ \A u \in Places : \A x \in Elems(queues'[u]) : x \in Elems(queues[u]) \/ (u = p /\ x = m)
         /\ \A S : Single(queues, S) /\ (m \in S => ~Somewhere(queues, S)) => Single(queues', S)
<1> DEFINE q == queues
<1>1. q \in [Places -> Seq(All)]
  BY QueuesTyped
<1> HIDE DEF q
<1>2. /\ \A r \in Places : \A x \in Elems(Put(q, p, m)[r]) : x \in Elems(q[r]) \/ (r = p /\ x = m)
      /\ \A S : Single(q, S) /\ (m \in S => ~Somewhere(q, S)) => Single(Put(q, p, m), S)
  BY <1>1, PutQueues, Zenon
<1>3. queues' = Put(q, p, m)
  BY DEF Arrives, q
<1> QED  BY <1>2, <1>3, Zenon DEF q

LEMMA Leaving ==
  ASSUME QueueTypes, NEW p \in Places, Leaves(p)
  PROVE  /\ Head(queues[p]) \in All /\ Head(queues[p]) \in Elems(queues[p])
         /\ \A u \in Places : \A x \in Elems(queues'[u]) : x \in Elems(queues[u])
         /\ \A S : Single(queues, S) => /\ Single(queues', S)
                                        /\ Head(queues[p]) \in S => ~Somewhere(queues', S)
<1> DEFINE q == queues
<1>1. q \in [Places -> Seq(All)] /\ q[p] # <<>>
  BY QueuesTyped DEF Leaves
<1> HIDE DEF q
<1>2. /\ Head(q[p]) \in All /\ Head(q[p]) \in Elems(q[p])
      /\ \A r \in Places : Elems(Drop(q, p)[r]) \subseteq Elems(q[r])
      /\ \A S : Single(q, S) => /\ Single(Drop(q, p), S)
                                /\ Head(q[p]) \in S => ~Somewhere(Drop(q, p), S)
  BY <1>1, DropQueues
<1>3. queues' = Drop(q, p)
  BY DEF Leaves, q
<1> QED  BY <1>2, <1>3, Zenon DEF q

LEMMA Passing ==
  ASSUME QueueTypes, NEW p \in Places, NEW r \in Places, NEW m \in All, Passes(p, r, m)
  PROVE  /\ Head(queues[p]) \in All /\ Head(queues[p]) \in Elems(queues[p])
         /\ \A u \in Places : \A x \in Elems(queues'[u]) : x \in Elems(queues[u]) \/ (u = r /\ x = m)
         /\ \A S : Single(queues, S) =>
              /\ (m \in S => Head(queues[p]) \in S \/ ~Somewhere(queues, S)) => Single(queues', S)
              /\ Head(queues[p]) \in S /\ m \notin S => ~Somewhere(queues', S)
<1> DEFINE q == queues
           q1 == Drop(q, p)
           h == Head(q[p])
<1>1. q \in [Places -> Seq(All)] /\ q[p] # <<>> /\ queues' = Put(q1, r, m)
  BY QueuesTyped DEF Passes
<1> HIDE DEF q
<1>2. /\ q1 \in [Places -> Seq(All)]
      /\ h \in All /\ h \in Elems(q[p])
      /\ \A u \in Places : Elems(q1[u]) \subseteq Elems(q[u])
      /\ \A S : Somewhere(q1, S) => Somewhere(q, S)
      /\ \A S : Single(q, S) => Single(q1, S) /\ (h \in S => ~Somewhere(q1, S))
  BY <1>1, DropQueues
<1> HIDE DEF q1
<1>3. /\ \A u \in Places : \A x \in Elems(Put(q1, r, m)[u]) : x \in Elems(q1[u]) \/ (u = r /\ x = m)
      /\ \A S : Single(q1, S) /\ (m \in S => ~Somewhere(q1, S)) => Single(Put(q1, r, m), S)
      /\ \A S : Somewhere(Put(q1, r, m), S) <=> (Somewhere(q1, S) \/ m \in S)
  BY <1>2, PutQueues, Zenon
<1>4. \A u \in Places : \A x \in Elems(queues'[u]) : x \in Elems(q[u]) \/ (u = r /\ x = m)
  BY <1>1, <1>2, <1>3
<1>5. ASSUME NEW S, Single(q, S), m \in S => h \in S \/ ~Somewhere(q, S)
      PROVE  Single(queues', S)
  BY <1>1, <1>2, <1>3, <1>5
<1>6. ASSUME NEW S, Single(q, S), h \in S, m \notin S
      PROVE  ~Somewhere(queues', S)
  BY <1>1, <1>2, <1>3, <1>6
<1>7. h \in All /\ h \in Elems(q[p])
  BY <1>2
<1> QED  BY <1>4, <1>5, <1>6, <1>7 DEF q, h

\* The steps of the model are such changes.
LEMMA FromIpaToInbox ==
  ASSUME QueueTypes, NEW h \in Hdlrs, NEW m \in Drs \cup Answers, ipa # <<>>,
         ipa' = Tail(ipa),
         inbox' = [inbox EXCEPT ![h] = Append(@, m)],
         UNCHANGED <<WaitingQueue, iut, client>>
  PROVE  Passes(Ipa, InboxOf(h), m) /\ QueueTypes'
<1>1. /\ ipa \in Seq(FromBsc) /\ WaitingQueue \in Seq(Drs) /\ iut \in Seq(ToBsc)
      /\ inbox \in [Hdlrs -> Seq(Drs \cup Answers)] /\ client \in [Hdlrs -> Seq(FromHdlrs)]
  BY DEF QueueTypes
<1>2. Tail(ipa) \in Seq(FromBsc) /\ Append(inbox[h], m) \in Seq(Drs \cup Answers)
  BY <1>1, TakenQueue, AppendedQueue
<1>3. QueueTypes'
  BY <1>1, <1>2 DEF QueueTypes
<1>4. DOMAIN inbox = Hdlrs /\ DOMAIN client = Hdlrs /\ inbox' = With(inbox, h, Append(inbox[h], m))
  BY <1>1 DEF With
<1>5. queues' = QueuesOf(Tail(ipa), WaitingQueue, iut, With(inbox, h, Append(inbox[h], m)), client)
  BY <1>4, Zenon DEF queues
<1>6. QueuesOf(Tail(ipa), WaitingQueue, iut, inbox, client) = Drop(queues, Ipa)
  BY <1>4, PutAndDrop DEF queues
<1>7. QueuesOf(Tail(ipa), WaitingQueue, iut, With(inbox, h, Append(inbox[h], m)), client)
        = Put(QueuesOf(Tail(ipa), WaitingQueue, iut, inbox, client), InboxOf(h), m)
  BY <1>4, PutAndDrop
<1>8. queues[Ipa] = ipa
  BY QueuesAre DEF queues
<1> QED  BY <1>3, <1>5, <1>6, <1>7, <1>8, Zenon DEF Passes

LEMMA FromIpaToWaiting ==
  ASSUME QueueTypes, NEW m \in Drs, ipa # <<>>,
         ipa' = Tail(ipa),
         WaitingQueue' = Append(WaitingQueue, m),
         UNCHANGED <<iut, inbox, client>>
  PROVE  Passes(Ipa, Waiting, m) /\ QueueTypes'
<1>1. /\ ipa \in Seq(FromBsc) /\ WaitingQueue \in Seq(Drs) /\ iut \in Seq(ToBsc)
      /\ inbox \in [Hdlrs -> Seq(Drs \cup Answers)] /\ client \in [Hdlrs -> Seq(FromHdlrs)]
  BY DEF QueueTypes
<1>2. Tail(ipa) \in Seq(FromBsc) /\ Append(WaitingQueue, m) \in Seq(Drs)
  BY <1>1, TakenQueue, AppendedQueue
<1>3. QueueTypes'
  BY <1>1, <1>2 DEF QueueTypes
<1>5. queues' = QueuesOf(Tail(ipa), Append(WaitingQueue, m), iut, inbox, client)
  BY Zenon DEF queues
<1>6. QueuesOf(Tail(ipa), WaitingQueue, iut, inbox, client) = Drop(queues, Ipa)
  BY PutAndDrop DEF queues
<1>7. QueuesOf(Tail(ipa), Append(WaitingQueue, m), iut, inbox, client)
        = Put(QueuesOf(Tail(ipa), WaitingQueue, iut, inbox, client), Waiting, m)
  BY PutAndDrop
<1>8. queues[Ipa] = ipa
  BY QueuesAre DEF queues
<1> QED  BY <1>3, <1>5, <1>6, <1>7, <1>8, Zenon DEF Passes

LEMMA FromIpaToIut ==
  ASSUME QueueTypes, NEW m \in ToBsc, ipa # <<>>,
         ipa' = Tail(ipa),
         iut' = Append(iut, m),
         UNCHANGED <<WaitingQueue, inbox, client>>
  PROVE  Passes(Ipa, Iut, m) /\ QueueTypes'
<1>1. /\ ipa \in Seq(FromBsc) /\ WaitingQueue \in Seq(Drs) /\ iut \in Seq(ToBsc)
      /\ inbox \in [Hdlrs -> Seq(Drs \cup Answers)] /\ client \in [Hdlrs -> Seq(FromHdlrs)]
  BY DEF QueueTypes
<1>2. Tail(ipa) \in Seq(FromBsc) /\ Append(iut, m) \in Seq(ToBsc)
  BY <1>1, TakenQueue, AppendedQueue
<1>3. QueueTypes'
  BY <1>1, <1>2 DEF QueueTypes
<1>5. queues' = QueuesOf(Tail(ipa), WaitingQueue, Append(iut, m), inbox, client)
  BY Zenon DEF queues
<1>6. QueuesOf(Tail(ipa), WaitingQueue, iut, inbox, client) = Drop(queues, Ipa)
  BY PutAndDrop DEF queues
<1>7. QueuesOf(Tail(ipa), WaitingQueue, Append(iut, m), inbox, client)
        = Put(QueuesOf(Tail(ipa), WaitingQueue, iut, inbox, client), Iut, m)
  BY PutAndDrop
<1>8. queues[Ipa] = ipa
  BY QueuesAre DEF queues
<1> QED  BY <1>3, <1>5, <1>6, <1>7, <1>8, Zenon DEF Passes

LEMMA FromClientToIut ==
  ASSUME QueueTypes, NEW h \in Hdlrs, NEW m \in ToBsc, client[h] # <<>>,
         client' = [client EXCEPT ![h] = Tail(@)],
         iut' = Append(iut, m),
         UNCHANGED <<ipa, WaitingQueue, inbox>>
  PROVE  Passes(ClientOf(h), Iut, m) /\ QueueTypes'
<1>1. /\ ipa \in Seq(FromBsc) /\ WaitingQueue \in Seq(Drs) /\ iut \in Seq(ToBsc)
      /\ inbox \in [Hdlrs -> Seq(Drs \cup Answers)] /\ client \in [Hdlrs -> Seq(FromHdlrs)]
  BY DEF QueueTypes
<1>2. Tail(client[h]) \in Seq(FromHdlrs) /\ Append(iut, m) \in Seq(ToBsc)
  BY <1>1, TakenQueue, AppendedQueue
<1>3. QueueTypes'
  BY <1>1, <1>2 DEF QueueTypes
<1>4. DOMAIN inbox = Hdlrs /\ DOMAIN client = Hdlrs /\ client' = With(client, h, Tail(client[h]))
  BY <1>1 DEF With
<1>5. queues' = QueuesOf(ipa, WaitingQueue, Append(iut, m), inbox, With(client, h, Tail(client[h])))
  BY <1>4, Zenon DEF queues
<1>6. QueuesOf(ipa, WaitingQueue, iut, inbox, With(client, h, Tail(client[h]))) = Drop(queues, ClientOf(h))
  BY <1>4, PutAndDrop DEF queues
<1>7. QueuesOf(ipa, WaitingQueue, Append(iut, m), inbox, With(client, h, Tail(client[h])))
        = Put(QueuesOf(ipa, WaitingQueue, iut, inbox, With(client, h, Tail(client[h]))), Iut, m)
  BY <1>4, PutAndDrop
<1>8. queues[ClientOf(h)] = client[h]
  BY QueuesAre DEF queues
<1> QED  BY <1>3, <1>5, <1>6, <1>7, <1>8, Zenon DEF Passes

LEMMA FromIutToIpa ==
  ASSUME QueueTypes, NEW m \in FromBsc, iut # <<>>,
         iut' = Tail(iut),
         ipa' = Append(ipa, m),
         UNCHANGED <<WaitingQueue, inbox, client>>
  PROVE  Passes(Iut, Ipa, m) /\ QueueTypes'
<1>1. /\ ipa \in Seq(FromBsc) /\ WaitingQueue \in Seq(Drs) /\ iut \in Seq(ToBsc)
      /\ inbox \in [Hdlrs -> Seq(Drs \cup Answers)] /\ client \in [Hdlrs -> Seq(FromHdlrs)]
  BY DEF QueueTypes
<1>2. Tail(iut) \in Seq(ToBsc) /\ Append(ipa, m) \in Seq(FromBsc)
  BY <1>1, TakenQueue, AppendedQueue
<1>3. QueueTypes'
  BY <1>1, <1>2 DEF QueueTypes
<1>5. queues' = QueuesOf(Append(ipa, m), WaitingQueue, Tail(iut), inbox, client)
  BY Zenon DEF queues
<1>6. QueuesOf(ipa, WaitingQueue, Tail(iut), inbox, client) = Drop(queues, Iut)
  BY PutAndDrop DEF queues
<1>7. QueuesOf(Append(ipa, m), WaitingQueue, Tail(iut), inbox, client)
        = Put(QueuesOf(ipa, WaitingQueue, Tail(iut), inbox, client), Ipa, m)
  BY PutAndDrop
<1>8. queues[Iut] = iut
  BY QueuesAre DEF queues
<1> QED  BY <1>3, <1>5, <1>6, <1>7, <1>8, Zenon DEF Passes

LEMMA FromInboxToClient ==
  ASSUME QueueTypes, NEW h \in Hdlrs, NEW m \in FromHdlrs, inbox[h] # <<>>,
         inbox' = [inbox EXCEPT ![h] = Tail(@)],
         client' = [client EXCEPT ![h] = Append(@, m)],
         UNCHANGED <<ipa, WaitingQueue, iut>>
  PROVE  Passes(InboxOf(h), ClientOf(h), m) /\ QueueTypes'
<1>1. /\ ipa \in Seq(FromBsc) /\ WaitingQueue \in Seq(Drs) /\ iut \in Seq(ToBsc)
      /\ inbox \in [Hdlrs -> Seq(Drs \cup Answers)] /\ client \in [Hdlrs -> Seq(FromHdlrs)]
  BY DEF QueueTypes
<1>2. Tail(inbox[h]) \in Seq(Drs \cup Answers) /\ Append(client[h], m) \in Seq(FromHdlrs)
  BY <1>1, TakenQueue, AppendedQueue
<1>3. QueueTypes'
  BY <1>1, <1>2 DEF QueueTypes
<1>4. DOMAIN inbox = Hdlrs /\ DOMAIN client = Hdlrs /\ inbox' = With(inbox, h, Tail(inbox[h])) /\ client' = With(client, h, Append(client[h], m))
  BY <1>1 DEF With
<1>5. queues' = QueuesOf(ipa, WaitingQueue, iut, With(inbox, h, Tail(inbox[h])), With(client, h, Append(client[h], m)))
  BY <1>4, Zenon DEF queues
<1>6. QueuesOf(ipa, WaitingQueue, iut, With(inbox, h, Tail(inbox[h])), client) = Drop(queues, InboxOf(h))
  BY <1>4, PutAndDrop DEF queues
<1>7. QueuesOf(ipa, WaitingQueue, iut, With(inbox, h, Tail(inbox[h])), With(client, h, Append(client[h], m)))
        = Put(QueuesOf(ipa, WaitingQueue, iut, With(inbox, h, Tail(inbox[h])), client), ClientOf(h), m)
  BY <1>4, PutAndDrop
<1>8. queues[InboxOf(h)] = inbox[h]
  BY QueuesAre DEF queues
<1> QED  BY <1>3, <1>5, <1>6, <1>7, <1>8, Zenon DEF Passes

LEMMA OutOfIpa ==
  ASSUME QueueTypes, ipa # <<>>,
         ipa' = Tail(ipa),
         UNCHANGED <<WaitingQueue, iut, inbox, client>>
  PROVE  Leaves(Ipa) /\ QueueTypes'
<1>1. /\ ipa \in Seq(FromBsc) /\ WaitingQueue \in Seq(Drs) /\ iut \in Seq(ToBsc)
      /\ inbox \in [Hdlrs -> Seq(Drs \cup Answers)] /\ client \in [Hdlrs -> Seq(FromHdlrs)]
  BY DEF QueueTypes
<1>2. Tail(ipa) \in Seq(FromBsc)
  BY <1>1, TakenQueue
<1>3. QueueTypes'
  BY <1>1, <1>2 DEF QueueTypes
<1>5. queues' = QueuesOf(Tail(ipa), WaitingQueue, iut, inbox, client)
  BY Zenon DEF queues
<1>6. QueuesOf(Tail(ipa), WaitingQueue, iut, inbox, client) = Drop(queues, Ipa)
  BY PutAndDrop DEF queues
<1>7. queues[Ipa] = ipa
  BY QueuesAre DEF queues
<1> QED  BY <1>3, <1>5, <1>6, <1>7, Zenon DEF Leaves

LEMMA OutOfIut ==
  ASSUME QueueTypes, iut # <<>>,
         iut' = Tail(iut),
         UNCHANGED <<ipa, WaitingQueue, inbox, client>>
  PROVE  Leaves(Iut) /\ QueueTypes'
<1>1. /\ ipa \in Seq(FromBsc) /\ WaitingQueue \in Seq(Drs) /\ iut \in Seq(ToBsc)
      /\ inbox \in [Hdlrs -> Seq(Drs \cup Answers)] /\ client \in [Hdlrs -> Seq(FromHdlrs)]
  BY DEF QueueTypes
<1>2. Tail(iut) \in Seq(ToBsc)
  BY <1>1, TakenQueue
<1>3. QueueTypes'
  BY <1>1, <1>2 DEF QueueTypes
<1>5. queues' = QueuesOf(ipa, WaitingQueue, Tail(iut), inbox, client)
  BY Zenon DEF queues
<1>6. QueuesOf(ipa, WaitingQueue, Tail(iut), inbox, client) = Drop(queues, Iut)
  BY PutAndDrop DEF queues
<1>7. queues[Iut] = iut
  BY QueuesAre DEF queues
<1> QED  BY <1>3, <1>5, <1>6, <1>7, Zenon DEF Leaves

LEMMA OutOfInbox ==
  ASSUME QueueTypes, NEW h \in Hdlrs, inbox[h] # <<>>,
         inbox' = [inbox EXCEPT ![h] = Tail(@)],
         UNCHANGED <<ipa, WaitingQueue, iut, client>>
  PROVE  Leaves(InboxOf(h)) /\ QueueTypes'
<1>1. /\ ipa \in Seq(FromBsc) /\ WaitingQueue \in Seq(Drs) /\ iut \in Seq(ToBsc)
      /\ inbox \in [Hdlrs -> Seq(Drs \cup Answers)] /\ client \in [Hdlrs -> Seq(FromHdlrs)]
  BY DEF QueueTypes
<1>2. Tail(inbox[h]) \in Seq(Drs \cup Answers)
  BY <1>1, TakenQueue
<1>3. QueueTypes'
  BY <1>1, <1>2 DEF QueueTypes
<1>4. DOMAIN inbox = Hdlrs /\ DOMAIN client = Hdlrs /\ inbox' = With(inbox, h, Tail(inbox[h]))
  BY <1>1 DEF With
<1>5. queues' = QueuesOf(ipa, WaitingQueue, iut, With(inbox, h, Tail(inbox[h])), client)
  BY <1>4, Zenon DEF queues
<1>6. QueuesOf(ipa, WaitingQueue, iut, With(inbox, h, Tail(inbox[h])), client) = Drop(queues, InboxOf(h))
  BY <1>4, PutAndDrop DEF queues
<1>7. queues[InboxOf(h)] = inbox[h]
  BY QueuesAre DEF queues
<1> QED  BY <1>3, <1>5, <1>6, <1>7, Zenon DEF Leaves

LEMMA IntoIpa ==
  ASSUME QueueTypes, NEW m \in FromBsc,
         ipa' = Append(ipa, m),
         UNCHANGED <<WaitingQueue, iut, inbox, client>>
  PROVE  Arrives(Ipa, m) /\ QueueTypes'
<1>1. /\ ipa \in Seq(FromBsc) /\ WaitingQueue \in Seq(Drs) /\ iut \in Seq(ToBsc)
      /\ inbox \in [Hdlrs -> Seq(Drs \cup Answers)] /\ client \in [Hdlrs -> Seq(FromHdlrs)]
  BY DEF QueueTypes
<1>2. Append(ipa, m) \in Seq(FromBsc)
  BY <1>1, AppendedQueue
<1>3. QueueTypes'
  BY <1>1, <1>2 DEF QueueTypes
<1>5. queues' = QueuesOf(Append(ipa, m), WaitingQueue, iut, inbox, client)
  BY Zenon DEF queues
<1>6. QueuesOf(Append(ipa, m), WaitingQueue, iut, inbox, client) = Put(queues, Ipa, m)
  BY PutAndDrop DEF queues
<1> QED  BY <1>3, <1>5, <1>6, Zenon DEF Arrives

LEMMA IntoClient ==
  ASSUME QueueTypes, NEW h \in Hdlrs, NEW m \in FromHdlrs,
         client' = [client EXCEPT ![h] = Append(@, m)],
         UNCHANGED <<ipa, WaitingQueue, iut, inbox>>
  PROVE  Arrives(ClientOf(h), m) /\ QueueTypes'
<1>1. /\ ipa \in Seq(FromBsc) /\ WaitingQueue \in Seq(Drs) /\ iut \in Seq(ToBsc)
      /\ inbox \in [Hdlrs -> Seq(Drs \cup Answers)] /\ client \in [Hdlrs -> Seq(FromHdlrs)]
  BY DEF QueueTypes
<1>2. Append(client[h], m) \in Seq(FromHdlrs)
  BY <1>1, AppendedQueue
<1>3. QueueTypes'
  BY <1>1, <1>2 DEF QueueTypes
<1>4. DOMAIN inbox = Hdlrs /\ DOMAIN client = Hdlrs /\ client' = With(client, h, Append(client[h], m))
  BY <1>1 DEF With
<1>5. queues' = QueuesOf(ipa, WaitingQueue, iut, inbox, With(client, h, Append(client[h], m)))
  BY <1>4, Zenon DEF queues
<1>6. QueuesOf(ipa, WaitingQueue, iut, inbox, With(client, h, Append(client[h], m))) = Put(queues, ClientOf(h), m)
  BY <1>4, PutAndDrop DEF queues
<1> QED  BY <1>3, <1>5, <1>6, Zenon DEF Arrives

-----------------------------------------------------------------------------
(* Messages of one procedure. *)

LEMMA Fields ==
  /\ \A m \in All :
       /\ IsRequest(m) => m.ra \in RequestRas
       /\ m.t \in {"DR", "CHAN_ACTIV", "IMM_ASS", "EST", "ASS_CMPL", "REL_ACK", "ACT_ACK"} => m.lchan \in Lchans
       /\ IsActivation(m) \/ IsCommand(m) \/ IsComplete(m) \/ IsRelease(m) => m.lchan \in Lchans
       /\ m.t = "CHAN_ACTIV" => m.for \in Hdlrs
       /\ m.t = "DR" => m.new \in Lchans \cup {None} /\ m \in Drs
  /\ \A m \in FromBsc :
       /\ m.t \in {"DR", "IMM_ASS", "IMM_REJ", "CHAN_ACTIV", "DOWN"}
       /\ m.t \in {"IMM_ASS", "IMM_REJ"} => m \in Answers
       /\ m.t = "DOWN" => m.conn \in Conns
  /\ \A m \in FromHdlrs : m.t = "RQD" => m \in Rqds
  /\ \A m \in FromHdlrs : m.t # "RQD" => m.t \in {"EST", "ASS_CMPL", "REL_ACK"} /\ m.lchan \in Lchans
<1>1. \A m \in All :
       /\ IsRequest(m) => m.ra \in RequestRas
       /\ m.t \in {"DR", "CHAN_ACTIV", "IMM_ASS", "EST", "ASS_CMPL", "REL_ACK", "ACT_ACK"} => m.lchan \in Lchans
       /\ m.t = "CHAN_ACTIV" => m.for \in Hdlrs
       /\ m.t = "DR" => m.new \in Lchans \cup {None} /\ m \in Drs
  BY DEF IsRequest, All, FromBsc, Drs, Answers, Rqds, FromHdlrs, ToBsc
<1>2. \A m \in All :
        IsActivation(m) \/ IsCommand(m) \/ IsComplete(m) \/ IsRelease(m) => m.lchan \in Lchans
  BY <1>1 DEF IsActivation, IsCommand, IsComplete, IsRelease
<1>3. \A m \in FromBsc :
       /\ m.t \in {"DR", "IMM_ASS", "IMM_REJ", "CHAN_ACTIV", "DOWN"}
       /\ m.t \in {"IMM_ASS", "IMM_REJ"} => m \in Answers
       /\ m.t = "DOWN" => m.conn \in Conns
  BY DEF FromBsc, Drs, Answers
<1>4. /\ \A m \in FromHdlrs : m.t = "RQD" => m \in Rqds
      /\ \A m \in FromHdlrs : m.t # "RQD" => m.t \in {"EST", "ASS_CMPL", "REL_ACK"} /\ m.lchan \in Lchans
  BY DEF FromHdlrs, Rqds
<1> QED  BY <1>1, <1>2, <1>3, <1>4

Akin(x, m) ==
    \/ IsRequest(x) /\ IsRequest(m) /\ x.ra = m.ra
    \/ IsActivation(x) /\ IsActivation(m) /\ x.lchan = m.lchan
    \/ IsCommand(x) /\ IsCommand(m) /\ x.lchan = m.lchan
    \/ IsComplete(x) /\ IsComplete(m) /\ x.lchan = m.lchan
    \/ IsRelease(x) /\ IsRelease(m) /\ x.lchan = m.lchan

\* Messages are of one procedure when some S of Procedures has both.
LEMMA AkinIn ==
  ASSUME NEW x \in All, NEW m \in All
  PROVE  /\ \A S \in Procedures : x \in S /\ m \in S => Akin(x, m)
         /\ Akin(x, m) => \E S \in Procedures : x \in S /\ m \in S
<1>1. ASSUME NEW S \in Procedures, x \in S, m \in S PROVE Akin(x, m)
  BY <1>1 DEF Procedures, RequestMsgs, ActivationMsgs, CommandMsgs, CompleteMsgs, ReleaseMsgs, Akin
<1>2. ASSUME Akin(x, m) PROVE \E S \in Procedures : x \in S /\ m \in S
  <2>1. CASE IsRequest(x) /\ IsRequest(m) /\ x.ra = m.ra
    <3>1. RequestMsgs(m.ra) \in Procedures
      BY <2>1, Fields DEF Procedures
    <3> QED  BY <2>1, <3>1 DEF RequestMsgs
  <2>2. CASE IsActivation(x) /\ IsActivation(m) /\ x.lchan = m.lchan
    <3>1. ActivationMsgs(m.lchan) \in Procedures
      BY <2>2, Fields DEF Procedures
    <3> QED  BY <2>2, <3>1 DEF ActivationMsgs
  <2>3. CASE IsCommand(x) /\ IsCommand(m) /\ x.lchan = m.lchan
    <3>1. CommandMsgs(m.lchan) \in Procedures
      BY <2>3, Fields DEF Procedures
    <3> QED  BY <2>3, <3>1 DEF CommandMsgs
  <2>4. CASE IsComplete(x) /\ IsComplete(m) /\ x.lchan = m.lchan
    <3>1. CompleteMsgs(m.lchan) \in Procedures
      BY <2>4, Fields DEF Procedures
    <3> QED  BY <2>4, <3>1 DEF CompleteMsgs
  <2>5. CASE IsRelease(x) /\ IsRelease(m) /\ x.lchan = m.lchan
    <3>1. ReleaseMsgs(m.lchan) \in Procedures
      BY <2>5, Fields DEF Procedures
    <3> QED  BY <2>5, <3>1 DEF ReleaseMsgs
  <2> QED  BY <1>2, <2>1, <2>2, <2>3, <2>4, <2>5 DEF Akin
<1> QED  BY <1>1, <1>2

\* x is in some queue.
Under(x) == \E u \in Places : x \in Elems(queues[u])

LEMMA UnderWay ==
  ASSUME QueueTypes
  PROVE  /\ \A x : Under(x) => x \in All
         /\ \A S : Somewhere(queues, S) <=> \E x : Under(x) /\ x \in S
<1>1. queues \in [Places -> Seq(All)]
  BY QueuesTyped
<1>2. \A x : Under(x) => x \in All
  BY <1>1 DEF Under, Elems, Indices
<1>3. DOMAIN queues = Places
  BY <1>1
<1> QED  BY <1>2, <1>3, SomewhereIn DEF Under

LEMMA UnderWayNext ==
  QueueTypes' => (/\ \A x : Under(x) => x \in All
                  /\ \A S : Somewhere(queues, S) <=> \E x : Under(x) /\ x \in S)'
<1>1. QueueTypes => (/\ \A x : Under(x) => x \in All
                     /\ \A S : Somewhere(queues, S) <=> \E x : Under(x) /\ x \in S)
  BY UnderWay
<1> QED  BY <1>1, PTL

\* One message of each procedure at most stays the case.
LEMMA SingleArrival ==
  ASSUME QueueTypes, SingleInv, NEW p \in Places, NEW m \in All, Arrives(p, m),
         \A x : Under(x) => ~Akin(x, m)
  PROVE  SingleInv'
<1> SUFFICES ASSUME NEW S \in Procedures PROVE Single(queues', S)
  BY DEF SingleInv
<1>1. Single(queues, S)
  BY DEF SingleInv
<1>2. m \in S => ~Somewhere(queues, S)
  BY UnderWay, AkinIn
<1> QED  BY <1>1, <1>2, Arrival

LEMMA SinglePassing ==
  ASSUME QueueTypes, QueueTypes', SingleInv, NEW p \in Places, NEW r \in Places, NEW m \in All,
         Passes(p, r, m),
         Akin(Head(queues[p]), m) \/ \A x : Under(x) => ~Akin(x, m)
  PROVE  /\ SingleInv'
         /\ \A x : Under(x)' /\ Akin(Head(queues[p]), x) => Akin(m, x)
<1> DEFINE h == Head(queues[p])
<1>1. h \in All /\ h \in Elems(queues[p])
  BY Passing
<1>2. /\ \A S : Single(queues, S) /\ (m \in S => h \in S \/ ~Somewhere(queues, S)) => Single(queues', S)
      /\ \A S : Single(queues, S) /\ h \in S /\ m \notin S => ~Somewhere(queues', S)
  BY Passing
<1> HIDE DEF h
<1>3. ASSUME NEW S \in Procedures PROVE Single(queues', S)
  <2>1. Single(queues, S)
    BY DEF SingleInv
  <2>2. m \in S => h \in S \/ ~Somewhere(queues, S)
    <3>1. CASE Akin(h, m)
      <4>1. ASSUME m \in S PROVE h \in S
        BY <1>1, <3>1, <4>1 DEF Akin, Procedures, RequestMsgs, ActivationMsgs, CommandMsgs, CompleteMsgs,
              ReleaseMsgs, IsRequest, IsActivation, IsCommand, IsComplete, IsRelease
      <4> QED  BY <4>1
    <3>2. CASE \A x : Under(x) => ~Akin(x, m)
      BY <3>2, UnderWay, AkinIn
    <3> QED  BY <3>1, <3>2 DEF h
  <2> QED  BY <1>2, <2>1, <2>2
<1>4. ASSUME NEW x, Under(x)', Akin(h, x) PROVE Akin(m, x)
  <2>1. /\ x \in All
        /\ \A S : Somewhere(queues, S)' <=> \E y : Under(y)' /\ y \in S
    BY <1>4, UnderWayNext
  <2>2. PICK S \in Procedures : h \in S /\ x \in S
    BY <1>1, <1>4, <2>1, AkinIn
  <2>3. Somewhere(queues', S)
    BY <1>4, <2>1, <2>2 DEF Somewhere
  <2>4. m \in S
    BY <1>2, <2>2, <2>3 DEF SingleInv
  <2> QED  BY <2>1, <2>2, <2>4, AkinIn
<1> QED  BY <1>3, <1>4 DEF SingleInv, h

LEMMA SingleLeaving ==
  ASSUME QueueTypes, QueueTypes', SingleInv, NEW p \in Places, Leaves(p)
  PROVE  /\ SingleInv'
         /\ \A x : Under(x)' => ~Akin(Head(queues[p]), x)
<1> DEFINE h == Head(queues[p])
<1>1. h \in All
  BY Leaving
<1>2. \A S : Single(queues, S) => Single(queues', S) /\ (h \in S => ~Somewhere(queues', S))
  BY Leaving
<1> HIDE DEF h
<1>3. SingleInv'
  BY <1>2 DEF SingleInv
<1>4. ASSUME NEW x, Under(x)', Akin(h, x) PROVE FALSE
  <2>1. /\ x \in All
        /\ \A S : Somewhere(queues, S)' <=> \E y : Under(y)' /\ y \in S
    BY <1>4, UnderWayNext
  <2>2. PICK S \in Procedures : h \in S /\ x \in S
    BY <1>1, <1>4, <2>1, AkinIn
  <2>3. Somewhere(queues', S)
    BY <1>4, <2>1, <2>2 DEF Somewhere
  <2> QED  BY <1>2, <2>2, <2>3 DEF SingleInv
<1> QED  BY <1>3, <1>4 DEF h

-----------------------------------------------------------------------------
(* What a message means depends on its place only at the ports of the handlers. *)

procedures == <<stage, g_chan_nr, other, bsc, user, LastActTable>>

LEMMA MeansSame ==
  ASSUME UNCHANGED procedures, NEW p, NEW m
  PROVE  Means(p, m)' <=> Means(p, m)
  BY DEF procedures, Means, RequestMeans, ActivationMeans, ReleaseMeans, Commanded, Completing,
         Requesting, Gives, NoneFor, Late

LEMMA MeansAtPort ==
  ASSUME NEW p, NEW u, NEW m, Means(u, m), p[1] \notin {"inbox", "client"}
  PROVE  Means(p, m)
  BY DEF Means, RequestMeans

\* A message of the same content
LEMMA Plain ==
  ASSUME NEW p, NEW m,
         ~IsRequest(m), ~IsActivation(m), ~IsCommand(m), ~IsComplete(m), ~IsRelease(m)
  PROVE  Means(p, m) /\ \A x : ~Akin(x, m)
  BY DEF Means, RequestMeans, ActivationMeans, ReleaseMeans, IsActivation, IsRelease, Akin

LEMMA MessagesKept ==
  ASSUME MessagesInv, NEW r, NEW m, Means(r, m)',
         \A u \in Places : \A x \in Elems(queues'[u]) : x \in Elems(queues[u]) \/ (u = r /\ x = m),
         \A u \in Places : \A x \in Elems(queues[u]) : Means(u, x) /\ Under(x)' => Means(u, x)'
  PROVE  MessagesInv'
  BY DEF MessagesInv, Under

LEMMA MessagesFewer ==
  ASSUME MessagesInv,
         \A u \in Places : \A x \in Elems(queues'[u]) : x \in Elems(queues[u]),
         \A u \in Places : \A x \in Elems(queues[u]) : Means(u, x) /\ Under(x)' => Means(u, x)'
  PROVE  MessagesInv'
  BY DEF MessagesInv, Under

\* The head of a queue is one of its messages.
LEMMA HeadMeans ==
  ASSUME OwnInv, NEW p \in Places, queues[p] # <<>>
  PROVE  /\ Head(queues[p]) \in All /\ Under(Head(queues[p]))
         /\ Means(p, Head(queues[p]))
<1>1. queues \in [Places -> Seq(All)]
  BY QueuesTyped DEF OwnInv
<1>2. Head(queues[p]) \in All /\ Head(queues[p]) \in Elems(queues[p])
  BY <1>1, TakenQueue
<1> QED  BY <1>2 DEF OwnInv, MessagesInv, Under

-----------------------------------------------------------------------------
(* Steps that leave the procedures of all handlers where they are. *)

LEMMA RestSame ==
  ASSUME OwnInv, UNCHANGED procedures, UNCHANGED hoCommand,
         \A h \in Hdlrs : call'[h].op \in {"last", "register"} => call'[h] = call[h]
  PROVE  /\ HdlrsInv' /\ LchansInv'
         /\ \A e : EntryInv(e)' <=> EntryInv(e)
<1>1. HdlrsInv'
  <2> SUFFICES ASSUME NEW h \in Hdlrs PROVE HdlrInv(h)'
    BY DEF HdlrsInv
  <2>1. HdlrInv(h)
    BY DEF OwnInv, HdlrsInv
  <2> QED  BY <2>1 DEF HdlrInv, procedures, Gives, NoneFor
<1>2. LchansInv'
  BY DEF OwnInv, LchansInv, LchanInv, procedures
<1>3. ASSUME NEW e PROVE EntryInv(e)' <=> EntryInv(e)
  BY DEF EntryInv, procedures, Gives, Late
<1> QED  BY <1>1, <1>2, <1>3

\* ... when a message goes on in its procedure, or is of none
LEMMA PassingKeeps ==
  ASSUME OwnInv, Types', QueueTypes', TableInv', HdlrsInv', LchansInv', UNCHANGED procedures,
         NEW p \in Places, NEW r \in Places, NEW m \in All, Passes(p, r, m),
         Akin(Head(queues[p]), m) \/ \A x : Under(x) => ~Akin(x, m),
         Means(r, m)
  PROVE  OwnInv'
<1>0. QueueTypes /\ SingleInv /\ MessagesInv
  BY DEF OwnInv
<1>1. SingleInv'
  BY <1>0, SinglePassing
<1>2. Means(r, m)' /\ \A u, x : Means(u, x) => Means(u, x)'
  BY MeansSame
<1>3. \A u \in Places : \A x \in Elems(queues'[u]) : x \in Elems(queues[u]) \/ (u = r /\ x = m)
  BY <1>0, Passing
<1>4. MessagesInv'
  BY <1>0, <1>2, <1>3, MessagesKept
<1> QED  BY <1>1, <1>4 DEF OwnInv

LEMMA ArrivalKeeps ==
  ASSUME OwnInv, Types', QueueTypes', TableInv', HdlrsInv', LchansInv', UNCHANGED procedures,
         NEW p \in Places, NEW m \in All, Arrives(p, m),
         \A x : Under(x) => ~Akin(x, m), Means(p, m)
  PROVE  OwnInv'
<1>0. QueueTypes /\ SingleInv /\ MessagesInv
  BY DEF OwnInv
<1>1. SingleInv'
  BY <1>0, SingleArrival
<1>2. Means(p, m)' /\ \A u, x : Means(u, x) => Means(u, x)'
  BY MeansSame
<1>3. \A u \in Places : \A x \in Elems(queues'[u]) : x \in Elems(queues[u]) \/ (u = p /\ x = m)
  BY <1>0, Arrival
<1>4. MessagesInv'
  BY <1>0, <1>2, <1>3, MessagesKept
<1> QED  BY <1>1, <1>4 DEF OwnInv

LEMMA LeavingKeeps ==
  ASSUME OwnInv, Types', QueueTypes', TableInv', HdlrsInv', LchansInv', UNCHANGED procedures,
         NEW p \in Places, Leaves(p)
  PROVE  OwnInv'
<1>0. QueueTypes /\ SingleInv /\ MessagesInv
  BY DEF OwnInv
<1>1. SingleInv'
  BY <1>0, SingleLeaving
<1>2. \A u, x : Means(u, x) => Means(u, x)'
  BY MeansSame
<1>3. \A u \in Places : \A x \in Elems(queues'[u]) : x \in Elems(queues[u])
  BY <1>0, Leaving
<1>4. MessagesInv'
  BY <1>0, <1>2, <1>3, MessagesFewer
<1> QED  BY <1>1, <1>4 DEF OwnInv

LEMMA QueuesKeep ==
  ASSUME OwnInv, Types', TableInv', HdlrsInv', LchansInv', UNCHANGED procedures,
         UNCHANGED <<ipa, WaitingQueue, iut, inbox, client>>
  PROVE  OwnInv'
<1>0. QueueTypes /\ SingleInv /\ MessagesInv
  BY DEF OwnInv
<1>1. QueueTypes' /\ queues' = queues
  BY <1>0 DEF QueueTypes, queues
<1>2. SingleInv'
  BY <1>0, <1>1 DEF SingleInv
<1>3. \A u, x : Means(u, x) => Means(u, x)'
  BY MeansSame
<1>4. MessagesInv'
  BY <1>0, <1>1, <1>3 DEF MessagesInv
<1> QED  BY <1>1, <1>2, <1>4 DEF OwnInv

-----------------------------------------------------------------------------
(* The table. *)

\* The first of some slots is one of them.
LEMMA FirstIn ==
  ASSUME NEW S \in SUBSET Nat, S # {}
  PROVE  First(S) \in S
<1>1. PICK x \in S : \A y \in S : ~(<<y, x>> \in OpToRel(<, Nat))
  BY NatLessThanWellFounded, WFMin, Zenon
<1>2. ASSUME NEW y \in S PROVE x <= y
  <2>1. ~(y < x)
    BY <1>1 DEF OpToRel
  <2> QED  BY <2>1
<1> QED  BY <1>1, <1>2 DEF First

\* The slots that a lookup or a new entry takes are in the table.
LEMMA SlotsIn ==
  /\ FreeSlots # {} => First(FreeSlots) \in FreeSlots
  /\ \A h : SlotsOfComp(h) # {} => First(SlotsOfComp(h)) \in SlotsOfComp(h)
  /\ \A c : SlotsOfLchan(c) # {} => First(SlotsOfLchan(c)) \in SlotsOfLchan(c)
  /\ \A r : SlotsOfRa(r) # {} => First(SlotsOfRa(r)) \in SlotsOfRa(r)
<1>1. /\ FreeSlots \in SUBSET Nat
      /\ \A h : SlotsOfComp(h) \in SUBSET Nat
      /\ \A c : SlotsOfLchan(c) \in SUBSET Nat
      /\ \A r : SlotsOfRa(r) \in SUBSET Nat
  BY RSLAssumption DEF FreeSlots, SlotsOfComp, SlotsOfLchan, SlotsOfRa
<1> QED  BY <1>1, FirstIn

\* What the entry says that a lookup finds.
LEMMA EntryOf ==
  ASSUME OwnInv
  PROVE  /\ \A r \in RequestRas : SlotsOfRa(r) # {} =>
              /\ First(SlotsOfRa(r)) \in 1 .. Slots
              /\ ConnectionTable[First(SlotsOfRa(r))].comp \in Hdlrs
              /\ RaOf[ConnectionTable[First(SlotsOfRa(r))].comp] = r
         /\ \A c \in Lchans : HasHandler(c) =>
              /\ First(SlotsOfLchan(c)) \in 1 .. Slots
              /\ HandlerOf(c) \in Hdlrs
              /\ Late(HandlerOf(c)) \/ Gives(HandlerOf(c), c, {"used", "rel"})
         /\ FreeSlots # {} => First(FreeSlots) \in 1 .. Slots
         /\ \A h \in Hdlrs : CanSend(h) => LchanOfComp(h) \in Lchans
<1>1. /\ ConnectionTable \in [1 .. Slots -> {e \in Entries : Owned(e)}]
      /\ \A i \in 1 .. Slots : EntryInv(ConnectionTable[i])
  BY DEF OwnInv, Types, TableInv
<1>2. \A i \in 1 .. Slots :
         LET e == ConnectionTable[i] IN
         /\ e.lchan \in Lchans \cup {None} /\ e.ra \in Ras \cup {None}
         /\ e.lchan # None \/ e.ra # None => e.comp \in Hdlrs
         /\ e.ra # None => e.ra = RaOf[e.comp]
         /\ e.lchan # None => Late(e.comp) \/ Gives(e.comp, e.lchan, {"used", "rel"})
  BY <1>1 DEF Entries, Owned, EntryInv
<1>3. None \notin Lchans /\ None \notin RequestRas
  BY RSLAssumption, RSLBscAssumption DEF RequestRas
<1>4. ASSUME NEW r \in RequestRas, SlotsOfRa(r) # {}
      PROVE  /\ First(SlotsOfRa(r)) \in 1 .. Slots
             /\ ConnectionTable[First(SlotsOfRa(r))].comp \in Hdlrs
             /\ RaOf[ConnectionTable[First(SlotsOfRa(r))].comp] = r
  <2> DEFINE i == First(SlotsOfRa(r))
  <2>1. i \in SlotsOfRa(r)
    BY <1>4, SlotsIn
  <2> HIDE DEF i
  <2> QED  BY <1>2, <1>3, <2>1 DEF SlotsOfRa, i
<1>5. ASSUME NEW c \in Lchans, HasHandler(c)
      PROVE  /\ First(SlotsOfLchan(c)) \in 1 .. Slots
             /\ HandlerOf(c) \in Hdlrs
             /\ Late(HandlerOf(c)) \/ Gives(HandlerOf(c), c, {"used", "rel"})
  <2> DEFINE i == First(SlotsOfLchan(c))
  <2>1. i \in SlotsOfLchan(c)
    BY <1>5, SlotsIn DEF HasHandler
  <2>2. HandlerOf(c) = ConnectionTable[i].comp
    BY DEF HandlerOf
  <2> HIDE DEF i
  <2>3. i \in 1 .. Slots /\ ConnectionTable[i].lchan = c /\ c # None
    BY <1>3, <2>1 DEF SlotsOfLchan
  <2> QED  BY <1>2, <2>2, <2>3 DEF i
<1>6. FreeSlots # {} => First(FreeSlots) \in 1 .. Slots
  BY SlotsIn DEF FreeSlots
<1>7. ASSUME NEW h \in Hdlrs, CanSend(h) PROVE LchanOfComp(h) \in Lchans
  <2> DEFINE i == First(SlotsOfComp(h))
  <2>1. i \in SlotsOfComp(h)
    BY <1>7, SlotsIn DEF CanSend
  <2>2. LchanOfComp(h) = ConnectionTable[i].lchan /\ LchanOfComp(h) # None
    BY <1>7 DEF CanSend, LinkUpFor, LchanOfComp
  <2> HIDE DEF i
  <2> QED  BY <1>2, <2>1, <2>2 DEF SlotsOfComp
<1> QED  BY <1>4, <1>5, <1>6, <1>7

\* An entry is written, with something that is true.
LEMMA EntryWritten ==
  ASSUME OwnInv, UNCHANGED procedures, NEW i \in 1 .. Slots, NEW e \in Entries, Owned(e), EntryInv(e),
         ConnectionTable' = [ConnectionTable EXCEPT ![i] = e]
  PROVE  ConnectionTable' \in [1 .. Slots -> {x \in Entries : Owned(x)}] /\ TableInv'
<1>1. /\ ConnectionTable \in [1 .. Slots -> {x \in Entries : Owned(x)}]
      /\ \A j \in 1 .. Slots : EntryInv(ConnectionTable[j])
  BY DEF OwnInv, Types, TableInv
<1>2. /\ ConnectionTable' \in [1 .. Slots -> {x \in Entries : Owned(x)}]
      /\ \A j \in 1 .. Slots : ConnectionTable'[j] = IF j = i THEN e ELSE ConnectionTable[j]
  BY <1>1
<1>3. \A j \in 1 .. Slots : EntryInv(ConnectionTable'[j])
  BY <1>1, <1>2
<1>4. \A x : EntryInv(x)' <=> EntryInv(x)
  BY DEF EntryInv, procedures, Gives, Late
<1>5. ASSUME NEW j \in 1 .. Slots PROVE EntryInv(ConnectionTable[j])'
  <2>1. EntryInv(ConnectionTable'[j])
    BY <1>3
  <2> QED  BY <2>1 DEF EntryInv, procedures, Gives, Late
<1> QED  BY <1>2, <1>5 DEF TableInv

LEMMA FreeEntry == Free \in Entries /\ Owned(Free) /\ EntryInv(Free)
  BY DEF Free, Entries, Owned, EntryInv

-----------------------------------------------------------------------------
(* The dispatcher takes a message from a link. *)

\* What a taken message is.
LEMMA FromIpa ==
  ASSUME OwnInv, NEW m, NEW k, Take(k, m)
  PROVE  /\ ipa # <<>> /\ m = Head(queues[Ipa]) /\ ipa' = Tail(ipa) /\ queues[Ipa] # <<>>
         /\ m \in FromBsc /\ m \in All /\ Under(m) /\ Means(Ipa, m) /\ m.t = k
         /\ UNCHANGED <<client, call>>
<1>1. ipa # <<>> /\ m = Head(ipa) /\ ipa' = Tail(ipa) /\ m.t = k /\ UNCHANGED <<client, call>>
  BY DEF Take
<1>2. queues[Ipa] = ipa
  BY QueuesAre DEF queues
<1>3. ipa \in Seq(FromBsc)
  BY DEF OwnInv, QueueTypes
<1>4. m \in FromBsc
  BY <1>1, <1>3, TakenQueue
<1> QED  BY <1>1, <1>2, <1>4, HeadMeans, PlacesAre

\* Nothing but the table, the queues and the calls has changed.
Elsewhere == UNCHANGED <<procedures, hoCommand, testcase, ended>>

LEMMA TypesStay ==
  ASSUME OwnInv, Elsewhere, UNCHANGED trxMap,
         ConnectionTable' \in [1 .. Slots -> {x \in Entries : Owned(x)}],
         dchan_suspended' \in BOOLEAN, wait_queue_enabled' \in BOOLEAN,
         call' \in [Hdlrs -> Calls \cup {Idle}], outcome' \in {"running", "failed"}
  PROVE  Types'
  BY DEF OwnInv, Types, Elsewhere, procedures, trxMap

LEMMA TypesRest ==
  ASSUME OwnInv, Elsewhere, UNCHANGED <<trxMap, dchan_suspended, wait_queue_enabled, call, outcome>>,
         ConnectionTable' \in [1 .. Slots -> {x \in Entries : Owned(x)}]
  PROVE  Types'
<1>1. /\ dchan_suspended \in BOOLEAN /\ wait_queue_enabled \in BOOLEAN
      /\ call \in [Hdlrs -> Calls \cup {Idle}] /\ outcome \in {"running", "failed"}
  BY DEF OwnInv, Types
<1> QED  BY <1>1, TypesStay

LEMMA TableRest ==
  ASSUME OwnInv, UNCHANGED procedures, ConnectionTable' = ConnectionTable
  PROVE  /\ ConnectionTable' \in [1 .. Slots -> {x \in Entries : Owned(x)}]
         /\ TableInv'
<1>1. TableInv /\ ConnectionTable \in [1 .. Slots -> {x \in Entries : Owned(x)}]
  BY DEF OwnInv, Types
<1>2. ASSUME NEW i \in 1 .. Slots PROVE EntryInv(ConnectionTable[i])'
  <2>1. EntryInv(ConnectionTable[i])
    BY <1>1 DEF TableInv
  <2> QED  BY <2>1 DEF EntryInv, procedures, Gives, Late
<1> QED  BY <1>1, <1>2 DEF TableInv

LEMMA ImmAssKeeps ==
  ASSUME OwnInv, NEW m, ImmAss(m), Elsewhere
  PROVE  OwnInv'
<1> DEFINE i == First(SlotsOfRa(m.ra))
           g == ConnectionTable[i].comp
           e == [ConnectionTable[i] EXCEPT !.lchan = m.lchan]
<1>1. /\ Take("IMM_ASS", m) /\ SlotsOfRa(m.ra) # {}
      /\ ConnectionTable' = [ConnectionTable EXCEPT ![i].lchan = m.lchan]
      /\ inbox' = [inbox EXCEPT ![g] = Append(@, m)]
      /\ UNCHANGED <<outcome, trxMap, queueing, iut>>
  BY DEF ImmAss, Deliver, Running
<1>2. /\ ipa # <<>> /\ m = Head(queues[Ipa]) /\ ipa' = Tail(ipa)
      /\ m \in FromBsc /\ m \in All /\ Means(Ipa, m) /\ m.t = "IMM_ASS" /\ UNCHANGED <<client, call>>
  BY <1>1, FromIpa
<1>3. m \in Answers /\ m.lchan \in Lchans /\ m.ra \in RequestRas
  BY <1>2, Fields DEF IsRequest
<1>4. i \in 1 .. Slots /\ g \in Hdlrs /\ RaOf[g] = m.ra
  BY <1>1, <1>3, EntryOf
<1>5. ConnectionTable[i] \in Entries /\ Owned(ConnectionTable[i]) /\ EntryInv(ConnectionTable[i])
  BY <1>4 DEF OwnInv, Types, TableInv
<1> HIDE DEF i
<1>6. e \in Entries /\ e.lchan = m.lchan /\ e.comp = g /\ e.ra = ConnectionTable[i].ra
  BY <1>3, <1>5 DEF Entries
<1>7. /\ UNCHANGED procedures /\ UNCHANGED hoCommand
      /\ ConnectionTable' = [ConnectionTable EXCEPT ![i] = e]
  BY <1>1 DEF Elsewhere
<1> HIDE DEF e, g
<1>8. Requesting(g) /\ Gives(g, m.lchan, {"used"}) /\ \A h \in Hdlrs : RaOf[h] = m.ra => h = g
  BY <1>2, <1>4, RSLBscAssumption DEF Means, RequestMeans, IsRequest
<1>9. Owned(e) /\ EntryInv(e)
  <2>1. None \notin Hdlrs /\ None \notin Lchans
    BY RSLAssumption
  <2> QED  BY <1>3, <1>4, <1>5, <1>6, <1>8, <2>1 DEF Owned, EntryInv, Gives, g
<1>10. Means(InboxOf(g), m)
  BY <1>2, <1>8 DEF Means, RequestMeans, InboxOf, IsCommand, IsRelease, IsRequest
<1>11. Passes(Ipa, InboxOf(g), m) /\ QueueTypes'
  <2>1. QueueTypes /\ m \in Drs \cup Answers /\ UNCHANGED <<WaitingQueue, iut, client>>
    BY <1>1, <1>2, <1>3 DEF OwnInv, queueing
  <2> QED  BY <1>1, <1>2, <1>4, <2>1, FromIpaToInbox DEF g
<1>12. ConnectionTable' \in [1 .. Slots -> {x \in Entries : Owned(x)}] /\ TableInv'
  BY <1>4, <1>6, <1>7, <1>9, EntryWritten
<1>13. Types'
  BY <1>1, <1>2, <1>12, TypesRest DEF queueing
<1>14. HdlrsInv' /\ LchansInv'
  BY <1>2, <1>7, RestSame
<1>15. Akin(m, m)
  BY <1>2 DEF Akin, IsRequest
<1> QED
  BY <1>2, <1>4, <1>7, <1>10, <1>11, <1>12, <1>13, <1>14, <1>15, PassingKeeps, PlacesAre

LEMMA ImmAssRejKeeps ==
  ASSUME OwnInv, NEW m, ImmAssRej(m), Elsewhere
  PROVE  OwnInv'
<1> DEFINE i == First(SlotsOfRa(m.ra))
           g == ConnectionTable[i].comp
<1>1. /\ Take("IMM_REJ", m)
      /\ UNCHANGED <<outcome, trxMap, queueing, iut>>
      /\ IF SlotsOfRa(m.ra) # {}
         THEN Deliver(g, m) /\ Clear(i)
         ELSE UNCHANGED <<ConnectionTable, inbox>>
  BY DEF ImmAssRej, Running
<1>2. /\ ipa # <<>> /\ m = Head(queues[Ipa]) /\ ipa' = Tail(ipa)
      /\ m \in FromBsc /\ m \in All /\ Means(Ipa, m) /\ m.t = "IMM_REJ" /\ UNCHANGED <<client, call>>
  BY <1>1, FromIpa
<1>3. m \in Answers /\ m.ra \in RequestRas
  BY <1>2, Fields DEF IsRequest
<1>4. /\ UNCHANGED procedures /\ UNCHANGED hoCommand
      /\ UNCHANGED <<dchan_suspended, wait_queue_enabled, call, outcome, trxMap>>
      /\ QueueTypes /\ UNCHANGED <<WaitingQueue, iut, client>>
  BY <1>1, <1>2 DEF Elsewhere, OwnInv, queueing
<1>5. HdlrsInv' /\ LchansInv'
  BY <1>4, RestSame
<1>6. CASE SlotsOfRa(m.ra) # {}
  <2>1. i \in 1 .. Slots /\ g \in Hdlrs /\ RaOf[g] = m.ra
    BY <1>3, <1>6, EntryOf
  <2>2. /\ ConnectionTable' = [ConnectionTable EXCEPT ![i] = Free]
        /\ inbox' = [inbox EXCEPT ![g] = Append(@, m)]
    BY <1>1, <1>6 DEF Deliver, Clear
  <2> HIDE DEF i, g
  <2>3. ConnectionTable' \in [1 .. Slots -> {x \in Entries : Owned(x)}] /\ TableInv'
    BY <1>4, <2>1, <2>2, EntryWritten, FreeEntry
  <2>4. Passes(Ipa, InboxOf(g), m) /\ QueueTypes'
    <3>1. m \in Drs \cup Answers
      BY <1>3
    <3> QED  BY <1>2, <1>4, <2>1, <2>2, <3>1, FromIpaToInbox
  <2>5. \A h \in Hdlrs : RaOf[h] = m.ra => h = g
    BY <2>1, RSLBscAssumption
  <2>6. Means(InboxOf(g), m)
    BY <1>2, <2>5 DEF Means, RequestMeans, InboxOf, IsCommand, IsRelease, IsRequest
  <2>7. Types'
    BY <1>4, <2>3, TypesRest
  <2>8. Akin(m, m)
    BY <1>2 DEF Akin, IsRequest
  <2> QED
    BY <1>2, <1>4, <1>5, <2>1, <2>3, <2>4, <2>6, <2>7, <2>8, PassingKeeps, PlacesAre
<1>7. CASE SlotsOfRa(m.ra) = {}
  <2>1. UNCHANGED <<ConnectionTable, inbox>>
    BY <1>1, <1>7
  <2>2. ConnectionTable' \in [1 .. Slots -> {x \in Entries : Owned(x)}] /\ TableInv'
    BY <1>4, <2>1, TableRest
  <2>3. Leaves(Ipa) /\ QueueTypes'
    BY <1>2, <1>4, <2>1, OutOfIpa
  <2>4. Types'
    BY <1>4, <2>2, TypesRest
  <2> QED  BY <1>4, <1>5, <2>2, <2>3, <2>4, LeavingKeeps, PlacesAre
<1> QED  BY <1>6, <1>7

LEMMA ToHandlerKeeps ==
  ASSUME OwnInv, NEW m, ToHandler(m), Elsewhere
  PROVE  OwnInv'
<1> DEFINE g == HandlerOf(m.lchan)
<1>1. /\ Take("DR", m) /\ HasHandler(m.lchan)
      /\ inbox' = [inbox EXCEPT ![g] = Append(@, m)]
      /\ UNCHANGED <<outcome, tables, trxMap, queueing, iut>>
  BY DEF ToHandler, Deliver, Running
<1>2. /\ ipa # <<>> /\ m = Head(queues[Ipa]) /\ ipa' = Tail(ipa)
      /\ m \in FromBsc /\ m \in All /\ Means(Ipa, m) /\ m.t = "DR" /\ UNCHANGED <<client, call>>
  BY <1>1, FromIpa
<1>3. m \in Drs /\ m.lchan \in Lchans
  BY <1>2, Fields
<1>4. /\ UNCHANGED procedures /\ UNCHANGED hoCommand
      /\ UNCHANGED <<dchan_suspended, wait_queue_enabled, call, outcome, trxMap, ConnectionTable>>
      /\ QueueTypes /\ UNCHANGED <<WaitingQueue, iut, client>>
  BY <1>1, <1>2 DEF Elsewhere, OwnInv, queueing, tables
<1>5. g \in Hdlrs /\ (Late(g) \/ Gives(g, m.lchan, {"used", "rel"}))
  BY <1>1, <1>3, EntryOf
<1> HIDE DEF g
<1>6. Means(InboxOf(g), m)
  BY <1>2, <1>5 DEF Means, RequestMeans, InboxOf, IsRequest, Gives
<1>7. Passes(Ipa, InboxOf(g), m) /\ QueueTypes'
  <2>1. m \in Drs \cup Answers
    BY <1>3
  <2> QED  BY <1>1, <1>2, <1>4, <1>5, <2>1, FromIpaToInbox DEF g
<1>8. ConnectionTable' \in [1 .. Slots -> {x \in Entries : Owned(x)}] /\ TableInv'
  BY <1>4, TableRest
<1>9. Types' /\ HdlrsInv' /\ LchansInv'
  BY <1>4, <1>8, TypesRest, RestSame
<1>10. Akin(m, m) \/ \A x : Under(x) => ~Akin(x, m)
  BY <1>2 DEF Akin
<1> QED
  BY <1>2, <1>4, <1>5, <1>6, <1>7, <1>8, <1>9, <1>10, PassingKeeps, PlacesAre

LEMMA ToWaitingQueueKeeps ==
  ASSUME OwnInv, NEW m, ToWaitingQueue(m), Elsewhere
  PROVE  OwnInv'
<1>1. /\ Take("DR", m)
      /\ WaitingQueue' = Append(WaitingQueue, m)
      /\ UNCHANGED <<outcome, tables, trxMap, dchan_suspended, wait_queue_enabled, inbox, iut>>
  BY DEF ToWaitingQueue, Running
<1>2. /\ ipa # <<>> /\ m = Head(queues[Ipa]) /\ ipa' = Tail(ipa)
      /\ m \in FromBsc /\ m \in All /\ Means(Ipa, m) /\ m.t = "DR" /\ UNCHANGED <<client, call>>
  BY <1>1, FromIpa
<1>3. m \in Drs
  BY <1>2, Fields
<1>4. /\ UNCHANGED procedures /\ UNCHANGED hoCommand
      /\ UNCHANGED <<dchan_suspended, wait_queue_enabled, call, outcome, trxMap, ConnectionTable>>
      /\ QueueTypes /\ UNCHANGED <<iut, inbox, client>>
  BY <1>1, <1>2 DEF Elsewhere, OwnInv, tables
<1>5. Means(Waiting, m)
  BY <1>2, MeansAtPort DEF Waiting
<1>6. Passes(Ipa, Waiting, m) /\ QueueTypes'
  BY <1>1, <1>2, <1>3, <1>4, FromIpaToWaiting
<1>7. ConnectionTable' \in [1 .. Slots -> {x \in Entries : Owned(x)}] /\ TableInv'
  BY <1>4, TableRest
<1>8. Types' /\ HdlrsInv' /\ LchansInv'
  BY <1>4, <1>7, TypesRest, RestSame
<1>9. Akin(m, m) \/ \A x : Under(x) => ~Akin(x, m)
  BY <1>2 DEF Akin
<1> QED
  BY <1>2, <1>4, <1>5, <1>6, <1>7, <1>8, <1>9, PassingKeeps, PlacesAre

\* The testcase ends: only the outcome changes.
LEMMA FailKeeps ==
  ASSUME OwnInv, Fail, Elsewhere
  PROVE  OwnInv'
<1>1. /\ outcome' = "failed" /\ UNCHANGED procedures /\ UNCHANGED hoCommand
      /\ UNCHANGED <<ConnectionTable, trxMap, dchan_suspended, wait_queue_enabled, call>>
      /\ UNCHANGED <<ipa, WaitingQueue, iut, inbox, client>>
  BY DEF Fail, Elsewhere, tables, queueing
<1>2. ConnectionTable' \in [1 .. Slots -> {x \in Entries : Owned(x)}] /\ TableInv'
  BY <1>1, TableRest
<1>3. /\ dchan_suspended \in BOOLEAN /\ wait_queue_enabled \in BOOLEAN
      /\ call \in [Hdlrs -> Calls \cup {Idle}]
  BY DEF OwnInv, Types
<1>4. Types'
  BY <1>1, <1>2, <1>3, TypesStay
<1>5. HdlrsInv' /\ LchansInv'
  BY <1>1, RestSame
<1> QED  BY <1>1, <1>2, <1>4, <1>5, QueuesKeep

\* The activation of a channel becomes the last one of it.
LEMMA ChanActivKeeps ==
  ASSUME OwnInv, NEW m, ChanActiv(m), UNCHANGED <<hdlrVars, bscVars, testcase, ended>>
  PROVE  OwnInv'
<1> DEFINE c == m.lchan
           n == [t |-> "ACT_ACK", lchan |-> c, trx |-> TrxOf[c]]
<1>1. /\ Take("CHAN_ACTIV", m)
      /\ LastActTable' = [LastActTable EXCEPT ![c] = m.for]
      /\ iut' = Append(iut, n)
      /\ UNCHANGED <<outcome, ConnectionTable, trxMap, queueing, inbox>>
  BY DEF ChanActiv, Stored, ActAck, Running
<1>2. /\ ipa # <<>> /\ m = Head(queues[Ipa]) /\ ipa' = Tail(ipa)
      /\ m \in FromBsc /\ m \in All /\ Under(m) /\ Means(Ipa, m) /\ m.t = "CHAN_ACTIV"
      /\ UNCHANGED <<client, call>>
  BY <1>1, FromIpa
<1>3. c \in Lchans /\ m.for \in Hdlrs /\ TrxOf[c] \in Trxs
  BY <1>2, Fields, RSLAssumption
<1>4. bsc[c] \in Activating /\ m.for = user[c]
  BY <1>2 DEF Means, ActivationMeans, IsActivation
<1>5. n \in ToBsc /\ n \in All /\ n.t = "ACT_ACK" /\ n.lchan = c
  BY <1>3 DEF ToBsc, All
<1> HIDE DEF n
<1>6. Types /\ QueueTypes /\ HdlrsInv /\ LchansInv /\ TableInv /\ MessagesInv /\ SingleInv
  BY DEF OwnInv
<1>7. Passes(Ipa, Iut, n) /\ QueueTypes'
  BY <1>1, <1>2, <1>5, <1>6, FromIpaToIut DEF queueing
<1>8. UNCHANGED <<stage, g_chan_nr, other, bsc, user, hoCommand>>
  BY DEF hdlrVars, bscVars
<1>9. LastActTable \in [Lchans -> Hdlrs \cup {None}]
  BY <1>6 DEF Types
<1>10. Types'
  BY <1>1, <1>2, <1>3, <1>6, <1>8 DEF Types, trxMap, queueing
<1>11. HdlrsInv' /\ TableInv'
  BY <1>1, <1>2, <1>6, <1>8 DEF HdlrsInv, HdlrInv, TableInv, EntryInv, Gives, NoneFor, Late
<1>12. LchansInv'
  BY <1>1, <1>3, <1>4, <1>6, <1>8, <1>9 DEF LchansInv, LchanInv, Activating
<1>13. ASSUME NEW u, NEW x, x \in All, Means(u, x) PROVE Means(u, x)'
  <2>1. ActivationMeans(x)'
    <3>1. IsActivation(x) => x.lchan \in Lchans
      BY <1>13, Fields
    <3> QED  BY <1>1, <1>3, <1>4, <1>8, <1>9, <1>13, <3>1 DEF Means, ActivationMeans, IsActivation
  <2> QED
    BY <1>8, <1>13, <2>1 DEF Means, RequestMeans, ReleaseMeans, Commanded, Completing, Requesting,
         Gives, NoneFor, Late
<1>14. Means(Iut, n)'
  BY <1>1, <1>3, <1>4, <1>5, <1>8, <1>9 DEF Means, RequestMeans, ActivationMeans, ReleaseMeans,
       IsRequest, IsActivation, IsCommand, IsComplete, IsRelease, Iut
<1>15. Akin(m, n)
  BY <1>2, <1>5 DEF Akin, IsActivation
<1>16. SingleInv'
  BY <1>2, <1>5, <1>6, <1>7, <1>15, SinglePassing, PlacesAre
<1>17. \A u \in Places : \A x \in Elems(queues'[u]) : x \in Elems(queues[u]) \/ (u = Iut /\ x = n)
  BY <1>5, <1>6, <1>7, Passing, PlacesAre
<1>18. \A u \in Places : \A x \in Elems(queues[u]) : x \in All
  BY <1>6, UnderWay DEF Under
<1>19. MessagesInv'
  BY <1>6, <1>13, <1>14, <1>17, <1>18, MessagesKept
<1> QED  BY <1>7, <1>10, <1>11, <1>12, <1>16, <1>19 DEF OwnInv

\* No link is ever counted as connected, so none is found to be lost.
LEMMA RouteKeeps ==
  ASSUME OwnInv, NEW m, FromLink(m), UNCHANGED <<hdlrVars, bscVars, testcase>>
  PROVE  OwnInv'
<1>1. UNCHANGED <<stage, g_chan_nr, other, bsc, user, hoCommand, testcase>>
  BY DEF hdlrVars, bscVars
<1>2. \A k : Take(k, m) => m \in FromBsc /\ m.t = k
  BY FromIpa
<1>3. \A k : Take(k, m) => UNCHANGED ended
  BY DEF Take, Dispatcher
<1>4. LastActTable' = LastActTable /\ ended' = ended => Elsewhere
  BY <1>1 DEF Elsewhere, procedures
<1>5. CASE LinkEstablished(m) \/ LinkIdentified(m) \/ ChanRqd(m) \/ CommonChannel(m)
  <2>1. Take("UP", m) \/ Take("ID_RESP", m) \/ Take("CHAN_RQD", m) \/ Take("COMMON", m)
    BY <1>5 DEF LinkEstablished, LinkIdentified, ChanRqd, CommonChannel
  <2> QED  BY <1>2, <2>1, Fields
<1>6. CASE LinkLost(m)
  <2>1. Take("DOWN", m) /\ \E t \in Trxs : TrxConnMap[t] = m.conn
    BY <1>6 DEF LinkLost, TrxsOn
  <2>2. m.conn \in Conns
    BY <1>2, <2>1, Fields
  <2>3. \A t \in Trxs : TrxConnMap[t] = None
    BY DEF OwnInv, Types
  <2> QED  BY <2>1, <2>2, <2>3, RSLAssumption
<1>7. CASE ImmAss(m)
  <2>1. LastActTable' = LastActTable /\ Take("IMM_ASS", m)
    BY <1>7 DEF ImmAss
  <2> QED  BY <1>3, <1>4, <1>7, <2>1, ImmAssKeeps
<1>8. CASE ImmAssRej(m)
  <2>1. LastActTable' = LastActTable /\ Take("IMM_REJ", m)
    BY <1>8 DEF ImmAssRej
  <2> QED  BY <1>3, <1>4, <1>8, <2>1, ImmAssRejKeeps
<1>9. CASE ToHandler(m)
  <2>1. LastActTable' = LastActTable /\ Take("DR", m)
    BY <1>9 DEF ToHandler, tables
  <2> QED  BY <1>3, <1>4, <1>9, <2>1, ToHandlerKeeps
<1>10. CASE ToWaitingQueue(m)
  <2>1. LastActTable' = LastActTable /\ Take("DR", m)
    BY <1>10 DEF ToWaitingQueue, tables
  <2> QED  BY <1>3, <1>4, <1>10, <2>1, ToWaitingQueueKeeps
<1>11. CASE LinkFails(m)
  <2>1. LastActTable' = LastActTable /\ ended' = ended /\ Fail
    BY <1>11 DEF LinkFails, Fail, Dispatcher, tables
  <2> QED  BY <1>4, <2>1, FailKeeps
<1>12. CASE ChanActiv(m)
  <2>1. UNCHANGED ended
    BY <1>3, <1>12 DEF ChanActiv
  <2> QED  BY <1>12, <2>1, ChanActivKeeps
<1> QED
  BY <1>5, <1>6, <1>7, <1>8, <1>9, <1>10, <1>11, <1>12 DEF FromLink

-----------------------------------------------------------------------------
(* It takes a message of a handler. *)

LEMMA FromPort ==
  ASSUME OwnInv, NEW h \in Hdlrs, client[h] # <<>>
  PROVE  LET m == Head(client[h]) IN
         /\ queues[ClientOf(h)] = client[h]
         /\ m \in FromHdlrs /\ m \in All /\ Under(m) /\ Means(ClientOf(h), m)
<1>1. queues[ClientOf(h)] = client[h]
  BY QueuesAre DEF queues
<1>2. client[h] \in Seq(FromHdlrs)
  BY DEF OwnInv, QueueTypes
<1>3. Head(client[h]) \in FromHdlrs
  BY <1>2, TakenQueue
<1> QED  BY <1>1, <1>3, HeadMeans, PlacesAre

LEMMA ClientRqdKeeps ==
  ASSUME OwnInv, NEW h \in Hdlrs, ClientRqd(h), UNCHANGED <<hdlrVars, bscVars, testcase>>
  PROVE  OwnInv'
<1> DEFINE m == Head(client[h])
           e == [comp |-> h, lchan |-> None, ra |-> m.ra]
<1>1. /\ client[h] # <<>> /\ m.t = "RQD" /\ FreeSlots # {}
      /\ ConnectionTable' = [ConnectionTable EXCEPT ![First(FreeSlots)] = e]
      /\ iut' = Append(iut, m) /\ client' = [client EXCEPT ![h] = Tail(@)]
      /\ UNCHANGED <<outcome, ended, LastActTable, trxMap, queueing, ipa, call, inbox>>
  BY RSLBscAssumption DEF ClientRqd, FromHandler, Create, Running, Dispatcher
<1>2. /\ queues[ClientOf(h)] = client[h] /\ m \in FromHdlrs /\ m \in All
      /\ Means(ClientOf(h), m)
  BY <1>1, FromPort
<1> HIDE DEF m
<1>3. m \in Rqds /\ m.ra \in RequestRas /\ m \in ToBsc
  BY <1>1, <1>2, Fields DEF IsRequest, ToBsc
<1>4. /\ UNCHANGED procedures /\ UNCHANGED hoCommand /\ Elsewhere
      /\ UNCHANGED <<dchan_suspended, wait_queue_enabled, call, outcome, trxMap>>
      /\ QueueTypes /\ UNCHANGED <<ipa, WaitingQueue, inbox>>
  BY <1>1 DEF Elsewhere, OwnInv, queueing, procedures, hdlrVars, bscVars
<1>5. First(FreeSlots) \in 1 .. Slots
  BY <1>1, EntryOf
<1>6. m.ra = RaOf[h]
  <2>1. PICK g \in Hdlrs : RaOf[g] = m.ra
    BY <1>3 DEF RequestRas
  <2>2. g = h
    BY <1>1, <1>2, <2>1 DEF Means, RequestMeans, IsRequest, ClientOf
  <2> QED  BY <2>1, <2>2
<1>7. e \in Entries /\ Owned(e) /\ EntryInv(e)
  <2>1. e \in Entries
    BY <1>3, RSLBscAssumption DEF Entries, RequestRas
  <2>2. h # None /\ m.ra # None
    BY <1>3, RSLAssumption, RSLBscAssumption DEF RequestRas
  <2> QED  BY <1>6, <2>1, <2>2 DEF Owned, EntryInv
<1> HIDE DEF e
<1>8. ConnectionTable' \in [1 .. Slots -> {x \in Entries : Owned(x)}] /\ TableInv'
  BY <1>1, <1>4, <1>5, <1>7, EntryWritten
<1>9. Passes(ClientOf(h), Iut, m) /\ QueueTypes'
  BY <1>1, <1>3, <1>4, FromClientToIut
<1>10. Means(Iut, m)
  BY <1>2, MeansAtPort DEF Iut
<1>11. Types' /\ HdlrsInv' /\ LchansInv'
  BY <1>4, <1>8, TypesRest, RestSame
<1>12. Akin(Head(queues[ClientOf(h)]), m)
  BY <1>1, <1>2 DEF Akin, IsRequest, m
<1> QED
  BY <1>2, <1>4, <1>8, <1>9, <1>10, <1>11, <1>12, PassingKeeps, PlacesAre

LEMMA ClientMsgKeeps ==
  ASSUME OwnInv, NEW h \in Hdlrs, ClientMsg(h), UNCHANGED <<hdlrVars, bscVars, testcase>>
  PROVE  OwnInv'
<1> DEFINE m == Head(client[h])
           n == [t |-> m.t, lchan |-> m.lchan, trx |-> TrxOf[LchanOfComp(h)]]
<1>1. /\ client[h] # <<>> /\ m.t # "RQD" /\ CanSend(h)
      /\ iut' = Append(iut, n) /\ client' = [client EXCEPT ![h] = Tail(@)]
      /\ UNCHANGED <<outcome, ended, LastActTable, trxMap, queueing, ipa, call, inbox, ConnectionTable>>
  BY DEF ClientMsg, FromHandler, Running, Dispatcher
<1>2. /\ queues[ClientOf(h)] = client[h] /\ m \in FromHdlrs /\ m \in All
      /\ Means(ClientOf(h), m)
  BY <1>1, FromPort
<1> HIDE DEF m
<1>3. m.t \in {"EST", "ASS_CMPL", "REL_ACK"} /\ m.lchan \in Lchans
  BY <1>1, <1>2, Fields
<1>4. /\ UNCHANGED procedures /\ UNCHANGED hoCommand /\ Elsewhere
      /\ UNCHANGED <<dchan_suspended, wait_queue_enabled, call, outcome, trxMap, ConnectionTable>>
      /\ QueueTypes /\ UNCHANGED <<ipa, WaitingQueue, inbox>>
  BY <1>1 DEF Elsewhere, OwnInv, queueing, procedures, hdlrVars, bscVars
<1>5. LchanOfComp(h) \in Lchans
  BY <1>1, EntryOf
<1>6. n \in ToBsc /\ n \in All /\ n.t = m.t /\ n.lchan = m.lchan
  BY <1>3, <1>5, RSLAssumption DEF ToBsc, All
<1> HIDE DEF n
<1>7. ConnectionTable' \in [1 .. Slots -> {x \in Entries : Owned(x)}] /\ TableInv'
  BY <1>4, TableRest
<1>8. Passes(ClientOf(h), Iut, n) /\ QueueTypes'
  BY <1>1, <1>4, <1>6, FromClientToIut
<1>9. Means(Iut, n)
  BY <1>2, <1>3, <1>6 DEF Means, RequestMeans, ActivationMeans, ReleaseMeans, Completing,
     IsRequest, IsActivation, IsCommand, IsComplete, IsRelease, Iut
<1>10. Types' /\ HdlrsInv' /\ LchansInv'
  BY <1>4, <1>7, TypesRest, RestSame
<1>11. Akin(Head(queues[ClientOf(h)]), n) \/ \A x : ~Akin(x, n)
  BY <1>2, <1>3, <1>6 DEF Akin, IsRequest, IsActivation, IsCommand, IsComplete, IsRelease, m
<1> QED
  BY <1>4, <1>6, <1>7, <1>8, <1>9, <1>10, <1>11, PassingKeeps, PlacesAre

LEMMA ClientKeeps ==
  ASSUME OwnInv, NEW h \in Hdlrs, FromClient(h), UNCHANGED <<hdlrVars, bscVars, testcase>>
  PROVE  OwnInv'
<1>1. CASE ClientFails(h)
  <2>1. Fail /\ Elsewhere
    BY <1>1 DEF ClientFails, Fail, Dispatcher, tables, Elsewhere, procedures, hdlrVars, bscVars
  <2> QED  BY <2>1, FailKeeps
<1> QED  BY <1>1, ClientRqdKeeps, ClientMsgKeeps DEF FromClient

-----------------------------------------------------------------------------
(* It serves a call. *)

LEMMA Replied ==
  ASSUME OwnInv, NEW h \in Hdlrs, NEW op, Getcall(h, op), Reply(h), Running,
         UNCHANGED <<hdlrVars, bscVars, testcase>>
  PROVE  /\ Elsewhere /\ UNCHANGED procedures /\ UNCHANGED hoCommand
         /\ UNCHANGED <<trxMap, outcome, ipa, iut, client>>
         /\ call[h].op = op /\ call' \in [Hdlrs -> Calls \cup {Idle}]
         /\ outcome' \in {"running", "failed"}
         /\ \A g \in Hdlrs : call'[g].op \in {"last", "register"} => call'[g] = call[g]
<1>1. call \in [Hdlrs -> Calls \cup {Idle}] /\ outcome \in {"running", "failed"}
  BY DEF OwnInv, Types
<1>2. /\ call' = [call EXCEPT ![h] = Idle] /\ call[h].op = op
      /\ UNCHANGED <<client, ipa, iut, trxMap, LastActTable, outcome, ended>>
  BY DEF Getcall, Reply, Running, Dispatcher
<1>3. Idle.op \notin {"last", "register"}
  BY DEF Idle
<1>4. call' \in [Hdlrs -> Calls \cup {Idle}] /\ \A g \in Hdlrs : call'[g] = IF g = h THEN Idle ELSE call[g]
  BY <1>1, <1>2
<1>5. \A g \in Hdlrs : call'[g].op \in {"last", "register"} => call'[g] = call[g]
  BY <1>3, <1>4
<1>6. Elsewhere
  BY <1>2 DEF Elsewhere, procedures, hdlrVars, bscVars
<1> QED  BY <1>1, <1>2, <1>4, <1>5, <1>6 DEF Elsewhere

\* The table may be written; nothing is sent.
LEMMA ServedKeeps ==
  ASSUME OwnInv, NEW h \in Hdlrs, NEW op, Getcall(h, op), Reply(h), Running,
         UNCHANGED <<hdlrVars, bscVars, testcase>>,
         UNCHANGED <<WaitingQueue, inbox>>,
         dchan_suspended' \in BOOLEAN, wait_queue_enabled' \in BOOLEAN,
         ConnectionTable' \in [1 .. Slots -> {x \in Entries : Owned(x)}], TableInv'
  PROVE  OwnInv'
<1>1. /\ Elsewhere /\ UNCHANGED procedures /\ UNCHANGED hoCommand
      /\ UNCHANGED <<trxMap, ipa, iut, client>>
      /\ call' \in [Hdlrs -> Calls \cup {Idle}] /\ outcome' \in {"running", "failed"}
      /\ \A g \in Hdlrs : call'[g].op \in {"last", "register"} => call'[g] = call[g]
  BY Replied
<1>2. Types'
  BY <1>1, TypesStay
<1>3. HdlrsInv' /\ LchansInv'
  BY <1>1, RestSame
<1> QED  BY <1>1, <1>2, <1>3, QueuesKeep

LEMMA RegisterKeeps ==
  ASSUME OwnInv, NEW h \in Hdlrs, RSLEM_register(h), UNCHANGED <<hdlrVars, bscVars, testcase>>
  PROVE  OwnInv'
<1> DEFINE e == [comp |-> h, lchan |-> call[h].lchan, ra |-> None]
<1>0. CASE Fail
  <2>1. Elsewhere
    BY <1>0 DEF RSLEM_register, Getcall, Dispatcher, Fail, tables, Elsewhere, procedures, hdlrVars, bscVars
  <2> QED  BY <1>0, <2>1, FailKeeps
<1>1. CASE ~Fail
  <2>1. /\ Getcall(h, "register") /\ FreeSlots # {} /\ Reply(h) /\ Running
        /\ ConnectionTable' = [ConnectionTable EXCEPT ![First(FreeSlots)] = e]
        /\ UNCHANGED <<WaitingQueue, dchan_suspended, wait_queue_enabled, inbox>>
    BY <1>1 DEF RSLEM_register, Create, queueing
  <2>2. UNCHANGED procedures /\ call[h].op = "register"
    BY <2>1, Replied
  <2>3. HdlrInv(h) /\ dchan_suspended \in BOOLEAN /\ wait_queue_enabled \in BOOLEAN
    BY DEF OwnInv, HdlrsInv, Types
  <2>4. Gives(h, call[h].lchan, {"used"})
    BY <2>2, <2>3 DEF HdlrInv, HasChannel
  <2>5. e \in Entries
    BY <2>4 DEF Entries, Gives
  <2>6. Owned(e) /\ EntryInv(e)
    <3>1. h # None /\ None \notin Lchans
      BY RSLAssumption
    <3> QED  BY <2>4, <3>1 DEF Owned, EntryInv, Gives
  <2>7. First(FreeSlots) \in 1 .. Slots
    BY <2>1, EntryOf
  <2> HIDE DEF e
  <2>8. ConnectionTable' \in [1 .. Slots -> {x \in Entries : Owned(x)}] /\ TableInv'
    BY <2>1, <2>2, <2>5, <2>6, <2>7, EntryWritten
  <2> QED  BY <2>1, <2>3, <2>8, ServedKeeps
<1> QED  BY <1>0, <1>1

LEMMA UnregisterKeeps ==
  ASSUME OwnInv, NEW h \in Hdlrs, RSLEM_unregister(h), UNCHANGED <<hdlrVars, bscVars, testcase>>
  PROVE  OwnInv'
<1>0. CASE Fail
  <2>1. Elsewhere
    BY <1>0 DEF RSLEM_unregister, Getcall, Dispatcher, Fail, tables, Elsewhere, procedures, hdlrVars, bscVars
  <2> QED  BY <1>0, <2>1, FailKeeps
<1>1. CASE ~Fail
  <2> DEFINE i == First(SlotsOfLchan(call[h].lchan))
  <2>1. /\ Getcall(h, "unregister") /\ HasHandler(call[h].lchan) /\ Reply(h) /\ Running
        /\ ConnectionTable' = [ConnectionTable EXCEPT ![i] = Free]
        /\ UNCHANGED <<WaitingQueue, dchan_suspended, wait_queue_enabled, inbox>>
    BY <1>1 DEF RSLEM_unregister, Clear, queueing
  <2>2. UNCHANGED procedures
    BY <2>1, Replied
  <2>3. dchan_suspended \in BOOLEAN /\ wait_queue_enabled \in BOOLEAN
    BY DEF OwnInv, Types
  <2>4. i \in 1 .. Slots
    BY <2>1, SlotsIn DEF HasHandler, SlotsOfLchan
  <2> HIDE DEF i
  <2>5. ConnectionTable' \in [1 .. Slots -> {x \in Entries : Owned(x)}] /\ TableInv'
    BY <2>1, <2>2, <2>4, EntryWritten, FreeEntry
  <2> QED  BY <2>1, <2>3, <2>5, ServedKeeps
<1> QED  BY <1>0, <1>1

LEMMA FlagsKeep ==
  ASSUME OwnInv, NEW h \in Hdlrs, RSLEM_suspend(h) \/ WaitQueueEnable(h) \/ RSLEM_get_last_act(h),
         UNCHANGED <<hdlrVars, bscVars, testcase>>
  PROVE  OwnInv'
<1>0. dchan_suspended \in BOOLEAN /\ wait_queue_enabled \in BOOLEAN
  BY DEF OwnInv, Types
<1>1. CASE RSLEM_get_last_act(h) /\ Fail
  <2>1. Elsewhere
    BY <1>1 DEF RSLEM_get_last_act, Getcall, Dispatcher, Fail, tables, Elsewhere, procedures, hdlrVars, bscVars
  <2> QED  BY <1>1, <2>1, FailKeeps
<1>2. CASE ~(RSLEM_get_last_act(h) /\ Fail)
  <2>1. PICK op \in {"suspend", "resume", "enable", "last"} : Getcall(h, op)
    BY DEF RSLEM_suspend, WaitQueueEnable, RSLEM_get_last_act
  <2>2. /\ Reply(h) /\ Running /\ UNCHANGED <<ConnectionTable, WaitingQueue, inbox>>
        /\ dchan_suspended' \in BOOLEAN /\ wait_queue_enabled' \in BOOLEAN
    BY <1>0, <1>2 DEF RSLEM_suspend, WaitQueueEnable, RSLEM_get_last_act, queueing
  <2>3. UNCHANGED procedures
    BY <2>1, <2>2, Replied
  <2>4. ConnectionTable' \in [1 .. Slots -> {x \in Entries : Owned(x)}] /\ TableInv'
    BY <2>2, <2>3, TableRest
  <2> QED  BY <2>1, <2>2, <2>4, ServedKeeps
<1> QED  BY <1>1, <1>2

\* The k-th of some positions: there is one for each k, another for another k.
Below(S, i) == {j \in S : j <= i}

LEMMA Ranked ==
  ASSUME NEW n \in Nat, NEW S \in SUBSET (1 .. n), NEW k \in 1 .. Cardinality(S)
  PROVE  /\ Cardinality(S) \in Nat
         /\ \E i \in S : Cardinality(Below(S, i)) = k
<1> DEFINE N == Cardinality(S)
           f == [i \in S |-> Cardinality(Below(S, i))]
<1>1. IsFiniteSet(S) /\ N \in Nat
  <2>1. IsFiniteSet(1 .. n)
    BY FS_Interval
  <2>2. IsFiniteSet(S)
    BY <2>1, FS_Subset
  <2> QED  BY <2>2, FS_CardinalityType
<1>2. ASSUME NEW i \in S
      PROVE  /\ Below(S, i) \in SUBSET S /\ IsFiniteSet(Below(S, i))
             /\ Cardinality(Below(S, i)) \in 1 .. N
  <2>1. Below(S, i) \in SUBSET S
    BY DEF Below
  <2>2. IsFiniteSet(Below(S, i)) /\ Cardinality(Below(S, i)) <= N
    BY <1>1, <2>1, FS_Subset
  <2>3. Cardinality(Below(S, i)) \in Nat
    BY <2>2, FS_CardinalityType
  <2>4. i \in Below(S, i)
    BY DEF Below
  <2>5. Cardinality(Below(S, i)) # 0
    BY <2>2, <2>4, FS_EmptySet
  <2> QED  BY <1>1, <2>1, <2>2, <2>3, <2>5
<1>3. ASSUME NEW i \in S, NEW j \in S, f[i] = f[j] PROVE i = j
  <2>1. ASSUME NEW x \in S, NEW y \in S, x < y, Cardinality(Below(S, x)) = Cardinality(Below(S, y))
        PROVE  FALSE
    <3>1. Below(S, x) \in SUBSET Below(S, y) /\ y \in Below(S, y) /\ y \notin Below(S, x)
      <4>1. \A z \in S : z \in Nat /\ (z <= x => z <= y)
        BY <2>1
      <4>2. y \in S /\ y <= y /\ ~(y <= x)
        BY <2>1
      <4> QED  BY <4>1, <4>2 DEF Below
    <3>2. Below(S, x) = Below(S, y)
      BY <1>2, <2>1, <3>1, FS_Subset
    <3> QED  BY <3>1, <3>2
  <2>2. i < j \/ j < i \/ i = j
    OBVIOUS
  <2> QED  BY <1>3, <2>1, <2>2
<1>4. f \in [S -> 1 .. N]
  BY <1>2
<1>5. f \in Injection(S, 1 .. N)
  <2> HIDE DEF f
  <2> QED  BY <1>3, <1>4 DEF Injection, IsInjective
<1>6. IsFiniteSet(1 .. N) /\ Cardinality(1 .. N) = N
  BY <1>1, FS_Interval
<1>7. f \in Surjection(S, 1 .. N)
  <2> HIDE DEF f
  <2> QED  BY <1>1, <1>5, <1>6, FS_Injection
<1>8. \E i \in S : f[i] = k
  <2> HIDE DEF f
  <2> QED  BY <1>7 DEF Surjection
<1> QED  BY <1>1, <1>8

-----------------------------------------------------------------------------
(* It dispatches the wait queue. *)

Mine(g) == {i \in DOMAIN Stalled : HandlerOf(Stalled[i].lchan) = g}

\* What is for g is part of what is kept, and keeps its order.
LEMMA StalledForIs ==
  ASSUME QueueTypes, wait_queue_enabled \in BOOLEAN, NEW g
  PROVE  /\ Stalled \in Seq(Drs)
         /\ StalledFor(g) \in Seq(Drs)
         /\ \A k \in Indices(StalledFor(g)) :
              \E i \in Mine(g) : /\ i \in Indices(Stalled)
                                 /\ StalledFor(g)[k] = Stalled[i]
                                 /\ k = Cardinality(Below(Mine(g), i))
<1> DEFINE M == Mine(g)
           N == Cardinality(M)
           Nth(k) == CHOOSE i \in M : Cardinality(Below(M, i)) = k
           f == [k \in 1 .. N |-> Stalled[Nth(k)]]
<1>1. Stalled \in Seq(Drs)
  BY DEF QueueTypes, Stalled
<1>2. /\ Len(Stalled) \in Nat /\ DOMAIN Stalled = 1 .. Len(Stalled)
      /\ \A i \in 1 .. Len(Stalled) : Stalled[i] \in Drs
  BY <1>1
<1>3. M \in SUBSET (1 .. Len(Stalled))
  BY <1>2 DEF Mine
<1>4. StalledFor(g) = f
  BY DEF StalledFor, Mine, Below
<1> HIDE DEF M
<1>5. N \in Nat
  <2>1. IsFiniteSet(1 .. Len(Stalled))
    BY <1>2, FS_Interval
  <2>2. IsFiniteSet(M)
    BY <1>3, <2>1, FS_Subset
  <2> QED  BY <2>2, FS_CardinalityType
<1>6. ASSUME NEW k \in 1 .. N
      PROVE  Nth(k) \in M /\ Cardinality(Below(M, Nth(k))) = k
  <2>1. \E i \in M : Cardinality(Below(M, i)) = k
    BY <1>2, <1>3, Ranked
  <2> QED  BY <2>1
<1> HIDE DEF Nth, N
<1>7. \A k \in 1 .. N : f[k] \in Drs /\ f[k] = Stalled[Nth(k)]
  BY <1>2, <1>3, <1>6
<1>8. f \in Seq(Drs) /\ Len(f) = N
  BY <1>5, <1>7
<1> HIDE DEF f
<1>9. ASSUME NEW k \in Indices(f)
      PROVE  \E i \in M : i \in Indices(Stalled) /\ f[k] = Stalled[i] /\ k = Cardinality(Below(M, i))
  <2>1. k \in 1 .. N
    BY <1>8 DEF Indices
  <2>2. Nth(k) \in M /\ Nth(k) \in Indices(Stalled)
    BY <1>3, <1>6, <2>1 DEF Indices
  <2> QED  BY <1>6, <1>7, <2>1, <2>2
<1> QED  BY <1>1, <1>4, <1>8, <1>9 DEF M

LEMMA StalledForIn ==
  ASSUME QueueTypes, wait_queue_enabled \in BOOLEAN, NEW S
  PROVE  /\ \A g : In(StalledFor(g), S) =>
              \E i \in Indices(Stalled) : HandlerOf(Stalled[i].lchan) = g /\ Stalled[i] \in S
         /\ \A g : Once(Stalled, S) => Once(StalledFor(g), S)
         /\ \A g, h : Once(Stalled, S) /\ In(StalledFor(g), S) /\ In(StalledFor(h), S) => g = h
<1>1. ASSUME NEW g, In(StalledFor(g), S)
      PROVE  \E i \in Indices(Stalled) : HandlerOf(Stalled[i].lchan) = g /\ Stalled[i] \in S
  <2>1. PICK k \in Indices(StalledFor(g)) : StalledFor(g)[k] \in S
    BY <1>1 DEF In
  <2>2. PICK i \in Mine(g) : i \in Indices(Stalled) /\ StalledFor(g)[k] = Stalled[i]
    BY StalledForIs
  <2> QED  BY <2>1, <2>2 DEF Mine
<1>2. ASSUME NEW g, Once(Stalled, S) PROVE Once(StalledFor(g), S)
  <2> SUFFICES ASSUME NEW k \in Indices(StalledFor(g)), NEW l \in Indices(StalledFor(g)),
                      StalledFor(g)[k] \in S, StalledFor(g)[l] \in S
               PROVE  k = l
    BY DEF Once
  <2>1. PICK i \in Mine(g) : /\ i \in Indices(Stalled) /\ StalledFor(g)[k] = Stalled[i]
                             /\ k = Cardinality(Below(Mine(g), i))
    BY StalledForIs
  <2>2. PICK j \in Mine(g) : /\ j \in Indices(Stalled) /\ StalledFor(g)[l] = Stalled[j]
                             /\ l = Cardinality(Below(Mine(g), j))
    BY StalledForIs
  <2>3. i = j
    BY <1>2, <2>1, <2>2 DEF Once
  <2> QED  BY <2>1, <2>2, <2>3
<1>3. ASSUME NEW g, NEW h, Once(Stalled, S), In(StalledFor(g), S), In(StalledFor(h), S) PROVE g = h
  <2>1. PICK i \in Indices(Stalled) : HandlerOf(Stalled[i].lchan) = g /\ Stalled[i] \in S
    BY <1>1, <1>3
  <2>2. PICK j \in Indices(Stalled) : HandlerOf(Stalled[j].lchan) = h /\ Stalled[j] \in S
    BY <1>1, <1>3
  <2>3. i = j
    BY <1>3, <2>1, <2>2 DEF Once
  <2> QED  BY <2>1, <2>2, <2>3
<1> QED  BY <1>1, <1>2, <1>3

\* What is kept is what waits, or nothing.
LEMMA StalledWaits ==
  ASSUME QueueTypes
  PROVE  /\ \A i \in Indices(Stalled) : wait_queue_enabled /\ Stalled[i] \in Elems(WaitingQueue)
         /\ \A S : Once(WaitingQueue, S) => Once(Stalled, S)
<1>1. \A i \in Indices(<<>>) : FALSE
  BY DEF Indices
<1> QED  BY <1>1 DEF Stalled, Elems, Once

LEMMA DispatchKeeps ==
  ASSUME OwnInv, NEW h \in Hdlrs, WaitQueueDispatch(h), UNCHANGED <<hdlrVars, bscVars, testcase>>
  PROVE  OwnInv'
<1>0. CASE Fail
  <2>1. Elsewhere
    BY <1>0 DEF WaitQueueDispatch, Getcall, Dispatcher, Fail, tables, Elsewhere, procedures, hdlrVars, bscVars
  <2> QED  BY <1>0, <2>1, FailKeeps
<1>1. CASE ~Fail
  <2>1. /\ Getcall(h, "dispatch") /\ Reply(h) /\ Running
        /\ \A i \in DOMAIN Stalled : HasHandler(Stalled[i].lchan)
        /\ inbox' = [g \in Hdlrs |-> inbox[g] \o StalledFor(g)]
        /\ WaitingQueue' = IF wait_queue_enabled THEN <<>> ELSE WaitingQueue
        /\ wait_queue_enabled' = FALSE
        /\ UNCHANGED <<ConnectionTable, dchan_suspended>>
    BY <1>1 DEF WaitQueueDispatch, AfterDispatch
  <2>2. /\ Elsewhere /\ UNCHANGED procedures /\ UNCHANGED hoCommand
        /\ UNCHANGED <<trxMap, ipa, iut, client>>
        /\ call' \in [Hdlrs -> Calls \cup {Idle}] /\ outcome' \in {"running", "failed"}
        /\ \A g \in Hdlrs : call'[g].op \in {"last", "register"} => call'[g] = call[g]
    BY <2>1, Replied
  <2>3. /\ QueueTypes /\ SingleInv /\ MessagesInv
        /\ dchan_suspended \in BOOLEAN /\ wait_queue_enabled \in BOOLEAN
    BY DEF OwnInv, Types
  <2>4. ConnectionTable' \in [1 .. Slots -> {x \in Entries : Owned(x)}] /\ TableInv'
    BY <2>1, <2>2, TableRest
  <2>5. Types'
    BY <2>1, <2>2, <2>3, <2>4, TypesStay
  <2>6. HdlrsInv' /\ LchansInv'
    BY <2>2, RestSame
  <2>7. ASSUME NEW g \in Hdlrs
        PROVE  /\ inbox[g] \in Seq(Drs \cup Answers) /\ StalledFor(g) \in Seq(Drs \cup Answers)
               /\ inbox'[g] = inbox[g] \o StalledFor(g)
               /\ inbox'[g] \in Seq(Drs \cup Answers)
               /\ \A S : In(inbox'[g], S) <=> (In(inbox[g], S) \/ In(StalledFor(g), S))
               /\ \A S : Once(inbox[g], S) /\ Once(StalledFor(g), S)
                           /\ ~(In(inbox[g], S) /\ In(StalledFor(g), S)) => Once(inbox'[g], S)
    <3>1. inbox[g] \in Seq(Drs \cup Answers)
      BY <2>3 DEF QueueTypes
    <3>2. StalledFor(g) \in Seq(Drs)
      BY <2>3, StalledForIs
    <3>3. StalledFor(g) \in Seq(Drs \cup Answers)
      BY <3>2, SeqOfMore
    <3>4. inbox'[g] = inbox[g] \o StalledFor(g)
      BY <2>1
    <3> QED  BY <3>1, <3>3, <3>4, Concatenated
  <2>8. QueueTypes'
    <3>1. inbox' = [g \in Hdlrs |-> inbox'[g]]
      BY <2>1
    <3>2. inbox' \in [Hdlrs -> Seq(Drs \cup Answers)]
      BY <2>7, <3>1
    <3> QED  BY <2>1, <2>2, <2>3, <3>2 DEF QueueTypes
  <2>9. /\ queues'[Ipa] = queues[Ipa] /\ queues'[Iut] = queues[Iut]
        /\ queues'[Waiting] = IF wait_queue_enabled THEN <<>> ELSE queues[Waiting]
        /\ \A g \in Hdlrs : queues'[ClientOf(g)] = queues[ClientOf(g)]
        /\ \A g \in Hdlrs : queues'[InboxOf(g)] = inbox'[g] /\ queues[InboxOf(g)] = inbox[g]
        /\ queues[Waiting] = WaitingQueue
        /\ DOMAIN queues = Places /\ DOMAIN queues' = Places
    <3>1. /\ queues = QueuesOf(ipa, WaitingQueue, iut, inbox, client)
          /\ queues' = QueuesOf(ipa, WaitingQueue', iut, inbox', client)
      BY <2>2 DEF queues
    <3>2. DOMAIN queues = Places /\ DOMAIN queues' = Places
      BY <3>1, Rebuilt
    <3>3. /\ queues[Ipa] = ipa /\ queues[Waiting] = WaitingQueue /\ queues[Iut] = iut
          /\ \A g \in Hdlrs : queues[InboxOf(g)] = inbox[g] /\ queues[ClientOf(g)] = client[g]
      BY <3>1, QueuesAre
    <3>4. /\ queues'[Ipa] = ipa /\ queues'[Waiting] = WaitingQueue' /\ queues'[Iut] = iut
          /\ \A g \in Hdlrs : queues'[InboxOf(g)] = inbox'[g] /\ queues'[ClientOf(g)] = client[g]
      BY <3>1, QueuesAre
    <3> QED  BY <2>1, <3>2, <3>3, <3>4
  <2>10. \A S : ~In(<<>>, S) /\ Once(<<>>, S)
    BY DEF In, Once, Indices
  \* A place has what it had, or is a port that gets some of what was kept.
  <2>11. ASSUME NEW p \in Places, NEW S, In(queues'[p], S)
         PROVE  \/ In(queues[p], S) /\ (p = Waiting => ~wait_queue_enabled)
                \/ \E g \in Hdlrs : p = InboxOf(g) /\ In(StalledFor(g), S)
    BY <2>7, <2>9, <2>10, <2>11, PlacesAre
  <2>12. ASSUME NEW S, NEW g \in Hdlrs, In(StalledFor(g), S)
         PROVE  wait_queue_enabled /\ In(queues[Waiting], S)
    <3>1. PICK i \in Indices(Stalled) : HandlerOf(Stalled[i].lchan) = g /\ Stalled[i] \in S
      BY <2>3, <2>12, StalledForIn
    <3>2. wait_queue_enabled /\ Stalled[i] \in Elems(WaitingQueue)
      BY <2>3, <3>1, StalledWaits
    <3> QED  BY <2>9, <3>1, <3>2 DEF In, Elems
  <2>13. SingleInv'
    <3> SUFFICES ASSUME NEW S \in Procedures PROVE Single(queues', S)
      BY DEF SingleInv
    <3>1. Single(queues, S)
      BY <2>3 DEF SingleInv
    <3>2. Once(Stalled, S)
      BY <2>3, <2>9, <3>1, StalledWaits, PlacesAre DEF Single
    <3>3. ASSUME NEW p \in Places PROVE Once(queues'[p], S)
      <4>1. Once(queues[p], S)
        BY <2>9, <3>1 DEF Single
      <4>2. ASSUME NEW g \in Hdlrs, p = InboxOf(g) PROVE Once(queues'[p], S)
        <5>1. Once(inbox[g], S) /\ queues'[p] = inbox'[g]
          BY <2>9, <4>1, <4>2
        <5>2. Once(StalledFor(g), S)
          BY <2>3, <3>2, StalledForIn
        <5>3. ~(In(inbox[g], S) /\ In(StalledFor(g), S))
          BY <2>9, <2>12, <3>1, <4>2, PlacesAre, PlacesApart DEF Single
        <5> QED  BY <2>7, <5>1, <5>2, <5>3
      <4> QED  BY <2>9, <2>10, <4>1, <4>2, PlacesAre
    <3>4. ASSUME NEW p \in Places, NEW r \in Places, In(queues'[p], S), In(queues'[r], S) PROVE p = r
      <4>1. \A u, v \in Places : In(queues[u], S) /\ In(queues[v], S) => u = v
        BY <2>9, <3>1 DEF Single
      <4>2. \/ In(queues[p], S) /\ (p = Waiting => ~wait_queue_enabled)
            \/ \E g \in Hdlrs : p = InboxOf(g) /\ In(StalledFor(g), S)
        BY <2>11, <3>4
      <4>3. \/ In(queues[r], S) /\ (r = Waiting => ~wait_queue_enabled)
            \/ \E g \in Hdlrs : r = InboxOf(g) /\ In(StalledFor(g), S)
        BY <2>11, <3>4
      <4>4. \A f, g \in Hdlrs : In(StalledFor(f), S) /\ In(StalledFor(g), S) => f = g
        BY <2>3, <3>2, StalledForIn
      <4> QED  BY <2>12, <4>1, <4>2, <4>3, <4>4, PlacesAre
    <3> QED  BY <2>9, <3>3, <3>4 DEF Single
  <2>14. MessagesInv'
    <3> SUFFICES ASSUME NEW p \in Places, NEW x \in Elems(queues'[p]) PROVE Means(p, x)'
      BY DEF MessagesInv
    <3>1. In(queues'[p], {x})
      BY DEF In, Elems
    <3>2. CASE In(queues[p], {x})
      <4>1. Means(p, x)
        BY <2>3, <3>2 DEF MessagesInv, In, Elems
      <4> QED  BY <2>2, <4>1, MeansSame
    <3>3. ASSUME NEW g \in Hdlrs, p = InboxOf(g), In(StalledFor(g), {x}) PROVE Means(p, x)'
      <4>1. PICK i \in Indices(Stalled) : HandlerOf(Stalled[i].lchan) = g /\ Stalled[i] \in {x}
        BY <2>3, <3>3, StalledForIn
      <4>2. Stalled[i] = x /\ Stalled \in Seq(Drs)
        BY <2>3, <4>1, StalledForIs
      <4>3. x \in Drs /\ x \in Elems(WaitingQueue) /\ HasHandler(x.lchan) /\ HandlerOf(x.lchan) = g
        BY <2>1, <2>3, <4>1, <4>2, StalledWaits DEF Indices
      <4>4. x.lchan \in Lchans /\ x.t = "DR"
        BY <4>3 DEF Drs
      <4>5. Late(g) \/ Gives(g, x.lchan, {"used", "rel"})
        BY <4>3, <4>4, EntryOf
      <4>6. Means(Waiting, x)
        BY <2>3, <2>9, <4>3, PlacesAre DEF MessagesInv
      <4>7. Means(p, x)
        BY <3>3, <4>4, <4>5, <4>6 DEF Means, RequestMeans, InboxOf, IsRequest, Gives
      <4> QED  BY <2>2, <4>7, MeansSame
    <3> QED  BY <2>11, <3>1, <3>2, <3>3
  <2> QED  BY <2>4, <2>5, <2>6, <2>8, <2>13, <2>14 DEF OwnInv
<1> QED  BY <1>0, <1>1

LEMMA ServeKeeps ==
  ASSUME OwnInv, NEW h \in Hdlrs, Serve(h), UNCHANGED <<hdlrVars, bscVars, testcase>>
  PROVE  OwnInv'
  BY RegisterKeeps, UnregisterKeeps, FlagsKeep, DispatchKeeps DEF Serve

-----------------------------------------------------------------------------
(* The BSC reacts. *)

LEMMA Received ==
  ASSUME OwnInv, NEW m, NEW k, Receive(k, m)
  PROVE  /\ iut # <<>> /\ m = Head(queues[Iut]) /\ iut' = Tail(iut) /\ queues[Iut] # <<>>
         /\ m \in All /\ Under(m) /\ Means(Iut, m) /\ m.t = k
         /\ QueueTypes
         /\ UNCHANGED <<ConnectionTable, LastActTable, trxMap, WaitingQueue, dchan_suspended,
                        wait_queue_enabled, client, call, inbox, ended, outcome>>
         /\ UNCHANGED <<stage, g_chan_nr, other>>
<1>1. /\ iut # <<>> /\ m = Head(iut) /\ iut' = Tail(iut) /\ m.t = k
      /\ UNCHANGED <<ConnectionTable, LastActTable, trxMap, WaitingQueue, dchan_suspended,
                     wait_queue_enabled, client, call, inbox, ended, outcome>>
      /\ UNCHANGED <<stage, g_chan_nr, other>>
  BY DEF Receive, tables, queueing, hdlrVars
<1>2. queues[Iut] = iut
  BY QueuesAre DEF queues
<1>3. QueueTypes
  BY DEF OwnInv
<1> QED  BY <1>1, <1>2, <1>3, HeadMeans, PlacesAre

LEMMA RejectsKeeps ==
  ASSUME OwnInv, NEW m, BscRejects(m), UNCHANGED testcase
  PROVE  OwnInv'
<1> DEFINE n == [t |-> "IMM_REJ", ra |-> m.ra]
<1>1. Receive("RQD", m) /\ ipa' = Append(ipa, n) /\ UNCHANGED bscVars
  BY DEF BscRejects
<1>2. /\ iut # <<>> /\ m = Head(queues[Iut]) /\ iut' = Tail(iut)
      /\ m \in All /\ Means(Iut, m) /\ m.t = "RQD" /\ QueueTypes
      /\ UNCHANGED <<ConnectionTable, LastActTable, trxMap, WaitingQueue, dchan_suspended,
                     wait_queue_enabled, client, call, inbox, ended, outcome>>
      /\ UNCHANGED <<stage, g_chan_nr, other>>
  BY <1>1, Received
<1>3. m.ra \in RequestRas
  BY <1>2, Fields DEF IsRequest
<1>4. n \in FromBsc /\ n \in All /\ n.t = "IMM_REJ" /\ n.ra = m.ra
  BY <1>3 DEF FromBsc, Answers, All
<1> HIDE DEF n
<1>5. Elsewhere /\ UNCHANGED procedures /\ UNCHANGED hoCommand
  BY <1>1, <1>2 DEF Elsewhere, procedures, bscVars
<1>6. Passes(Iut, Ipa, n) /\ QueueTypes'
  BY <1>1, <1>2, <1>4, FromIutToIpa
<1>7. ConnectionTable' \in [1 .. Slots -> {x \in Entries : Owned(x)}] /\ TableInv'
  BY <1>2, <1>5, TableRest
<1>8. Types' /\ HdlrsInv' /\ LchansInv'
  BY <1>2, <1>5, <1>7, TypesRest, RestSame
<1>9. Means(Ipa, n)
  BY <1>2, <1>4 DEF Means, RequestMeans, ActivationMeans, ReleaseMeans,
     IsRequest, IsActivation, IsCommand, IsComplete, IsRelease, Ipa
<1>10. Akin(m, n)
  BY <1>2, <1>4 DEF Akin, IsRequest
<1> QED
  BY <1>2, <1>4, <1>5, <1>6, <1>7, <1>8, <1>9, <1>10, PassingKeeps, PlacesAre

LEMMA EstablishedKeeps ==
  ASSUME OwnInv, NEW m, BscEstablished(m), UNCHANGED testcase
  PROVE  OwnInv'
<1>1. Receive("EST", m) /\ UNCHANGED <<ipa, bscVars>>
  BY DEF BscEstablished
<1>2. /\ iut # <<>> /\ iut' = Tail(iut) /\ QueueTypes
      /\ UNCHANGED <<ConnectionTable, LastActTable, trxMap, WaitingQueue, dchan_suspended,
                     wait_queue_enabled, client, call, inbox, ended, outcome>>
      /\ UNCHANGED <<stage, g_chan_nr, other>>
  BY <1>1, Received
<1>3. Elsewhere /\ UNCHANGED procedures /\ UNCHANGED hoCommand
  BY <1>1, <1>2 DEF Elsewhere, procedures, bscVars
<1>4. Leaves(Iut) /\ QueueTypes'
  BY <1>1, <1>2, OutOfIut
<1>5. ConnectionTable' \in [1 .. Slots -> {x \in Entries : Owned(x)}] /\ TableInv'
  BY <1>2, <1>3, TableRest
<1>6. Types' /\ HdlrsInv' /\ LchansInv'
  BY <1>2, <1>3, <1>5, TypesRest, RestSame
<1> QED  BY <1>3, <1>4, <1>5, <1>6, LeavingKeeps, PlacesAre

\* A message of no procedure arrives from a link.
LEMMA PlainKeeps ==
  ASSUME OwnInv, NEW n \in FromBsc, n.t = "DOWN" \/ (n.t = "DR" /\ n.what \in {"data", "crcx"}),
         ipa' = Append(ipa, n), Elsewhere,
         UNCHANGED <<ConnectionTable, WaitingQueue, inbox, client, iut>>,
         UNCHANGED <<trxMap, dchan_suspended, wait_queue_enabled, call, outcome>>
  PROVE  OwnInv'
<1>1. UNCHANGED procedures /\ UNCHANGED hoCommand /\ QueueTypes
  BY DEF Elsewhere, OwnInv
<1>2. Arrives(Ipa, n) /\ QueueTypes'
  BY <1>1, IntoIpa
<1>3. ConnectionTable' \in [1 .. Slots -> {x \in Entries : Owned(x)}] /\ TableInv'
  BY <1>1, TableRest
<1>4. Types' /\ HdlrsInv' /\ LchansInv'
  BY <1>1, <1>3, TypesRest, RestSame
<1>5. ~IsRequest(n) /\ ~IsActivation(n) /\ ~IsCommand(n) /\ ~IsComplete(n) /\ ~IsRelease(n)
  BY DEF IsRequest, IsActivation, IsCommand, IsComplete, IsRelease
<1>6. Means(Ipa, n) /\ \A x : ~Akin(x, n)
  BY <1>5, Plain
<1>7. n \in All
  BY DEF All
<1> QED  BY <1>1, <1>2, <1>3, <1>4, <1>6, <1>7, ArrivalKeeps, PlacesAre

LEMMA DataTyped ==
  /\ \A c \in Lchans, w \in {"data", "crcx", "rel", "assign"} :
       LET n == Dr(c, w) IN
       n \in Drs /\ n \in FromBsc /\ n \in All /\ n.t = "DR" /\ n.what = w /\ n.lchan = c
  /\ \A k \in Conns : [t |-> "DOWN", conn |-> k] \in FromBsc
  BY DEF Dr, Drs, FromBsc, All

LEMMA SendsKeeps ==
  ASSUME OwnInv, NEW c \in Lchans, BscSends(c), UNCHANGED testcase
  PROVE  OwnInv'
<1> DEFINE n == Dr(c, "data")
<1>1. /\ ipa' = Append(ipa, n) /\ Elsewhere
      /\ UNCHANGED <<ConnectionTable, WaitingQueue, inbox, client, iut>>
      /\ UNCHANGED <<trxMap, dchan_suspended, wait_queue_enabled, call, outcome>>
  BY DEF BscSends, Elsewhere, procedures, tables, queueing, hdlrVars, bscVars
<1>2. n \in FromBsc /\ n.t = "DR" /\ n.what \in {"data", "crcx"}
  BY DataTyped
<1> HIDE DEF n
<1> QED  BY <1>1, <1>2, PlainKeeps

LEMMA ClosesKeeps ==
  ASSUME OwnInv, NEW k \in Conns, LinkCloses(k), UNCHANGED testcase
  PROVE  OwnInv'
<1> DEFINE n == [t |-> "DOWN", conn |-> k]
<1>1. /\ ipa' = Append(ipa, n) /\ Elsewhere
      /\ UNCHANGED <<ConnectionTable, WaitingQueue, inbox, client, iut>>
      /\ UNCHANGED <<trxMap, dchan_suspended, wait_queue_enabled, call, outcome>>
  BY DEF LinkCloses, Elsewhere, procedures, tables, queueing, hdlrVars, bscVars
<1>2. n \in FromBsc /\ n.t = "DOWN"
  BY DataTyped
<1> HIDE DEF n
<1> QED  BY <1>1, <1>2, PlainKeeps

-----------------------------------------------------------------------------
(* The BSC gives a free channel to a handler. *)

Purpose(s) == CASE s = "requested" -> "imm" [] s = "assigning" -> "ass" [] s = "handover" -> "ho"

LEMMA FreeChannel ==
  ASSUME OwnInv, NEW c \in Available
  PROVE  c \in Lchans /\ bsc[c] = "free"
<1>1. testcase.lchans \in SUBSET Lchans
  BY RSLBscAssumption DEF OwnInv, Types
<1> QED  BY <1>1 DEF Available

\* h is where the activation finds it; before, it was there or at the step before.
Given(h, c, s, n) ==
    /\ bsc[c] = "free" /\ NoneFor(h)
    /\ \/ s = "requested" /\ stage[h] = "requested"
       \/ s = "assigning" /\ stage[h] = "queueing" /\ call[h] = Idle
       \/ s = "handover" /\ stage[h] = "suspending" /\ call[h] = Idle
    /\ stage' = [stage EXCEPT ![h] = s]
    /\ bsc' = [bsc EXCEPT ![c] = Purpose(s)] /\ user' = [user EXCEPT ![c] = h]
    /\ UNCHANGED <<ConnectionTable, LastActTable, trxMap, dchan_suspended, wait_queue_enabled,
                   call, ended, outcome, testcase, g_chan_nr, other, hoCommand>>
    /\ n = [t |-> "CHAN_ACTIV", lchan |-> c, for |-> h]
    /\ \A u \in Places : \A x \in Elems(queues'[u]) : x \in Elems(queues[u]) \/ (u = Ipa /\ x = n)
    /\ \A x : Under(x)' /\ IsRequest(x) => x.ra # RaOf[h]

LEMMA GivenKeeps ==
  ASSUME OwnInv, NEW h \in Hdlrs, NEW c \in Lchans, NEW s \in {"requested", "assigning", "handover"},
         NEW n, Given(h, c, s, n)
  PROVE  Types' /\ HdlrsInv' /\ LchansInv' /\ TableInv' /\ MessagesInv'
<1> SUFFICES ASSUME bsc[c] = "free", NoneFor(h),
               \/ s = "requested" /\ stage[h] = "requested"
               \/ s = "assigning" /\ stage[h] = "queueing" /\ call[h] = Idle
               \/ s = "handover" /\ stage[h] = "suspending" /\ call[h] = Idle,
               stage' = [stage EXCEPT ![h] = s],
               bsc' = [bsc EXCEPT ![c] = Purpose(s)], user' = [user EXCEPT ![c] = h],
               UNCHANGED <<ConnectionTable, LastActTable, trxMap, dchan_suspended, wait_queue_enabled>>,
               UNCHANGED <<call, ended, outcome, testcase, g_chan_nr, other, hoCommand>>,
               n = [t |-> "CHAN_ACTIV", lchan |-> c, for |-> h],
               \A u \in Places : \A x \in Elems(queues'[u]) : x \in Elems(queues[u]) \/ (u = Ipa /\ x = n),
               \A x : Under(x)' /\ IsRequest(x) => x.ra # RaOf[h]
             PROVE  Types' /\ HdlrsInv' /\ LchansInv' /\ TableInv' /\ MessagesInv'
  BY DEF Given
<1>1. /\ Types /\ HdlrsInv /\ LchansInv /\ TableInv /\ MessagesInv
      /\ stage \in [Hdlrs -> Stages]
      /\ bsc \in [Lchans -> {"free", "imm", "ass", "ho", "used", "rel"}]
      /\ user \in [Lchans -> Hdlrs \cup {None}]
  BY DEF OwnInv, Types
<1>2. Purpose(s) \in Activating /\ s \in Stages
  BY DEF Purpose, Activating, Stages
<1>3. /\ \A g \in Hdlrs : stage'[g] = IF g = h THEN s ELSE stage[g]
      /\ \A d \in Lchans : bsc'[d] = IF d = c THEN Purpose(s) ELSE bsc[d]
      /\ \A d \in Lchans : user'[d] = IF d = c THEN h ELSE user[d]
  BY <1>1
<1>4. Types'
  BY <1>1, <1>2 DEF Types, trxMap, Activating
<1>5. /\ \A g, d : Gives(g, d, {"used"}) => Gives(g, d, {"used"})'
      /\ \A g, d : Gives(g, d, {"rel"}) => Gives(g, d, {"rel"})'
      /\ \A g, d : Gives(g, d, {"used", "rel"}) => Gives(g, d, {"used", "rel"})'
  BY <1>3 DEF Gives
<1>6. \A g \in Hdlrs : g # h /\ NoneFor(g) => NoneFor(g)'
  BY <1>3 DEF NoneFor, Gives
<1>7. \A g \in Hdlrs : Late(g) => g # h /\ Late(g)'
  BY <1>3 DEF Late
<1>8. HdlrsInv'
  <2> SUFFICES ASSUME NEW g \in Hdlrs PROVE HdlrInv(g)'
    BY DEF HdlrsInv
  <2>1. HdlrInv(g)
    BY <1>1 DEF HdlrsInv
  <2>2. CASE g # h
    BY <1>3, <1>5, <1>6, <2>1, <2>2 DEF HdlrInv
  <2>3. CASE g = h
    <3>1. stage'[h] = s /\ hoCommand' = hoCommand /\ call' = call /\ g_chan_nr' = g_chan_nr /\ other' = other
      BY <1>3
    <3>2. CASE s = "requested"
      BY <1>5, <2>1, <2>3, <3>1, <3>2 DEF HdlrInv, HasChannel
    <3>3. CASE s # "requested"
      <4>1. call'[h].op \notin {"last", "register"}
        BY <3>1, <3>3 DEF Idle
      <4>2. s = "assigning" => Gives(h, g_chan_nr[h], {"used"})'
        BY <1>5, <2>1, <2>3, <3>1, <3>3 DEF HdlrInv, HasChannel
      <4>3. s = "handover" => hoCommand'[h] = None
        BY <2>1, <2>3, <3>1, <3>3 DEF HdlrInv
      <4> QED  BY <2>3, <3>1, <3>3, <4>1, <4>2, <4>3 DEF HdlrInv, HasChannel
    <3> QED  BY <3>2, <3>3
  <2> QED  BY <2>2, <2>3
<1>9. LchansInv'
  <2> SUFFICES ASSUME NEW d \in Lchans PROVE LchanInv(d)'
    BY DEF LchansInv
  <2>0. NoneFor(h) /\ \A x \in Lchans : LchanInv(x)
    BY <1>1 DEF LchansInv
  <2>1. CASE d = c
    <3>1. bsc'[d] = Purpose(s) /\ user'[d] = h /\ stage'[h] = s
      BY <1>3, <2>1
    <3>2. \A x \in Lchans : bsc'[x] \in Activating /\ user'[x] = h => x = c
      BY <1>3, <2>0 DEF NoneFor, Gives
    <3> QED  BY <2>1, <3>1, <3>2 DEF LchanInv, Purpose
  <2>2. CASE d # c
    <3>1. bsc'[d] = bsc[d] /\ user'[d] = user[d] /\ LastActTable'[d] = LastActTable[d]
      BY <1>3, <2>2
    <3>2. bsc[d] \in Activating => user[d] # h /\ user[d] \in Hdlrs
      BY <1>1, <2>0 DEF NoneFor, Gives, Activating, LchanInv
    <3>3. \A x \in Lchans : bsc'[x] \in Activating /\ bsc[d] \in Activating /\ user'[x] = user[d]
             => x # c /\ bsc[x] \in Activating /\ user[x] = user[d]
      BY <1>3, <3>2
    <3> QED  BY <1>3, <2>0, <3>1, <3>2, <3>3 DEF LchanInv, Activating
  <2> QED  BY <2>1, <2>2
<1>10. TableInv'
  <2> SUFFICES ASSUME NEW i \in 1 .. Slots PROVE EntryInv(ConnectionTable[i])'
    BY DEF TableInv
  <2>1. /\ EntryInv(ConnectionTable[i]) /\ ConnectionTable' = ConnectionTable
        /\ ConnectionTable[i].comp \in Hdlrs \cup {None} /\ ConnectionTable[i].lchan \in Lchans \cup {None}
        /\ ConnectionTable[i].lchan # None => ConnectionTable[i].comp \in Hdlrs
    BY <1>1 DEF TableInv, Types, Entries, Owned
  <2> QED  BY <1>5, <1>7, <2>1 DEF EntryInv
<1>11. MessagesInv'
  <2>1. ASSUME NEW u \in Places, NEW x \in Elems(queues[u]), Means(u, x), Under(x)' PROVE Means(u, x)'
    <3>0. x \in All
      BY <2>1, UnderWay DEF OwnInv, Under
    <3>1. RequestMeans(u, x)'
      <4> SUFFICES ASSUME IsRequest(x), NEW g \in Hdlrs, RaOf[g] = x.ra
                   PROVE  /\ Requesting(g)'
                          /\ x.t = "IMM_ASS" => Gives(g, x.lchan, {"used"})'
                          /\ u[1] \in {"inbox", "client"} => u[2] = g
        BY DEF RequestMeans, IsRequest
      <4>1. g # h
        BY <2>1
      <4>2. /\ Requesting(g) /\ (x.t = "IMM_ASS" => Gives(g, x.lchan, {"used"}))
            /\ u[1] \in {"inbox", "client"} => u[2] = g
        BY <2>1 DEF Means, RequestMeans
      <4> QED  BY <1>3, <1>5, <1>6, <4>1, <4>2 DEF Requesting
    <3>2. ActivationMeans(x)' /\ ReleaseMeans(x)'
      <4>1. /\ IsActivation(x) => x.lchan \in Lchans /\ x.lchan # c
            /\ IsRelease(x) => x.lchan \in Lchans /\ x.lchan # c
        BY <2>1, <3>0, Fields DEF Means, ActivationMeans, ReleaseMeans, Activating
      <4>2. x.t = "REL_ACK" => user[x.lchan] \in Hdlrs
        BY <1>1, <2>1, <4>1 DEF Means, ReleaseMeans, IsRelease, LchansInv, LchanInv
      <4>3. ActivationMeans(x)'
        BY <1>3, <2>1, <4>1 DEF Means, ActivationMeans, IsActivation
      <4>4. ReleaseMeans(x)'
        BY <1>3, <1>7, <2>1, <4>1, <4>2 DEF Means, ReleaseMeans, IsRelease
      <4> QED  BY <4>3, <4>4
    <3>3. IsCommand(x) => \E g \in Hdlrs : Commanded(g, x)'
      <4> SUFFICES ASSUME IsCommand(x) PROVE \E g \in Hdlrs : Commanded(g, x)'
        OBVIOUS
      <4>1. PICK g \in Hdlrs : Commanded(g, x)
        BY <2>1 DEF Means
      <4>2. g # h
        BY <4>1 DEF Commanded
      <4> QED  BY <1>3, <1>5, <1>6, <4>1, <4>2 DEF Commanded
    <3>4. IsComplete(x) => \E g \in Hdlrs : Completing(g, x)'
      <4> SUFFICES ASSUME IsComplete(x) PROVE \E g \in Hdlrs : Completing(g, x)'
        OBVIOUS
      <4>1. PICK g \in Hdlrs : Completing(g, x)
        BY <2>1 DEF Means
      <4>2. g # h
        BY <4>1 DEF Completing
      <4> QED  BY <1>3, <1>5, <4>1, <4>2 DEF Completing
    <3>5. ASSUME IsCommand(x) \/ IsRelease(x), u[1] = "inbox"
          PROVE  user'[x.lchan] = u[2] \/ Late(u[2])'
      <4>1. x.lchan \in Lchans /\ x.lchan # c
        BY <2>1, <3>0, <3>5, Fields DEF Means, ReleaseMeans, Commanded, Gives
      <4>2. u[2] \in Hdlrs
        BY <3>5, PlacesAre DEF Places
      <4> QED  BY <1>3, <1>7, <2>1, <3>5, <4>1, <4>2 DEF Means
    <3> QED  BY <3>1, <3>2, <3>3, <3>4, <3>5 DEF Means
  <2>2. Means(Ipa, n)'
    <3>1. n.t = "CHAN_ACTIV" /\ n.lchan = c /\ n.for = h
      OBVIOUS
    <3>2. bsc'[c] \in Activating /\ user'[c] = h
      BY <1>2, <1>3
    <3> QED  BY <3>1, <3>2 DEF Means, RequestMeans, ActivationMeans, ReleaseMeans, IsRequest, IsActivation,
                IsCommand, IsComplete, IsRelease
  <2> QED  BY <1>1, <2>1, <2>2, MessagesKept
<1> QED  BY <1>4, <1>8, <1>9, <1>10, <1>11

LEMMA NoneGiven ==
  ASSUME OwnInv, NEW h \in Hdlrs, stage[h] \notin {"requested", "assigning", "handover"}
  PROVE  NoneFor(h)
<1> SUFFICES ASSUME NEW c \in Lchans, Gives(h, c, Activating) PROVE FALSE
  BY DEF NoneFor
<1>1. LchanInv(c)
  BY DEF OwnInv, LchansInv
<1> QED  BY <1>1 DEF Gives, LchanInv, Activating

\* No activation of a free channel is under way.
LEMMA Unactivated ==
  ASSUME OwnInv, NEW c \in Lchans, bsc[c] = "free", NEW h \in Hdlrs,
         NEW n, n = [t |-> "CHAN_ACTIV", lchan |-> c, for |-> h]
  PROVE  /\ n \in FromBsc /\ n \in All
         /\ \A x : Under(x) => ~Akin(x, n)
         /\ \A x : IsRequest(x) => ~Akin(x, n) /\ ~Akin(n, x)
<1>1. n \in FromBsc /\ n \in All /\ n.t = "CHAN_ACTIV" /\ n.lchan = c
  BY DEF FromBsc, All
<1>2. ASSUME NEW x, Akin(x, n) \/ Akin(n, x) PROVE IsActivation(x) /\ x.lchan = c
  BY <1>1, <1>2 DEF Akin, IsRequest, IsActivation, IsCommand, IsComplete, IsRelease
<1>3. ASSUME NEW x, Under(x), IsActivation(x), x.lchan = c PROVE FALSE
  <2>1. PICK u \in Places : Means(u, x)
    BY <1>3 DEF Under, OwnInv, MessagesInv
  <2> QED  BY <1>3, <2>1 DEF Means, ActivationMeans, Activating
<1>4. \A x : IsRequest(x) => ~IsActivation(x)
  BY DEF IsRequest, IsActivation
<1> QED  BY <1>1, <1>2, <1>3, <1>4

LEMMA AssignsKeeps ==
  ASSUME OwnInv, NEW m, BscAssigns(m), UNCHANGED testcase
  PROVE  OwnInv'
<1>1. Receive("RQD", m) /\ UNCHANGED hoCommand
  BY DEF BscAssigns
<1>2. /\ iut # <<>> /\ m = Head(queues[Iut]) /\ iut' = Tail(iut)
      /\ m \in All /\ Means(Iut, m) /\ m.t = "RQD" /\ QueueTypes
      /\ UNCHANGED <<ConnectionTable, LastActTable, trxMap, WaitingQueue, dchan_suspended,
                     wait_queue_enabled, client, call, inbox, ended, outcome>>
      /\ UNCHANGED <<stage, g_chan_nr, other>>
  BY <1>1, Received
<1> DEFINE h == Requester(m.ra)
<1>3. h \in Hdlrs /\ RaOf[h] = m.ra
  <2>1. \E g \in Hdlrs : RaOf[g] = m.ra
    BY <1>2, Fields DEF IsRequest, RequestRas
  <2> QED  BY <2>1 DEF Requester
<1>4. PICK c \in Available : Activate(c, h, "imm")
  BY DEF BscAssigns
<1> HIDE DEF h
<1>5. c \in Lchans /\ bsc[c] = "free"
  BY FreeChannel
<1>6. NoneFor(h) /\ stage[h] = "requested" /\ stage \in [Hdlrs -> Stages]
  BY <1>2, <1>3 DEF Means, RequestMeans, IsRequest, Requesting, OwnInv, Types
<1> DEFINE n == [t |-> "CHAN_ACTIV", lchan |-> c, for |-> h]
<1>7. /\ bsc' = [bsc EXCEPT ![c] = Purpose("requested")] /\ user' = [user EXCEPT ![c] = h]
      /\ ipa' = Append(ipa, n) /\ stage' = [stage EXCEPT ![h] = "requested"]
  BY <1>2, <1>4, <1>6 DEF Activate, Purpose
<1> HIDE DEF n
<1>8. /\ n \in FromBsc /\ n \in All
      /\ \A x : Under(x) => ~Akin(x, n)
      /\ \A x : IsRequest(x) => ~Akin(x, n) /\ ~Akin(n, x)
  BY <1>3, <1>5, Unactivated DEF n
<1>9. Passes(Iut, Ipa, n) /\ QueueTypes'
  BY <1>1, <1>2, <1>7, <1>8, FromIutToIpa
<1>10. SingleInv' /\ \A x : Under(x)' /\ Akin(m, x) => Akin(n, x)
  <2>1. SingleInv
    BY DEF OwnInv
  <2> QED  BY <1>2, <1>8, <1>9, <2>1, SinglePassing, PlacesAre
<1>11. ASSUME NEW x, Under(x)', IsRequest(x) PROVE x.ra # RaOf[h]
  <2>1. x.ra = RaOf[h] => Akin(m, x)
    BY <1>2, <1>3, <1>11 DEF Akin, IsRequest
  <2> QED  BY <1>8, <1>10, <1>11, <2>1
<1>12. \A u \in Places : \A x \in Elems(queues'[u]) : x \in Elems(queues[u]) \/ (u = Ipa /\ x = n)
  BY <1>2, <1>8, <1>9, Passing, PlacesAre
<1>13. UNCHANGED <<call, ended, outcome, testcase, g_chan_nr, other, hoCommand>>
  BY <1>1, <1>2
<1>14. UNCHANGED <<ConnectionTable, LastActTable, trxMap, dchan_suspended, wait_queue_enabled>>
  BY <1>2
<1>15. Given(h, c, "requested", n)
  BY <1>5, <1>6, <1>7, <1>11, <1>12, <1>13, <1>14 DEF Given, n
<1>16. Types' /\ HdlrsInv' /\ LchansInv' /\ TableInv' /\ MessagesInv'
  <2>1. \A s \in {"requested", "assigning", "handover"} : Given(h, c, s, n) =>
           Types' /\ HdlrsInv' /\ LchansInv' /\ TableInv' /\ MessagesInv'
    BY <1>3, <1>5, GivenKeeps
  <2> QED  BY <1>15, <2>1
<1> QED  BY <1>9, <1>10, <1>16 DEF OwnInv

\* A handler takes a step.
LEMMA Stepped ==
  ASSUME OwnInv, NEW h \in Hdlrs, NEW f, NEW s, Step(h, f, s)
  PROVE  /\ stage[h] = f /\ stage' = [stage EXCEPT ![h] = s] /\ stage \in [Hdlrs -> Stages]
         /\ call[h] = Idle /\ call \in [Hdlrs -> Calls \cup {Idle}]
         /\ UNCHANGED <<ConnectionTable, LastActTable, trxMap, WaitingQueue, dchan_suspended,
                        wait_queue_enabled, iut, ended, outcome>>
         /\ QueueTypes
  BY DEF Step, tables, queueing, OwnInv, Types

LEMMA GivenToHandler ==
  ASSUME OwnInv, NEW h \in Hdlrs, RequestAssignment(h) \/ StartHandover(h), UNCHANGED testcase
  PROVE  OwnInv'
<1>1. PICK s \in {"assigning", "handover"} :
         /\ \/ s = "assigning" /\ Step(h, "queueing", s)
            \/ s = "handover" /\ Step(h, "suspending", s)
         /\ \E c \in Available : Activate(c, h, Purpose(s))
         /\ UNCHANGED <<g_chan_nr, other, client, call, inbox, hoCommand>>
  BY DEF RequestAssignment, StartHandover, Purpose
<1>2. PICK c \in Available : Activate(c, h, Purpose(s))
  BY <1>1
<1>3. c \in Lchans /\ bsc[c] = "free"
  BY FreeChannel
<1>4. /\ \/ s = "assigning" /\ stage[h] = "queueing"
         \/ s = "handover" /\ stage[h] = "suspending"
      /\ stage' = [stage EXCEPT ![h] = s]
      /\ call[h] = Idle /\ QueueTypes
      /\ UNCHANGED <<ConnectionTable, LastActTable, trxMap, WaitingQueue, dchan_suspended,
                     wait_queue_enabled, iut, ended, outcome>>
  BY <1>1, Stepped
<1>5. NoneFor(h)
  BY <1>4, NoneGiven
<1> DEFINE n == [t |-> "CHAN_ACTIV", lchan |-> c, for |-> h]
<1>6. /\ bsc' = [bsc EXCEPT ![c] = Purpose(s)] /\ user' = [user EXCEPT ![c] = h]
      /\ ipa' = Append(ipa, n)
  BY <1>2 DEF Activate
<1> HIDE DEF n
<1>7. n \in FromBsc /\ n \in All /\ \A x : Under(x) => ~Akin(x, n)
  BY <1>3, Unactivated DEF n
<1>8. Arrives(Ipa, n) /\ QueueTypes'
  BY <1>1, <1>4, <1>6, <1>7, IntoIpa
<1>9. \A u \in Places : \A x \in Elems(queues'[u]) : x \in Elems(queues[u]) \/ (u = Ipa /\ x = n)
  BY <1>4, <1>7, <1>8, Arrival, PlacesAre
<1>10. SingleInv'
  <2>1. SingleInv
    BY DEF OwnInv
  <2> QED  BY <1>4, <1>7, <1>8, <2>1, SingleArrival, PlacesAre
<1>11. ASSUME NEW x, Under(x)', IsRequest(x) PROVE x.ra # RaOf[h]
  <2>1. PICK u \in Places : x \in Elems(queues'[u])
    BY <1>11 DEF Under
  <2>2. CASE x = n
    BY <1>11, <2>2 DEF n, IsRequest
  <2>3. CASE x \in Elems(queues[u])
    <3>1. Means(u, x)
      BY <2>3 DEF OwnInv, MessagesInv
    <3> QED  BY <1>4, <1>11, <3>1 DEF Means, RequestMeans, Requesting
  <2> QED  BY <1>9, <2>1, <2>2, <2>3
<1>12. UNCHANGED <<call, ended, outcome, testcase, g_chan_nr, other, hoCommand>>
  BY <1>1, <1>4
<1>13. UNCHANGED <<ConnectionTable, LastActTable, trxMap, dchan_suspended, wait_queue_enabled>>
  BY <1>4
<1>14. Given(h, c, s, n)
  BY <1>3, <1>4, <1>5, <1>6, <1>9, <1>11, <1>12, <1>13 DEF Given, n
<1>15. Types' /\ HdlrsInv' /\ LchansInv' /\ TableInv' /\ MessagesInv'
  BY <1>3, <1>14, GivenKeeps
<1> QED  BY <1>8, <1>10, <1>15 DEF OwnInv

-----------------------------------------------------------------------------
(* A channel in use is to be released. *)

ToBeReleased(h, c, n) ==
    /\ Gives(h, c, {"used"})
    /\ \/ stage[h] = "assigned" /\ c # g_chan_nr[h] /\ stage' = stage
       \/ /\ stage[h] = "active" /\ c = g_chan_nr[h] /\ call[h] = Idle
          /\ stage' = [stage EXCEPT ![h] = "clearing"]
    /\ bsc' = [bsc EXCEPT ![c] = "rel"]
    /\ UNCHANGED <<ConnectionTable, LastActTable, trxMap, dchan_suspended, wait_queue_enabled, user,
                   call, ended, outcome, testcase, g_chan_nr, other, hoCommand>>
    /\ n = Dr(c, "rel")
    /\ \A u \in Places : \A x \in Elems(queues'[u]) : x \in Elems(queues[u]) \/ (u = Ipa /\ x = n)
    /\ \A x : Under(x)' /\ IsComplete(x) => x.lchan # g_chan_nr[h]

LEMMA ToBeReleasedKeeps ==
  ASSUME OwnInv, NEW h \in Hdlrs, NEW c \in Lchans, NEW n, ToBeReleased(h, c, n)
  PROVE  Types' /\ HdlrsInv' /\ LchansInv' /\ TableInv' /\ MessagesInv'
<1> SUFFICES ASSUME Gives(h, c, {"used"}),
               \/ stage[h] = "assigned" /\ c # g_chan_nr[h] /\ stage' = stage
               \/ /\ stage[h] = "active" /\ c = g_chan_nr[h] /\ call[h] = Idle
                  /\ stage' = [stage EXCEPT ![h] = "clearing"],
               bsc' = [bsc EXCEPT ![c] = "rel"],
               UNCHANGED <<ConnectionTable, LastActTable, trxMap, dchan_suspended, wait_queue_enabled>>,
               UNCHANGED <<call, user, ended, outcome, testcase, g_chan_nr, other, hoCommand>>,
               n = Dr(c, "rel"),
               \A u \in Places : \A x \in Elems(queues'[u]) : x \in Elems(queues[u]) \/ (u = Ipa /\ x = n),
               \A x : Under(x)' /\ IsComplete(x) => x.lchan # g_chan_nr[h]
             PROVE  Types' /\ HdlrsInv' /\ LchansInv' /\ TableInv' /\ MessagesInv'
  BY DEF ToBeReleased
<1>1. /\ Types /\ HdlrsInv /\ LchansInv /\ TableInv /\ MessagesInv
      /\ stage \in [Hdlrs -> Stages]
      /\ bsc \in [Lchans -> {"free", "imm", "ass", "ho", "used", "rel"}]
      /\ user \in [Lchans -> Hdlrs \cup {None}]
      /\ user[c] = h /\ bsc[c] = "used"
  BY DEF OwnInv, Types, Gives
<1>2. /\ \A g \in Hdlrs : g # h => stage'[g] = stage[g]
      /\ stage[h] = "assigned" => stage'[h] = "assigned" /\ c # g_chan_nr[h]
      /\ stage[h] = "active" => stage'[h] = "clearing" /\ c = g_chan_nr[h] /\ call[h] = Idle
      /\ stage[h] \in {"assigned", "active"}
      /\ \A d \in Lchans : bsc'[d] = IF d = c THEN "rel" ELSE bsc[d]
  BY <1>1
<1>3. stage' \in [Hdlrs -> Stages]
  BY <1>1 DEF Stages
<1>4. Types'
  BY <1>1, <1>3 DEF Types, trxMap
<1>5. /\ \A g, d : g # h /\ Gives(g, d, {"used"}) => Gives(g, d, {"used"})'
      /\ \A g, d : d # c /\ Gives(g, d, {"used"}) => Gives(g, d, {"used"})'
      /\ \A g, d : Gives(g, d, {"rel"}) => Gives(g, d, {"rel"})'
      /\ \A g, d : Gives(g, d, {"used", "rel"}) => Gives(g, d, {"used", "rel"})'
      /\ \A g : NoneFor(g) => NoneFor(g)'
  BY <1>1, <1>2 DEF Gives, NoneFor, Activating
<1>6. \A g \in Hdlrs : Late(g) => Late(g)'
  BY <1>2 DEF Late
<1>7. HdlrsInv'
  <2> SUFFICES ASSUME NEW g \in Hdlrs PROVE HdlrInv(g)'
    BY DEF HdlrsInv
  <2>1. HdlrInv(g)
    BY <1>1 DEF HdlrsInv
  <2>2. CASE g # h
    BY <1>2, <1>5, <2>1, <2>2 DEF HdlrInv
  <2>3. CASE g = h /\ stage[h] = "assigned"
    <3>1. Gives(h, g_chan_nr[h], {"used"})' /\ Gives(h, other[h], {"used", "rel"})'
      BY <1>2, <1>5, <2>1, <2>3 DEF HdlrInv, HasChannel
    <3> QED  BY <1>2, <2>1, <2>3, <3>1 DEF HdlrInv, HasChannel
  <2>4. CASE g = h /\ stage[h] = "active"
    <3>1. Gives(h, g_chan_nr[h], {"rel"})'
      BY <1>1, <1>2, <2>4 DEF Gives
    <3>2. call'[h].op \notin {"last", "register"}
      BY <1>2, <2>4 DEF Idle
    <3> QED  BY <1>2, <2>4, <3>1, <3>2 DEF HdlrInv, HasChannel
  <2> QED  BY <1>2, <2>2, <2>3, <2>4
<1>8. LchansInv'
  <2> SUFFICES ASSUME NEW d \in Lchans PROVE LchanInv(d)'
    BY DEF LchansInv
  <2>0. \A x \in Lchans : LchanInv(x)
    BY <1>1 DEF LchansInv
  <2>1. bsc[d] \in Activating => user[d] # h
    BY <1>2, <2>0 DEF LchanInv, Activating
  <2>2. user' = user /\ LastActTable' = LastActTable
    OBVIOUS
  <2>3. bsc'[d] # "free" => user[d] \in Hdlrs
    BY <1>1, <1>2, <2>0 DEF LchanInv
  <2>4. bsc'[d] \in {"used", "rel"} => LastActTable[d] = user[d]
    BY <1>1, <1>2, <2>0 DEF LchanInv
  <2>5. bsc'[d] \in Activating => bsc[d] = bsc'[d] /\ stage'[user[d]] = stage[user[d]]
    BY <1>2, <2>0, <2>1, <2>3 DEF LchanInv, Activating
  <2>6. \A x \in Lchans : bsc'[d] \in Activating /\ bsc'[x] \in Activating /\ user[d] = user[x] => d = x
    BY <1>2, <2>0 DEF LchanInv, Activating
  <2> QED  BY <2>0, <2>2, <2>3, <2>4, <2>5, <2>6 DEF LchanInv, Activating
<1>9. TableInv'
  <2> SUFFICES ASSUME NEW i \in 1 .. Slots PROVE EntryInv(ConnectionTable[i])'
    BY DEF TableInv
  <2>1. /\ EntryInv(ConnectionTable[i]) /\ ConnectionTable' = ConnectionTable
        /\ ConnectionTable[i].comp \in Hdlrs \cup {None} /\ ConnectionTable[i].lchan \in Lchans \cup {None}
        /\ ConnectionTable[i].lchan # None => ConnectionTable[i].comp \in Hdlrs
    BY <1>1 DEF TableInv, Types, Entries, Owned
  <2> QED  BY <1>5, <1>6, <2>1 DEF EntryInv
<1>10. MessagesInv'
  <2>1. ASSUME NEW u \in Places, NEW x \in Elems(queues[u]), Means(u, x), Under(x)' PROVE Means(u, x)'
    <3>0. x \in All
      BY <2>1, UnderWay DEF OwnInv, Under
    <3>1. RequestMeans(u, x)'
      <4> SUFFICES ASSUME IsRequest(x), NEW g \in Hdlrs, RaOf[g] = x.ra
                   PROVE  /\ Requesting(g)'
                          /\ x.t = "IMM_ASS" => Gives(g, x.lchan, {"used"})'
                          /\ u[1] \in {"inbox", "client"} => u[2] = g
        BY DEF RequestMeans, IsRequest
      <4>1. /\ Requesting(g) /\ (x.t = "IMM_ASS" => Gives(g, x.lchan, {"used"}))
            /\ u[1] \in {"inbox", "client"} => u[2] = g
        BY <2>1 DEF Means, RequestMeans
      <4>2. g # h
        BY <1>2, <4>1 DEF Requesting
      <4> QED  BY <1>2, <1>5, <4>1, <4>2 DEF Requesting
    <3>2. ActivationMeans(x)' /\ ReleaseMeans(x)'
      <4>1. IsActivation(x) \/ IsRelease(x) => x.lchan \in Lchans /\ x.lchan # c
        BY <1>1, <2>1, <3>0, Fields DEF Means, ActivationMeans, ReleaseMeans, Activating
      <4>2. x.t = "REL_ACK" => user[x.lchan] \in Hdlrs
        BY <1>1, <2>1, <4>1 DEF Means, ReleaseMeans, IsRelease, LchansInv, LchanInv
      <4>3. ActivationMeans(x)'
        BY <1>2, <2>1, <4>1 DEF Means, ActivationMeans, IsActivation
      <4>4. ReleaseMeans(x)'
        <5>1. IsRelease(x) => bsc'[x.lchan] = "rel"
          BY <1>2, <2>1, <4>1 DEF Means, ReleaseMeans
        <5>2. x.t = "REL_ACK" => /\ Late(user[x.lchan])'
                                 /\ g_chan_nr[user[x.lchan]] = x.lchan => stage'[user[x.lchan]] = "done"
          BY <1>2, <1>6, <2>1, <4>2 DEF Means, ReleaseMeans, Late
        <5> QED  BY <5>1, <5>2 DEF ReleaseMeans
      <4> QED  BY <4>3, <4>4
    <3>3. IsCommand(x) => \E g \in Hdlrs : Commanded(g, x)'
      <4> SUFFICES ASSUME IsCommand(x) PROVE \E g \in Hdlrs : Commanded(g, x)'
        OBVIOUS
      <4>1. PICK g \in Hdlrs : Commanded(g, x)
        BY <2>1 DEF Means
      <4>2. g # h
        BY <1>2, <4>1 DEF Commanded
      <4> QED  BY <1>2, <1>5, <4>1, <4>2 DEF Commanded
    <3>4. IsComplete(x) => \E g \in Hdlrs : Completing(g, x)'
      <4> SUFFICES ASSUME IsComplete(x) PROVE \E g \in Hdlrs : Completing(g, x)'
        OBVIOUS
      <4>1. PICK g \in Hdlrs : Completing(g, x)
        BY <2>1 DEF Means
      <4>2. g # h
        BY <2>1, <4>1 DEF Completing
      <4> QED  BY <1>2, <1>5, <4>1, <4>2 DEF Completing
    <3>5. ASSUME IsCommand(x) \/ IsRelease(x), u[1] = "inbox"
          PROVE  user'[x.lchan] = u[2] \/ Late(u[2])'
      <4>1. u[2] \in Hdlrs
        BY <3>5, PlacesAre DEF Places
      <4> QED  BY <1>6, <2>1, <3>5, <4>1 DEF Means
    <3> QED  BY <3>1, <3>2, <3>3, <3>4, <3>5 DEF Means
  <2>2. Means(Ipa, n)'
    <3>1. n.t = "DR" /\ n.what = "rel" /\ n.lchan = c
      BY DEF Dr
    <3>2. bsc'[c] = "rel"
      BY <1>2
    <3> QED  BY <3>1, <3>2 DEF Means, RequestMeans, ActivationMeans, ReleaseMeans, IsRequest, IsActivation,
                IsCommand, IsComplete, IsRelease, Ipa
  <2> QED  BY <1>1, <2>1, <2>2, MessagesKept
<1> QED  BY <1>4, <1>7, <1>8, <1>9, <1>10

\* No release of a channel in use is under way.
LEMMA Unreleased ==
  ASSUME OwnInv, NEW c \in Lchans, bsc[c] = "used", NEW n, n = Dr(c, "rel")
  PROVE  /\ n \in FromBsc /\ n \in All
         /\ \A x : Under(x) => ~Akin(x, n)
         /\ \A x : IsComplete(x) => ~Akin(x, n) /\ ~Akin(n, x)
<1>1. n \in FromBsc /\ n \in All /\ n.t = "DR" /\ n.what = "rel" /\ n.lchan = c
  BY DataTyped
<1>2. ASSUME NEW x, Akin(x, n) \/ Akin(n, x) PROVE IsRelease(x) /\ x.lchan = c
  BY <1>1, <1>2 DEF Akin, IsRequest, IsActivation, IsCommand, IsComplete, IsRelease
<1>3. ASSUME NEW x, Under(x), IsRelease(x), x.lchan = c PROVE FALSE
  <2>1. PICK u \in Places : Means(u, x)
    BY <1>3 DEF Under, OwnInv, MessagesInv
  <2> QED  BY <1>3, <2>1 DEF Means, ReleaseMeans
<1>4. \A x : IsComplete(x) => ~IsRelease(x)
  BY DEF IsComplete, IsRelease
<1> QED  BY <1>1, <1>2, <1>3, <1>4

LEMMA AssignedKeeps ==
  ASSUME OwnInv, NEW m, BscAssigned(m), UNCHANGED testcase
  PROVE  OwnInv'
<1>1. Receive("ASS_CMPL", m) /\ UNCHANGED <<user, hoCommand>>
  BY DEF BscAssigned
<1>2. /\ iut # <<>> /\ m = Head(queues[Iut]) /\ iut' = Tail(iut)
      /\ m \in All /\ Means(Iut, m) /\ m.t = "ASS_CMPL" /\ QueueTypes
      /\ UNCHANGED <<ConnectionTable, LastActTable, trxMap, WaitingQueue, dchan_suspended,
                     wait_queue_enabled, client, call, inbox, ended, outcome>>
      /\ UNCHANGED <<stage, g_chan_nr, other>>
  BY <1>1, Received
<1>3. PICK c \in Lchans \ {m.lchan} :
         /\ bsc[c] = "used" /\ user[c] = user[m.lchan]
         /\ bsc' = [bsc EXCEPT ![c] = "rel"]
         /\ ipa' = Append(ipa, Dr(c, "rel"))
  BY DEF BscAssigned
<1>4. PICK h \in Hdlrs : Completing(h, m)
  BY <1>2 DEF Means, IsComplete
<1>5. stage[h] = "assigned" /\ g_chan_nr[h] = m.lchan /\ Gives(h, m.lchan, {"used"})
  BY <1>4 DEF Completing, OwnInv, HdlrsInv, HdlrInv, HasChannel
<1>6. c \in Lchans /\ c # g_chan_nr[h] /\ Gives(h, c, {"used"})
  BY <1>3, <1>5 DEF Gives
<1> DEFINE n == Dr(c, "rel")
<1>7. ipa' = Append(ipa, n)
  BY <1>3
<1> HIDE DEF n
<1>8. /\ n \in FromBsc /\ n \in All
      /\ \A x : Under(x) => ~Akin(x, n)
      /\ \A x : IsComplete(x) => ~Akin(x, n) /\ ~Akin(n, x)
  BY <1>3, <1>6, Unreleased DEF n
<1>9. Passes(Iut, Ipa, n) /\ QueueTypes'
  BY <1>1, <1>2, <1>7, <1>8, FromIutToIpa
<1>10. SingleInv' /\ \A x : Under(x)' /\ Akin(m, x) => Akin(n, x)
  <2>1. SingleInv
    BY DEF OwnInv
  <2> QED  BY <1>2, <1>8, <1>9, <2>1, SinglePassing, PlacesAre
<1>11. ASSUME NEW x, Under(x)', IsComplete(x) PROVE x.lchan # g_chan_nr[h]
  <2>1. x.lchan = g_chan_nr[h] => Akin(m, x)
    BY <1>2, <1>5, <1>11 DEF Akin, IsComplete
  <2> QED  BY <1>8, <1>10, <1>11, <2>1
<1>12. \A u \in Places : \A x \in Elems(queues'[u]) : x \in Elems(queues[u]) \/ (u = Ipa /\ x = n)
  BY <1>2, <1>8, <1>9, Passing, PlacesAre
<1>13. ToBeReleased(h, c, n)
  BY <1>1, <1>2, <1>3, <1>5, <1>6, <1>11, <1>12 DEF ToBeReleased, n
<1>14. Types' /\ HdlrsInv' /\ LchansInv' /\ TableInv' /\ MessagesInv'
  BY <1>6, <1>13, ToBeReleasedKeeps
<1> QED  BY <1>9, <1>10, <1>14 DEF OwnInv

LEMMA PerformClearKeeps ==
  ASSUME OwnInv, NEW h \in Hdlrs, PerformClear(h), UNCHANGED testcase
  PROVE  OwnInv'
<1> DEFINE c == g_chan_nr[h]
           n == Dr(c, "rel")
<1>1. /\ Step(h, "active", "clearing")
      /\ ipa' = Append(ipa, n)
      /\ bsc' = [bsc EXCEPT ![c] = "rel"]
      /\ UNCHANGED <<g_chan_nr, other, client, call, inbox, user, hoCommand>>
  BY DEF PerformClear
<1>2. /\ stage[h] = "active" /\ stage' = [stage EXCEPT ![h] = "clearing"] /\ call[h] = Idle
      /\ UNCHANGED <<ConnectionTable, LastActTable, trxMap, WaitingQueue, dchan_suspended,
                     wait_queue_enabled, iut, ended, outcome>>
      /\ QueueTypes
  BY <1>1, Stepped
<1>3. Gives(h, c, {"used"})
  BY <1>2 DEF OwnInv, HdlrsInv, HdlrInv, HasChannel
<1>4. c \in Lchans /\ bsc[c] = "used" /\ c = g_chan_nr[h]
  BY <1>3 DEF Gives
<1> HIDE DEF c, n
<1>5. n \in FromBsc /\ n \in All /\ \A x : Under(x) => ~Akin(x, n)
  BY <1>4, Unreleased DEF n
<1>6. Arrives(Ipa, n) /\ QueueTypes'
  BY <1>1, <1>2, <1>5, IntoIpa
<1>7. \A u \in Places : \A x \in Elems(queues'[u]) : x \in Elems(queues[u]) \/ (u = Ipa /\ x = n)
  BY <1>2, <1>5, <1>6, Arrival, PlacesAre
<1>8. SingleInv'
  <2>1. SingleInv
    BY DEF OwnInv
  <2> QED  BY <1>2, <1>5, <1>6, <2>1, SingleArrival, PlacesAre
<1>9. ASSUME NEW x, Under(x)', IsComplete(x) PROVE x.lchan # g_chan_nr[h]
  <2>1. PICK u \in Places : x \in Elems(queues'[u])
    BY <1>9 DEF Under
  <2>2. CASE x = n
    BY <1>9, <2>2 DEF n, Dr, IsComplete
  <2>3. CASE x \in Elems(queues[u])
    <3>1. PICK g \in Hdlrs : Completing(g, x)
      BY <1>9, <2>3 DEF OwnInv, MessagesInv, Means
    <3>2. stage[g] = "assigned" /\ g_chan_nr[g] = x.lchan /\ Gives(g, x.lchan, {"used"})
      BY <3>1 DEF Completing, OwnInv, HdlrsInv, HdlrInv, HasChannel
    <3> QED  BY <1>2, <1>3, <1>4, <3>2 DEF Gives
  <2> QED  BY <1>7, <2>1, <2>2, <2>3
<1>10. ToBeReleased(h, c, n)
  BY <1>1, <1>2, <1>3, <1>4, <1>7, <1>9 DEF ToBeReleased, n
<1>11. Types' /\ HdlrsInv' /\ LchansInv' /\ TableInv' /\ MessagesInv'
  BY <1>4, <1>10, ToBeReleasedKeeps
<1> QED  BY <1>6, <1>8, <1>11 DEF OwnInv

\* The channel that was released: nothing refers to it any more.
LEMMA ReleasedKeeps ==
  ASSUME OwnInv, NEW m, BscReleased(m), UNCHANGED testcase
  PROVE  OwnInv'
<1>1. Receive("REL_ACK", m) /\ UNCHANGED <<ipa, user, hoCommand>> /\ bsc' = [bsc EXCEPT ![m.lchan] = "free"]
  BY DEF BscReleased
<1>2. /\ iut # <<>> /\ m = Head(queues[Iut]) /\ iut' = Tail(iut)
      /\ m \in All /\ Means(Iut, m) /\ m.t = "REL_ACK" /\ QueueTypes
      /\ UNCHANGED <<ConnectionTable, LastActTable, trxMap, WaitingQueue, dchan_suspended,
                     wait_queue_enabled, client, call, inbox, ended, outcome>>
      /\ UNCHANGED <<stage, g_chan_nr, other>>
  BY <1>1, Received
<1>3. /\ Types /\ HdlrsInv /\ LchansInv /\ TableInv /\ MessagesInv /\ SingleInv
      /\ bsc \in [Lchans -> {"free", "imm", "ass", "ho", "used", "rel"}]
  BY DEF OwnInv, Types
<1> DEFINE c == m.lchan
<1>4. c \in Lchans /\ IsRelease(m)
  BY <1>2, Fields DEF IsRelease
<1>5. /\ bsc[c] = "rel" /\ user[c] \in Hdlrs /\ Late(user[c])
      /\ g_chan_nr[user[c]] = c => stage[user[c]] = "done"
  BY <1>2, <1>3, <1>4 DEF Means, ReleaseMeans, LchansInv, LchanInv
<1>6. \A d \in Lchans : bsc'[d] = IF d = c THEN "free" ELSE bsc[d]
  BY <1>1, <1>3, <1>4
<1>7. Leaves(Iut) /\ QueueTypes'
  BY <1>1, <1>2, OutOfIut
<1>8. SingleInv' /\ \A x : Under(x)' => ~Akin(m, x)
  BY <1>2, <1>3, <1>7, SingleLeaving, PlacesAre
<1>9. \A x : Under(x)' /\ IsRelease(x) => x.lchan # c
  BY <1>4, <1>8 DEF Akin
<1>10. Types'
  <2>1. bsc' \in [Lchans -> {"free", "imm", "ass", "ho", "used", "rel"}]
    BY <1>1, <1>3, <1>4
  <2> QED  BY <1>1, <1>2, <1>3, <2>1 DEF Types, trxMap
<1> HIDE DEF c
<1>11. /\ \A g, d : Gives(g, d, {"used"}) => Gives(g, d, {"used"})'
       /\ \A g, d : d # c /\ Gives(g, d, {"rel"}) => Gives(g, d, {"rel"})'
       /\ \A g, d : d # c /\ Gives(g, d, {"used", "rel"}) => Gives(g, d, {"used", "rel"})'
       /\ \A g, d : Gives(g, d, {"rel"}) /\ d = c => g = user[c]
       /\ \A g, d : Gives(g, d, {"used", "rel"}) /\ d = c => g = user[c]
       /\ \A g : NoneFor(g) => NoneFor(g)'
  BY <1>1, <1>5, <1>6 DEF Gives, NoneFor, Activating
<1>12. \A g : Late(g)' <=> Late(g)
  BY <1>2 DEF Late
<1>13. HdlrsInv'
  <2> SUFFICES ASSUME NEW g \in Hdlrs PROVE HdlrInv(g)'
    BY DEF HdlrsInv
  <2>1. HdlrInv(g)
    BY <1>3 DEF HdlrsInv
  <2>2. UNCHANGED <<stage, g_chan_nr, other, hoCommand, call>>
    BY <1>1, <1>2
  <2>3. stage[g] = "clearing" => Gives(g, g_chan_nr[g], {"rel"})'
    BY <1>5, <1>11, <2>1, <2>2 DEF HdlrInv
  <2>4. stage[g] = "assigned" => Gives(g, other[g], {"used", "rel"})'
    BY <1>5, <1>11, <2>1, <2>2 DEF HdlrInv, Late
  <2> QED  BY <1>11, <2>1, <2>2, <2>3, <2>4 DEF HdlrInv
<1>14. LchansInv'
  <2> SUFFICES ASSUME NEW d \in Lchans PROVE LchanInv(d)'
    BY DEF LchansInv
  <2>1. \A x \in Lchans : LchanInv(x) /\ (bsc'[x] = bsc[x] \/ bsc'[x] = "free")
    BY <1>3, <1>6 DEF LchansInv
  <2>2. UNCHANGED <<stage, user, LastActTable>>
    BY <1>1, <1>2
  <2>3. \A x \in Lchans : bsc[d] \in Activating /\ bsc[x] \in Activating /\ user[d] = user[x] => d = x
    BY <2>1 DEF LchanInv
  <2>4. \A x \in Lchans : bsc'[d] \in Activating /\ bsc'[x] \in Activating /\ user[d] = user[x] => d = x
    BY <2>1, <2>3 DEF Activating
  <2>5. bsc'[d] = bsc[d] \/ bsc'[d] = "free"
    BY <2>1
  <2>6. LchanInv(d)
    BY <2>1
  <2> QED  BY <2>2, <2>4, <2>5, <2>6 DEF LchanInv
<1>15. TableInv'
  <2> SUFFICES ASSUME NEW i \in 1 .. Slots PROVE EntryInv(ConnectionTable[i])'
    BY DEF TableInv
  <2>1. EntryInv(ConnectionTable[i]) /\ ConnectionTable' = ConnectionTable
    BY <1>2, <1>3 DEF TableInv
  <2> QED  BY <1>5, <1>11, <1>12, <2>1 DEF EntryInv
<1>16. MessagesInv'
  <2>1. ASSUME NEW u \in Places, NEW x \in Elems(queues[u]), Means(u, x), Under(x)' PROVE Means(u, x)'
    <3>0. x \in All /\ UNCHANGED <<stage, g_chan_nr, other, user, LastActTable>>
      BY <1>1, <1>2, <2>1, UnderWay DEF Under
    <3>1. RequestMeans(u, x)'
      BY <1>11, <2>1, <3>0 DEF Means, RequestMeans, IsRequest, Requesting
    <3>2. ActivationMeans(x)'
      <4>1. IsActivation(x) => x.lchan \in Lchans /\ x.lchan # c
        BY <1>5, <2>1, <3>0, Fields DEF Means, ActivationMeans, Activating
      <4> QED  BY <1>6, <2>1, <3>0, <4>1 DEF Means, ActivationMeans, IsActivation
    <3>3. ReleaseMeans(x)'
      <4>1. IsRelease(x) => x.lchan \in Lchans /\ x.lchan # c
        BY <1>9, <2>1, <3>0, Fields
      <4> QED  BY <1>6, <1>12, <2>1, <3>0, <4>1 DEF Means, ReleaseMeans, IsRelease
    <3>4. IsCommand(x) => \E g \in Hdlrs : Commanded(g, x)'
      BY <1>11, <2>1, <3>0 DEF Means, Commanded
    <3>5. IsComplete(x) => \E g \in Hdlrs : Completing(g, x)'
      BY <1>11, <2>1, <3>0 DEF Means, Completing
    <3>6. (IsCommand(x) \/ IsRelease(x)) /\ u[1] = "inbox" => user'[x.lchan] = u[2] \/ Late(u[2])'
      BY <1>12, <2>1, <3>0 DEF Means
    <3> QED  BY <3>1, <3>2, <3>3, <3>4, <3>5, <3>6 DEF Means
  <2>2. \A u \in Places : \A x \in Elems(queues'[u]) : x \in Elems(queues[u])
    BY <1>2, <1>7, Leaving, PlacesAre
  <2> QED  BY <1>3, <2>1, <2>2, MessagesFewer
<1> QED  BY <1>7, <1>8, <1>10, <1>13, <1>14, <1>15, <1>16 DEF OwnInv

\* Two messages take the place of the head of another queue; the second is of no procedure.
PassesTwo(p, r, m, k) == queues[p] # <<>> /\ queues' = Put(Put(Drop(queues, p), r, m), r, k)

LEMMA TwoAppended ==
  ASSUME NEW T, NEW s \in Seq(T), NEW a \in T, NEW b \in T
  PROVE  s \o <<a, b>> = Append(Append(s, a), b)
<1> DEFINE l == s \o <<a, b>>
           r == Append(Append(s, a), b)
<1>1. <<a, b>> \in Seq(T) /\ Len(<<a, b>>) = 2 /\ <<a, b>>[1] = a /\ <<a, b>>[2] = b
  OBVIOUS
<1>2. l \in Seq(T) /\ r \in Seq(T) /\ Len(l) = Len(s) + 2 /\ Len(r) = Len(s) + 2 /\ Len(s) \in Nat
  BY <1>1
<1>3. ASSUME NEW i \in 1 .. Len(l) PROVE l[i] = r[i]
  <2>1. CASE i \in 1 .. Len(s)
    BY <1>1, <1>2, <2>1
  <2>2. CASE i = Len(s) + 1
    BY <1>1, <1>2, <2>2
  <2>3. CASE i = Len(s) + 2
    BY <1>1, <1>2, <2>3
  <2> QED  BY <1>2, <2>1, <2>2, <2>3
<1> HIDE DEF l, r
<1>4. l = r
  BY <1>2, <1>3, SeqEqual
<1> QED  BY <1>4 DEF l, r

LEMMA FromIutToIpaTwo ==
  ASSUME QueueTypes, NEW m \in FromBsc, NEW k \in FromBsc, iut # <<>>,
         iut' = Tail(iut),
         ipa' = ipa \o <<m, k>>,
         UNCHANGED <<WaitingQueue, inbox, client>>
  PROVE  PassesTwo(Iut, Ipa, m, k) /\ QueueTypes'
<1>1. /\ ipa \in Seq(FromBsc) /\ WaitingQueue \in Seq(Drs) /\ iut \in Seq(ToBsc)
      /\ inbox \in [Hdlrs -> Seq(Drs \cup Answers)] /\ client \in [Hdlrs -> Seq(FromHdlrs)]
  BY DEF QueueTypes
<1>2. ipa' = Append(Append(ipa, m), k)
  BY <1>1, TwoAppended
<1>3. /\ Tail(iut) \in Seq(ToBsc) /\ Append(ipa, m) \in Seq(FromBsc)
      /\ Append(Append(ipa, m), k) \in Seq(FromBsc)
  BY <1>1, TakenQueue, AppendedQueue
<1>4. QueueTypes'
  BY <1>1, <1>2, <1>3 DEF QueueTypes
<1>5. queues' = QueuesOf(Append(Append(ipa, m), k), WaitingQueue, Tail(iut), inbox, client)
  BY <1>2, Zenon DEF queues
<1>6. QueuesOf(ipa, WaitingQueue, Tail(iut), inbox, client) = Drop(queues, Iut)
  BY PutAndDrop DEF queues
<1>7. QueuesOf(Append(ipa, m), WaitingQueue, Tail(iut), inbox, client)
        = Put(QueuesOf(ipa, WaitingQueue, Tail(iut), inbox, client), Ipa, m)
  BY PutAndDrop
<1>8. QueuesOf(Append(Append(ipa, m), k), WaitingQueue, Tail(iut), inbox, client)
        = Put(QueuesOf(Append(ipa, m), WaitingQueue, Tail(iut), inbox, client), Ipa, k)
  BY PutAndDrop
<1>9. queues[Iut] = iut
  BY QueuesAre DEF queues
<1> QED  BY <1>4, <1>5, <1>6, <1>7, <1>8, <1>9, Zenon DEF PassesTwo

LEMMA SinglePassingTwo ==
  ASSUME QueueTypes, QueueTypes', SingleInv, NEW p \in Places, NEW r \in Places,
         NEW m \in All, NEW k \in All, PassesTwo(p, r, m, k),
         \A x : Under(x) => ~Akin(x, m),
         \A x : ~Akin(x, k)
  PROVE  /\ SingleInv'
         /\ \A u \in Places : \A x \in Elems(queues'[u]) : x \in Elems(queues[u]) \/ (u = r /\ x \in {m, k})
         /\ \A x : Under(x)' /\ Akin(Head(queues[p]), x) => Akin(m, x)
<1> DEFINE q == queues
           q1 == Drop(q, p)
           q2 == Put(q1, r, m)
           h == Head(q[p])
<1>1. q \in [Places -> Seq(All)] /\ q[p] # <<>> /\ queues' = Put(q2, r, k)
  BY QueuesTyped DEF PassesTwo
<1>2. \A S \in Procedures : k \notin S /\ (m \in S => ~Somewhere(q, S)) /\ Single(q, S)
  BY UnderWay, AkinIn DEF SingleInv
<1>3. \A x \in All : Akin(h, x) /\ h \in All => \E S \in Procedures : h \in S /\ x \in S
  BY AkinIn
<1> HIDE DEF q
<1>4. /\ q1 \in [Places -> Seq(All)]
      /\ h \in All
      /\ \A u \in Places : Elems(q1[u]) \subseteq Elems(q[u])
      /\ \A S : Somewhere(q1, S) => Somewhere(q, S)
      /\ \A S : Single(q, S) => Single(q1, S) /\ (h \in S => ~Somewhere(q1, S))
  BY <1>1, DropQueues
<1> HIDE DEF q1
<1>5. /\ q2 \in [Places -> Seq(All)]
      /\ \A u \in Places : \A x \in Elems(q2[u]) : x \in Elems(q1[u]) \/ (u = r /\ x = m)
      /\ \A S : Single(q1, S) /\ (m \in S => ~Somewhere(q1, S)) => Single(q2, S)
      /\ \A S : Somewhere(q2, S) <=> (Somewhere(q1, S) \/ m \in S)
  BY <1>4, PutQueues, Zenon
<1> HIDE DEF q2
<1>6. /\ \A u \in Places : \A x \in Elems(queues'[u]) : x \in Elems(q2[u]) \/ (u = r /\ x = k)
      /\ \A S : Single(q2, S) /\ (k \in S => ~Somewhere(q2, S)) => Single(queues', S)
      /\ \A S : Somewhere(queues', S) <=> (Somewhere(q2, S) \/ k \in S)
  <2>0. q2 \in [Places -> Seq(All)]
    BY <1>5
  <2>1. /\ \A u \in Places : \A x \in Elems(Put(q2, r, k)[u]) : x \in Elems(q2[u]) \/ (u = r /\ x = k)
        /\ \A S : Single(q2, S) /\ (k \in S => ~Somewhere(q2, S)) => Single(Put(q2, r, k), S)
        /\ \A S : Somewhere(Put(q2, r, k), S) <=> (Somewhere(q2, S) \/ k \in S)
    BY <2>0, PutQueues, Zenon
  <2> QED  BY <1>1, <2>1
<1>7. SingleInv'
  <2>1. ASSUME NEW S \in Procedures PROVE Single(queues', S)
    BY <1>2, <1>4, <1>5, <1>6
  <2> QED  BY <2>1 DEF SingleInv
<1>8. \A u \in Places : \A x \in Elems(queues'[u]) : x \in Elems(q[u]) \/ (u = r /\ x \in {m, k})
  BY <1>4, <1>5, <1>6
<1>9. ASSUME NEW x, Under(x)', Akin(h, x) PROVE Akin(m, x)
  <2>1. /\ x \in All
        /\ \A S : Somewhere(queues, S)' <=> \E y : Under(y)' /\ y \in S
    BY <1>9, UnderWayNext
  <2>2. PICK S \in Procedures : h \in S /\ x \in S
    BY <1>3, <1>4, <1>9, <2>1
  <2>3. Somewhere(queues', S)
    BY <1>9, <2>1, <2>2 DEF Somewhere
  <2>4. m \in S
    BY <1>2, <1>4, <1>5, <1>6, <2>2, <2>3
  <2> QED  BY <2>1, <2>2, <2>4, AkinIn
<1> QED  BY <1>7, <1>8, <1>9 DEF q, h

\* The BSC has channel c activated for h, and tells it so.
Announces(h, c, x) ==
    \/ bsc[c] = "imm" /\ x = [t |-> "IMM_ASS", ra |-> RaOf[h], lchan |-> c]
    \/ bsc[c] = "ass" /\ x = [Dr(g_chan_nr[h], "assign") EXCEPT !.new = c]
    \/ x = Dr(c, "crcx")

InUse(h, c) ==
    /\ Gives(h, c, Activating) /\ LastActTable[c] = h
    /\ bsc' = [bsc EXCEPT ![c] = "used"]
    /\ \/ bsc[c] # "ho" /\ hoCommand' = hoCommand
       \/ bsc[c] = "ho" /\ hoCommand' = [hoCommand EXCEPT ![h] = c]
    /\ UNCHANGED <<ConnectionTable, LastActTable, trxMap, dchan_suspended, wait_queue_enabled,
                   call, user, ended, outcome, testcase, stage, g_chan_nr, other>>
    /\ \A x : Under(x)' /\ IsActivation(x) => x.lchan # c
    /\ \A u \in Places : \A x \in Elems(queues'[u]) :
          x \in Elems(queues[u]) \/ (u = Ipa /\ Announces(h, c, x))

LEMMA InUseKeeps ==
  ASSUME OwnInv, NEW h \in Hdlrs, NEW c \in Lchans, InUse(h, c)
  PROVE  Types' /\ HdlrsInv' /\ LchansInv' /\ TableInv' /\ MessagesInv'
<1>1. /\ Types /\ HdlrsInv /\ LchansInv /\ TableInv /\ MessagesInv
      /\ bsc \in [Lchans -> {"free", "imm", "ass", "ho", "used", "rel"}]
      /\ hoCommand \in [Hdlrs -> Lchans \cup {None}]
  BY DEF OwnInv, Types
<1>2. /\ Gives(h, c, Activating) /\ LastActTable[c] = h
      /\ bsc' = [bsc EXCEPT ![c] = "used"]
      /\ \/ bsc[c] # "ho" /\ hoCommand' = hoCommand
         \/ bsc[c] = "ho" /\ hoCommand' = [hoCommand EXCEPT ![h] = c]
      /\ UNCHANGED <<ConnectionTable, LastActTable, trxMap, dchan_suspended, wait_queue_enabled>>
      /\ UNCHANGED <<call, user, ended, outcome, testcase, stage, g_chan_nr, other>>
      /\ \A x : Under(x)' /\ IsActivation(x) => x.lchan # c
      /\ \A u \in Places : \A x \in Elems(queues'[u]) :
            x \in Elems(queues[u]) \/ (u = Ipa /\ Announces(h, c, x))
  BY DEF InUse
<1>3. /\ user[c] = h /\ bsc[c] \in Activating
      /\ \A d \in Lchans : bsc'[d] = IF d = c THEN "used" ELSE bsc[d]
  BY <1>1, <1>2 DEF Gives
<1>4. Types'
  <2>1. /\ bsc' \in [Lchans -> {"free", "imm", "ass", "ho", "used", "rel"}]
        /\ hoCommand' \in [Hdlrs -> Lchans \cup {None}]
    BY <1>1, <1>2
  <2> QED  BY <1>1, <1>2, <2>1 DEF Types, trxMap
<1>5. /\ Gives(h, c, {"used"})'
      /\ \A g, d : Gives(g, d, {"used"}) => Gives(g, d, {"used"})'
      /\ \A g, d : Gives(g, d, {"rel"}) => Gives(g, d, {"rel"})'
      /\ \A g, d : Gives(g, d, {"used", "rel"}) => Gives(g, d, {"used", "rel"})'
      /\ \A g : NoneFor(g) => NoneFor(g)'
  BY <1>2, <1>3 DEF Gives, NoneFor, Activating
<1>6. \A g : Late(g)' <=> Late(g)
  BY <1>2 DEF Late
<1>7. NoneFor(h)'
  <2> SUFFICES ASSUME NEW d \in Lchans, Gives(h, d, Activating)' PROVE FALSE
    BY DEF NoneFor
  <2>1. bsc'[d] \in Activating /\ user[d] = h
    BY <1>2 DEF Gives, Activating
  <2>2. d # c /\ bsc[d] \in Activating
    BY <1>3, <2>1 DEF Activating
  <2>3. LchanInv(c)
    BY <1>1 DEF LchansInv
  <2> QED  BY <1>3, <2>1, <2>2, <2>3 DEF LchanInv
<1>8. /\ bsc[c] = "imm" => stage[h] = "requested"
      /\ bsc[c] = "ass" => stage[h] = "assigning"
      /\ bsc[c] = "ho" => stage[h] = "handover"
  BY <1>1, <1>3 DEF LchansInv, LchanInv
<1>9. HdlrsInv'
  <2> SUFFICES ASSUME NEW g \in Hdlrs PROVE HdlrInv(g)'
    BY DEF HdlrsInv
  <2>1. HdlrInv(g)
    BY <1>1 DEF HdlrsInv
  <2>2. UNCHANGED <<stage, g_chan_nr, other, call>>
    BY <1>2
  <2>3. hoCommand'[g] = hoCommand[g] \/ (g = h /\ stage[g] = "handover" /\ hoCommand'[g] = c)
    BY <1>1, <1>2, <1>8
  <2>4. /\ stage[g] \in {"idle", "suspending"} => hoCommand'[g] = None
        /\ stage[g] = "handover" /\ hoCommand'[g] # None =>
              Gives(g, hoCommand[g], {"used"})' /\ NoneFor(g)'
    BY <1>5, <1>7, <2>1, <2>3 DEF HdlrInv
  <2> QED  BY <1>5, <2>1, <2>2, <2>4 DEF HdlrInv
<1>10. LchansInv'
  <2> SUFFICES ASSUME NEW d \in Lchans PROVE LchanInv(d)'
    BY DEF LchansInv
  <2>1. \A x \in Lchans : LchanInv(x) /\ (bsc'[x] = bsc[x] \/ (x = c /\ bsc'[x] = "used"))
    BY <1>1, <1>3 DEF LchansInv
  <2>2. UNCHANGED <<stage, user, LastActTable>>
    BY <1>2
  <2>3. \A x \in Lchans : bsc[d] \in Activating /\ bsc[x] \in Activating /\ user[d] = user[x] => d = x
    BY <2>1 DEF LchanInv
  <2>4. \A x \in Lchans : bsc'[d] \in Activating /\ bsc'[x] \in Activating /\ user[d] = user[x] => d = x
    BY <2>1, <2>3 DEF Activating
  <2>5. LchanInv(d) /\ (bsc'[d] = bsc[d] \/ (d = c /\ bsc'[d] = "used"))
    BY <2>1
  <2> QED  BY <1>2, <1>3, <2>2, <2>4, <2>5 DEF LchanInv
<1>11. TableInv'
  <2> SUFFICES ASSUME NEW i \in 1 .. Slots PROVE EntryInv(ConnectionTable[i])'
    BY DEF TableInv
  <2>1. EntryInv(ConnectionTable[i]) /\ ConnectionTable' = ConnectionTable
    BY <1>1, <1>2 DEF TableInv
  <2> QED  BY <1>5, <1>6, <2>1 DEF EntryInv
<1>12. MessagesInv'
  <2>1. ASSUME NEW u \in Places, NEW x \in Elems(queues[u]), Means(u, x), Under(x)' PROVE Means(u, x)'
    <3>0. x \in All /\ UNCHANGED <<stage, g_chan_nr, other, user, LastActTable>>
      BY <1>2, <2>1, UnderWay DEF OwnInv, Under
    <3>1. RequestMeans(u, x)'
      BY <1>5, <2>1, <3>0 DEF Means, RequestMeans, IsRequest, Requesting
    <3>2. ActivationMeans(x)'
      <4>1. IsActivation(x) => x.lchan \in Lchans /\ x.lchan # c
        BY <1>2, <2>1, <3>0, Fields
      <4> QED  BY <1>3, <2>1, <3>0, <4>1 DEF Means, ActivationMeans, IsActivation
    <3>3. ReleaseMeans(x)'
      <4>1. IsRelease(x) => x.lchan \in Lchans /\ x.lchan # c
        BY <1>3, <2>1, <3>0, Fields DEF Means, ReleaseMeans, Activating
      <4> QED  BY <1>3, <1>6, <2>1, <3>0, <4>1 DEF Means, ReleaseMeans, IsRelease
    <3>4. IsCommand(x) => \E g \in Hdlrs : Commanded(g, x)'
      BY <1>5, <2>1, <3>0 DEF Means, Commanded
    <3>5. IsComplete(x) => \E g \in Hdlrs : Completing(g, x)'
      BY <1>5, <2>1, <3>0 DEF Means, Completing
    <3>6. (IsCommand(x) \/ IsRelease(x)) /\ u[1] = "inbox" => user'[x.lchan] = u[2] \/ Late(u[2])'
      BY <1>6, <2>1, <3>0 DEF Means
    <3> QED  BY <3>1, <3>2, <3>3, <3>4, <3>5, <3>6 DEF Means
  <2>2. ASSUME NEW x, Announces(h, c, x) PROVE Means(Ipa, x)'
    <3>1. CASE bsc[c] = "imm" /\ x = [t |-> "IMM_ASS", ra |-> RaOf[h], lchan |-> c]
      <4>1. x.t = "IMM_ASS" /\ x.ra = RaOf[h] /\ x.lchan = c
        BY <3>1
      <4>2. RequestMeans(Ipa, x)'
        <5>1. \A g \in Hdlrs : RaOf[g] = RaOf[h] => g = h
          BY RSLBscAssumption
        <5>2. Requesting(h)'
          BY <1>2, <1>7, <1>8, <3>1 DEF Requesting
        <5> QED  BY <1>5, <4>1, <5>1, <5>2 DEF RequestMeans, Ipa
      <4> QED  BY <4>1, <4>2 DEF Means, ActivationMeans, ReleaseMeans, IsActivation, IsCommand, IsComplete,
                  IsRelease
    <3>2. CASE bsc[c] = "ass" /\ x = [Dr(g_chan_nr[h], "assign") EXCEPT !.new = c]
      <4>1. x.t = "DR" /\ x.what = "assign" /\ x.lchan = g_chan_nr[h] /\ x.new = c
        BY <3>2 DEF Dr
      <4>2. Gives(h, g_chan_nr[h], {"used"}) /\ stage[h] = "assigning"
        BY <1>1, <1>8, <3>2 DEF HdlrsInv, HdlrInv, HasChannel
      <4>3. Commanded(h, x)'
        <5>1. Gives(h, g_chan_nr[h], {"used"})'
          BY <1>2, <1>5, <4>2
        <5> QED  BY <1>2, <1>5, <1>7, <4>1, <4>2, <5>1 DEF Commanded
      <4> QED  BY <4>1, <4>3 DEF Means, RequestMeans, ActivationMeans, ReleaseMeans, IsRequest, IsActivation,
                  IsCommand, IsComplete, IsRelease, Ipa
    <3>3. CASE x = Dr(c, "crcx")
      BY <3>3 DEF Dr, Means, RequestMeans, ActivationMeans, ReleaseMeans, IsRequest, IsActivation,
                  IsCommand, IsComplete, IsRelease
    <3> QED  BY <2>2, <3>1, <3>2, <3>3 DEF Announces
  <2>3. ASSUME NEW u \in Places, NEW x \in Elems(queues'[u]) PROVE Means(u, x)'
    <3>1. Under(x)'
      BY <2>3 DEF Under
    <3> QED  BY <1>1, <1>2, <2>1, <2>2, <2>3, <3>1 DEF MessagesInv
  <2> QED  BY <2>3 DEF MessagesInv
<1> QED  BY <1>4, <1>9, <1>10, <1>11, <1>12

LEMMA ActivatedKeeps ==
  ASSUME OwnInv, NEW m, BscActivated(m), UNCHANGED testcase
  PROVE  OwnInv'
<1> DEFINE c == m.lchan
           h == user[c]
           command == [Dr(g_chan_nr[h], "assign") EXCEPT !.new = c]
           answer == [t |-> "IMM_ASS", ra |-> RaOf[h], lchan |-> c]
           crcx == Dr(c, "crcx")
<1>1. /\ Receive("ACT_ACK", m)
      /\ bsc' = [bsc EXCEPT ![c] = "used"]
      /\ \/ /\ bsc[c] = "imm"
            /\ ipa' = Append(ipa, answer)
            /\ UNCHANGED hoCommand
         \/ /\ bsc[c] = "ass"
            /\ ipa' = ipa \o <<command, crcx>>
            /\ UNCHANGED hoCommand
         \/ /\ bsc[c] = "ho"
            /\ ipa' = Append(ipa, crcx)
            /\ hoCommand' = [hoCommand EXCEPT ![h] = c]
      /\ UNCHANGED user
  BY DEF BscActivated
<1>2. /\ iut # <<>> /\ m = Head(queues[Iut]) /\ iut' = Tail(iut)
      /\ m \in All /\ Means(Iut, m) /\ m.t = "ACT_ACK" /\ QueueTypes
      /\ UNCHANGED <<ConnectionTable, LastActTable, trxMap, WaitingQueue, dchan_suspended,
                     wait_queue_enabled, client, call, inbox, ended, outcome>>
      /\ UNCHANGED <<stage, g_chan_nr, other>>
  BY <1>1, Received
<1>3. c \in Lchans /\ IsActivation(m)
  BY <1>2, Fields DEF IsActivation
<1>4. bsc[c] \in Activating /\ LastActTable[c] = h
  BY <1>2, <1>3 DEF Means, ActivationMeans
<1>5. /\ h \in Hdlrs
      /\ bsc[c] = "imm" => stage[h] = "requested"
      /\ bsc[c] = "ass" => stage[h] = "assigning"
  BY <1>3, <1>4 DEF OwnInv, LchansInv, LchanInv, Activating
<1>6. Gives(h, c, Activating)
  BY <1>3, <1>4 DEF Gives
<1>7. RaOf[h] \in RequestRas
  BY <1>5 DEF RequestRas
<1>8. bsc[c] = "ass" => g_chan_nr[h] \in Lchans
  BY <1>5 DEF OwnInv, HdlrsInv, HdlrInv, HasChannel, Gives
<1> HIDE DEF c, h
<1>9. /\ answer \in FromBsc /\ answer \in All /\ answer.t = "IMM_ASS" /\ answer.ra = RaOf[h]
      /\ crcx \in FromBsc /\ crcx \in All /\ crcx.t = "DR" /\ crcx.what = "crcx"
      /\ g_chan_nr[h] \in Lchans => /\ command \in FromBsc /\ command \in All
                                    /\ command.t = "DR" /\ command.what = "assign"
                                    /\ command.lchan = g_chan_nr[h]
  <2>1. /\ answer \in Answers /\ answer.t = "IMM_ASS" /\ answer.ra = RaOf[h]
        /\ crcx \in Drs /\ crcx.t = "DR" /\ crcx.what = "crcx"
    BY <1>3, <1>7 DEF Answers, Drs, Dr
  <2>2. g_chan_nr[h] \in Lchans => /\ command \in Drs
                                   /\ command.t = "DR" /\ command.what = "assign"
                                   /\ command.lchan = g_chan_nr[h]
    BY <1>3 DEF Drs, Dr
  <2> QED  BY <2>1, <2>2 DEF FromBsc, All
<1>10. \A x : Announces(h, c, x) <=> \/ bsc[c] = "imm" /\ x = answer
                                     \/ bsc[c] = "ass" /\ x = command
                                     \/ x = crcx
  BY DEF Announces
<1> HIDE DEF command, answer, crcx
<1>11. \A x : ~Akin(x, crcx) /\ ~Akin(crcx, x)
  BY <1>9 DEF Akin, IsRequest, IsActivation, IsCommand, IsComplete, IsRelease
<1>12. bsc[c] = "imm" => \A x : Under(x) => ~Akin(x, answer)
  <2> SUFFICES ASSUME bsc[c] = "imm", NEW x, Under(x), Akin(x, answer) PROVE FALSE
    OBVIOUS
  <2>1. IsRequest(x) /\ x.ra = RaOf[h]
    BY <1>9 DEF Akin, IsRequest, IsActivation, IsCommand, IsComplete, IsRelease
  <2>2. PICK u \in Places : Means(u, x)
    BY DEF Under, OwnInv, MessagesInv
  <2> QED  BY <1>5, <1>6, <2>1, <2>2 DEF Means, RequestMeans, Requesting, NoneFor, Gives
<1>13. bsc[c] = "ass" => \A x : Under(x) => ~Akin(x, command)
  <2> SUFFICES ASSUME bsc[c] = "ass", NEW x, Under(x), Akin(x, command) PROVE FALSE
    OBVIOUS
  <2>1. IsCommand(x) /\ x.lchan = g_chan_nr[h]
    BY <1>8, <1>9 DEF Akin, IsRequest, IsActivation, IsCommand, IsComplete, IsRelease
  <2>2. PICK u \in Places : Means(u, x)
    BY DEF Under, OwnInv, MessagesInv
  <2>3. PICK g \in Hdlrs : Commanded(g, x)
    BY <2>1, <2>2 DEF Means
  <2>4. Gives(h, g_chan_nr[h], {"used"})
    BY <1>5 DEF OwnInv, HdlrsInv, HdlrInv, HasChannel
  <2>5. g = h
    BY <2>1, <2>3, <2>4 DEF Commanded, Gives
  <2> QED  BY <1>6, <2>3, <2>5 DEF Commanded, NoneFor, Gives
<1>14. SingleInv
  BY DEF OwnInv
<1>15. ~IsActivation(answer) /\ ~IsActivation(crcx) /\ (bsc[c] = "ass" => ~IsActivation(command))
  BY <1>8, <1>9 DEF IsActivation
<1>16. /\ QueueTypes' /\ SingleInv'
       /\ \A u \in Places : \A x \in Elems(queues'[u]) :
             x \in Elems(queues[u]) \/ (u = Ipa /\ Announces(h, c, x))
       /\ \A x : Under(x)' => ~Akin(m, x)
  <2>1. CASE bsc[c] = "imm"
    <3>1. ipa' = Append(ipa, answer)
      BY <1>1, <2>1
    <3>2. Passes(Iut, Ipa, answer) /\ QueueTypes'
      BY <1>2, <1>9, <3>1, FromIutToIpa
    <3>3. SingleInv' /\ \A x : Under(x)' /\ Akin(m, x) => Akin(answer, x)
      BY <1>2, <1>9, <1>12, <1>14, <2>1, <3>2, SinglePassing, PlacesAre
    <3>4. \A u \in Places : \A x \in Elems(queues'[u]) : x \in Elems(queues[u]) \/ (u = Ipa /\ x = answer)
      BY <1>2, <1>9, <3>2, Passing, PlacesAre
    <3>5. \A x : Akin(m, x) => ~Akin(answer, x)
      BY <1>2, <1>9 DEF Akin, IsRequest, IsActivation, IsCommand, IsComplete, IsRelease
    <3> QED  BY <1>10, <2>1, <3>2, <3>3, <3>4, <3>5
  <2>2. CASE bsc[c] = "ho"
    <3>1. ipa' = Append(ipa, crcx)
      BY <1>1, <2>2
    <3>2. Passes(Iut, Ipa, crcx) /\ QueueTypes'
      BY <1>2, <1>9, <3>1, FromIutToIpa
    <3>3. SingleInv' /\ \A x : Under(x)' /\ Akin(m, x) => Akin(crcx, x)
      BY <1>2, <1>9, <1>11, <1>14, <3>2, SinglePassing, PlacesAre
    <3>4. \A u \in Places : \A x \in Elems(queues'[u]) : x \in Elems(queues[u]) \/ (u = Ipa /\ x = crcx)
      BY <1>2, <1>9, <3>2, Passing, PlacesAre
    <3> QED  BY <1>10, <1>11, <3>2, <3>3, <3>4
  <2>3. CASE bsc[c] = "ass"
    <3>1. ipa' = ipa \o <<command, crcx>>
      BY <1>1, <2>3
    <3>2. PassesTwo(Iut, Ipa, command, crcx) /\ QueueTypes'
      BY <1>2, <1>8, <1>9, <2>3, <3>1, FromIutToIpaTwo
    <3>3. /\ SingleInv'
          /\ \A u \in Places : \A x \in Elems(queues'[u]) :
                x \in Elems(queues[u]) \/ (u = Ipa /\ x \in {command, crcx})
          /\ \A x : Under(x)' /\ Akin(m, x) => Akin(command, x)
      BY <1>2, <1>8, <1>9, <1>11, <1>13, <1>14, <2>3, <3>2, SinglePassingTwo, PlacesAre
    <3>4. \A x : Akin(m, x) => ~Akin(command, x)
      BY <1>2, <1>8, <1>9, <2>3 DEF Akin, IsRequest, IsActivation, IsCommand, IsComplete, IsRelease
    <3> QED  BY <1>10, <2>3, <3>2, <3>3, <3>4
  <2> QED  BY <1>4, <2>1, <2>2, <2>3 DEF Activating
<1>17. \A x : Under(x)' /\ IsActivation(x) => x.lchan # c
  BY <1>3, <1>16 DEF Akin, c
<1>18. InUse(h, c)
  <2>1. /\ bsc' = [bsc EXCEPT ![c] = "used"]
        /\ \/ bsc[c] # "ho" /\ hoCommand' = hoCommand
           \/ bsc[c] = "ho" /\ hoCommand' = [hoCommand EXCEPT ![h] = c]
    BY <1>1
  <2> QED  BY <1>1, <1>2, <1>4, <1>6, <1>16, <1>17, <2>1 DEF InUse
<1>19. Types' /\ HdlrsInv' /\ LchansInv' /\ TableInv' /\ MessagesInv'
  BY <1>3, <1>5, <1>18, InUseKeeps
<1> QED  BY <1>16, <1>19 DEF OwnInv

-----------------------------------------------------------------------------
(* A handler goes on to stage s, with channels a and b, and makes the call k. *)

Moves(h, s, a, b, k) ==
    /\ s \in Stages /\ a \in Lchans \cup {None} /\ b \in Lchans \cup {None} /\ k \in Calls \cup {Idle}
    /\ stage' = [stage EXCEPT ![h] = s]
    /\ g_chan_nr' = [g_chan_nr EXCEPT ![h] = a] /\ other' = [other EXCEPT ![h] = b]
    /\ call' = [call EXCEPT ![h] = k]
    /\ UNCHANGED <<ConnectionTable, LastActTable, trxMap, dchan_suspended, wait_queue_enabled,
                   bsc, user, hoCommand, ended, outcome, testcase>>

\* It does not go back before its assignment, and no activation waits for it where it is.
Lasts(h, s, a, b) ==
    /\ Late(h) => s = "done" \/ (s \in {"active", "clearing"} /\ b # None)
    /\ Late(h) => a = g_chan_nr[h] /\ (stage[h] = "done" => s = "done")
    /\ stage[h] \in {"requested", "assigning", "handover"} => NoneFor(h)

\* No message under way waits for it there.
Leftover(h) == \E x : /\ Under(x)'
                      /\ \/ stage[h] = "requested" /\ IsRequest(x) /\ x.ra = RaOf[h]
                         \/ stage[h] = "assigning" /\ IsCommand(x) /\ x.lchan = g_chan_nr[h]
                         \/ stage[h] = "assigned" /\ IsComplete(x) /\ x.lchan = g_chan_nr[h]

LEMMA MovesIs ==
  ASSUME OwnInv, NEW h \in Hdlrs, NEW s, NEW a, NEW b, NEW k, Moves(h, s, a, b, k)
  PROVE  /\ Types'
         /\ stage'[h] = s /\ g_chan_nr'[h] = a /\ other'[h] = b /\ call'[h] = k
         /\ UNCHANGED <<ConnectionTable, LastActTable, bsc, user, hoCommand>>
         /\ \A g \in Hdlrs : g # h => /\ stage'[g] = stage[g] /\ g_chan_nr'[g] = g_chan_nr[g]
                                      /\ other'[g] = other[g] /\ call'[g] = call[g]
<1>1. /\ Types
      /\ stage \in [Hdlrs -> Stages] /\ call \in [Hdlrs -> Calls \cup {Idle}]
      /\ g_chan_nr \in [Hdlrs -> Lchans \cup {None}] /\ other \in [Hdlrs -> Lchans \cup {None}]
  BY DEF OwnInv, Types
<1>2. /\ s \in Stages /\ a \in Lchans \cup {None} /\ b \in Lchans \cup {None} /\ k \in Calls \cup {Idle}
      /\ stage' = [stage EXCEPT ![h] = s]
      /\ g_chan_nr' = [g_chan_nr EXCEPT ![h] = a] /\ other' = [other EXCEPT ![h] = b]
      /\ call' = [call EXCEPT ![h] = k]
      /\ UNCHANGED <<ConnectionTable, LastActTable, trxMap, dchan_suspended, wait_queue_enabled>>
      /\ UNCHANGED <<bsc, user, hoCommand, ended, outcome, testcase>>
  BY DEF Moves
<1>3. stage'[h] = s /\ g_chan_nr'[h] = a /\ other'[h] = b /\ call'[h] = k
  BY <1>1, <1>2
<1>4. \A g \in Hdlrs : g # h => /\ stage'[g] = stage[g] /\ g_chan_nr'[g] = g_chan_nr[g]
                                /\ other'[g] = other[g] /\ call'[g] = call[g]
  BY <1>1, <1>2
<1>5. /\ stage' \in [Hdlrs -> Stages] /\ call' \in [Hdlrs -> Calls \cup {Idle}]
      /\ g_chan_nr' \in [Hdlrs -> Lchans \cup {None}] /\ other' \in [Hdlrs -> Lchans \cup {None}]
  BY <1>1, <1>2
<1>6. Types'
  BY <1>1, <1>2, <1>5 DEF Types, trxMap
<1> QED  BY <1>2, <1>3, <1>4, <1>6

LEMMA MovesKeep ==
  ASSUME OwnInv, NEW h \in Hdlrs, NEW s, NEW a, NEW b, NEW k, Moves(h, s, a, b, k),
         Lasts(h, s, a, b), ~Leftover(h),
         HdlrInv(h)', QueueTypes', SingleInv',
         \A u \in Places : \A x \in Elems(queues'[u]) : x \in Elems(queues[u]) \/ Means(u, x)'
  PROVE  OwnInv'
<1>1. /\ Types'
      /\ stage'[h] = s /\ g_chan_nr'[h] = a /\ other'[h] = b /\ call'[h] = k
      /\ UNCHANGED <<ConnectionTable, LastActTable, bsc, user, hoCommand>>
      /\ \A g \in Hdlrs : g # h => /\ stage'[g] = stage[g] /\ g_chan_nr'[g] = g_chan_nr[g]
                                   /\ other'[g] = other[g] /\ call'[g] = call[g]
  BY MovesIs
<1>2. HdlrsInv /\ LchansInv /\ TableInv /\ MessagesInv /\ QueueTypes /\ Types
  BY DEF OwnInv
<1>3. /\ \A g, d, t : Gives(g, d, t)' <=> Gives(g, d, t)
      /\ \A g : NoneFor(g)' <=> NoneFor(g)
  BY <1>1 DEF Gives, NoneFor, Activating
<1>4. \A g \in Hdlrs : Late(g) => /\ Late(g)'
                                  /\ g_chan_nr'[g] = g_chan_nr[g]
                                  /\ stage[g] = "done" => stage'[g] = "done"
  BY <1>1 DEF Late, Lasts
<1>5. HdlrsInv'
  <2>1. ASSUME NEW g \in Hdlrs, g # h PROVE HdlrInv(g)'
    <3>1. HdlrInv(g)
      BY <1>2 DEF HdlrsInv
    <3>2. /\ stage'[g] = stage[g] /\ g_chan_nr'[g] = g_chan_nr[g]
          /\ other'[g] = other[g] /\ call'[g] = call[g] /\ hoCommand'[g] = hoCommand[g]
      BY <1>1, <2>1
    <3> QED  BY <1>3, <3>1, <3>2 DEF HdlrInv
  <2> QED  BY <2>1 DEF HdlrsInv
<1>6. LchansInv'
  <2> SUFFICES ASSUME NEW d \in Lchans PROVE LchanInv(d)'
    BY DEF LchansInv
  <2>1. LchanInv(d) /\ UNCHANGED <<bsc, user, LastActTable>>
    BY <1>1, <1>2 DEF LchansInv
  <2>2. bsc[d] \in Activating => user[d] \in Hdlrs /\ stage'[user[d]] = stage[user[d]]
    <3>1. ASSUME bsc[d] \in Activating, user[d] = h PROVE FALSE
      <4>1. stage[h] \in {"requested", "assigning", "handover"}
        BY <2>1, <3>1 DEF LchanInv, Activating
      <4>2. NoneFor(h)
        BY <4>1 DEF Lasts
      <4> QED  BY <3>1, <4>2 DEF NoneFor, Gives
    <3>2. bsc[d] \in Activating => user[d] \in Hdlrs
      BY <2>1 DEF LchanInv, Activating
    <3> QED  BY <1>1, <3>1, <3>2
  <2> QED  BY <2>1, <2>2 DEF LchanInv, Activating
<1>7. TableInv'
  <2> SUFFICES ASSUME NEW i \in 1 .. Slots PROVE EntryInv(ConnectionTable[i])'
    BY DEF TableInv
  <2>1. /\ EntryInv(ConnectionTable[i]) /\ ConnectionTable' = ConnectionTable
        /\ ConnectionTable[i].lchan # None => ConnectionTable[i].comp \in Hdlrs
    BY <1>1, <1>2 DEF TableInv, Types, Entries, Owned
  <2> QED  BY <1>3, <1>4, <2>1 DEF EntryInv
<1>8. MessagesInv'
  <2>1. ASSUME NEW u \in Places, NEW x \in Elems(queues[u]), Means(u, x), Under(x)' PROVE Means(u, x)'
    <3>0. x \in All /\ UNCHANGED <<bsc, user, LastActTable>>
      BY <1>1, <1>2, <2>1, UnderWay DEF Under
    <3>1. RequestMeans(u, x)'
      <4>1. ASSUME IsRequest(x), NEW g \in Hdlrs, RaOf[g] = x.ra, Requesting(g) PROVE Requesting(g)'
        <5>1. g # h
          BY <2>1, <4>1 DEF Leftover, Requesting
        <5> QED  BY <1>1, <1>3, <4>1, <5>1 DEF Requesting
      <4> QED  BY <1>3, <2>1, <4>1 DEF Means, RequestMeans, IsRequest
    <3>2. ActivationMeans(x)'
      BY <2>1, <3>0 DEF Means, ActivationMeans, IsActivation, Activating
    <3>3. ReleaseMeans(x)'
      <4>1. x.t = "REL_ACK" => user[x.lchan] \in Hdlrs
        BY <1>2, <2>1, <3>0, Fields DEF Means, ReleaseMeans, IsRelease, LchansInv, LchanInv
      <4> QED  BY <1>4, <2>1, <3>0, <4>1 DEF Means, ReleaseMeans, IsRelease
    <3>4. IsCommand(x) => \E g \in Hdlrs : Commanded(g, x)'
      <4> SUFFICES ASSUME IsCommand(x) PROVE \E g \in Hdlrs : Commanded(g, x)'
        OBVIOUS
      <4>1. PICK g \in Hdlrs : Commanded(g, x)
        BY <2>1 DEF Means
      <4>2. g # h
        BY <2>1, <4>1 DEF Leftover, Commanded
      <4> QED  BY <1>1, <1>3, <4>1, <4>2 DEF Commanded
    <3>5. IsComplete(x) => \E g \in Hdlrs : Completing(g, x)'
      <4> SUFFICES ASSUME IsComplete(x) PROVE \E g \in Hdlrs : Completing(g, x)'
        OBVIOUS
      <4>1. PICK g \in Hdlrs : Completing(g, x)
        BY <2>1 DEF Means
      <4>2. g # h
        BY <2>1, <4>1 DEF Leftover, Completing
      <4>3. stage'[g] = stage[g] /\ g_chan_nr'[g] = g_chan_nr[g] /\ other'[g] = other[g]
        BY <1>1, <4>2
      <4> QED  BY <1>3, <4>1, <4>3 DEF Completing
    <3>6. (IsCommand(x) \/ IsRelease(x)) /\ u[1] = "inbox" => user'[x.lchan] = u[2] \/ Late(u[2])'
      <4>1. u[1] = "inbox" => u[2] \in Hdlrs
        BY DEF Places
      <4> QED  BY <1>4, <2>1, <3>0, <4>1 DEF Means
    <3> QED  BY <3>1, <3>2, <3>3, <3>4, <3>5, <3>6 DEF Means
  <2>2. ASSUME NEW u \in Places, NEW x \in Elems(queues'[u]) PROVE Means(u, x)'
    <3>1. Under(x)'
      BY <2>2 DEF Under
    <3> QED  BY <1>2, <2>1, <2>2, <3>1 DEF MessagesInv
  <2> QED  BY <2>2 DEF MessagesInv
<1> QED  BY <1>1, <1>5, <1>6, <1>7, <1>8 DEF OwnInv

\* What the actions of the handlers have in common
Goes(h, f, s, a, b, k) ==
    /\ Step(h, f, s) /\ Quiet /\ UNCHANGED testcase
    /\ s \in Stages /\ a \in Lchans \cup {None} /\ b \in Lchans \cup {None} /\ k \in Calls \cup {Idle}
    /\ g_chan_nr' = [g_chan_nr EXCEPT ![h] = a] \/ (a = g_chan_nr[h] /\ g_chan_nr' = g_chan_nr)
    /\ other' = [other EXCEPT ![h] = b] \/ (b = other[h] /\ other' = other)
    /\ call' = [call EXCEPT ![h] = k] \/ (k = call[h] /\ call' = call)

LEMMA GoesMoves ==
  ASSUME OwnInv, NEW h \in Hdlrs, NEW f, NEW s, NEW a, NEW b, NEW k, Goes(h, f, s, a, b, k)
  PROVE  /\ Moves(h, s, a, b, k)
         /\ stage[h] = f /\ call[h] = Idle
         /\ UNCHANGED <<ipa, WaitingQueue, iut>>
         /\ QueueTypes /\ SingleInv /\ HdlrInv(h)
         /\ stage'[h] = s /\ g_chan_nr'[h] = a /\ other'[h] = b /\ call'[h] = k
         /\ UNCHANGED <<bsc, user, hoCommand>>
<1>1. /\ Step(h, f, s) /\ UNCHANGED <<ipa, bsc, user, hoCommand, testcase>>
      /\ s \in Stages /\ a \in Lchans \cup {None} /\ b \in Lchans \cup {None} /\ k \in Calls \cup {Idle}
      /\ g_chan_nr' = [g_chan_nr EXCEPT ![h] = a] \/ (a = g_chan_nr[h] /\ g_chan_nr' = g_chan_nr)
      /\ other' = [other EXCEPT ![h] = b] \/ (b = other[h] /\ other' = other)
      /\ call' = [call EXCEPT ![h] = k] \/ (k = call[h] /\ call' = call)
  BY DEF Goes, Quiet, bscVars
<1>2. /\ stage[h] = f /\ stage' = [stage EXCEPT ![h] = s]
      /\ call[h] = Idle
      /\ UNCHANGED <<ConnectionTable, LastActTable, trxMap, WaitingQueue, dchan_suspended,
                     wait_queue_enabled, iut, ended, outcome>>
      /\ QueueTypes
  BY <1>1, Stepped
<1>3. /\ g_chan_nr \in [Hdlrs -> Lchans \cup {None}] /\ other \in [Hdlrs -> Lchans \cup {None}]
      /\ call \in [Hdlrs -> Calls \cup {Idle}]
      /\ SingleInv /\ HdlrInv(h)
  BY DEF OwnInv, Types, HdlrsInv
<1>4. g_chan_nr' = [g_chan_nr EXCEPT ![h] = a]
  BY <1>1, <1>3
<1>5. other' = [other EXCEPT ![h] = b]
  BY <1>1, <1>3
<1>6. call' = [call EXCEPT ![h] = k]
  BY <1>1, <1>3
<1>7. UNCHANGED <<ConnectionTable, LastActTable, trxMap, dchan_suspended, wait_queue_enabled,
                  bsc, user, hoCommand, ended, outcome, testcase>>
  BY <1>1, <1>2
<1>8. Moves(h, s, a, b, k)
  BY <1>1, <1>2, <1>4, <1>5, <1>6, <1>7 DEF Moves
<1>9. stage'[h] = s /\ g_chan_nr'[h] = a /\ other'[h] = b /\ call'[h] = k
  BY <1>8, MovesIs
<1> QED  BY <1>1, <1>2, <1>3, <1>8, <1>9

\* The four ways to go on: a message is sent, or taken, or answered, or none of these.
LEMMA MovesQuietly ==
  ASSUME OwnInv, NEW h \in Hdlrs, NEW f, NEW s, NEW a, NEW b, NEW k, Goes(h, f, s, a, b, k),
         UNCHANGED <<client, inbox>>,
         Lasts(h, s, a, b), HdlrInv(h)', f \notin {"requested", "assigning", "assigned"}
  PROVE  OwnInv'
<1>1. /\ Moves(h, s, a, b, k) /\ stage[h] = f /\ UNCHANGED <<ipa, WaitingQueue, iut>>
      /\ QueueTypes /\ SingleInv
  BY GoesMoves
<1>2. QueueTypes'
  BY <1>1 DEF QueueTypes
<1>3. queues' = queues
  BY <1>1, Zenon DEF queues
<1>4. SingleInv'
  BY <1>1, <1>3 DEF SingleInv
<1>5. ~Leftover(h)
  BY <1>1 DEF Leftover
<1>6. \A u \in Places : \A x \in Elems(queues'[u]) : x \in Elems(queues[u]) \/ Means(u, x)'
  BY <1>3
<1> QED  BY <1>1, <1>2, <1>4, <1>5, <1>6, MovesKeep

LEMMA MovesSending ==
  ASSUME OwnInv, NEW h \in Hdlrs, NEW f, NEW s, NEW a, NEW b, NEW k, Goes(h, f, s, a, b, k),
         NEW n \in FromHdlrs, Sends(h, n), UNCHANGED inbox,
         \A x : Under(x) => ~Akin(x, n), Means(ClientOf(h), n)',
         Lasts(h, s, a, b), HdlrInv(h)', f \notin {"requested", "assigning", "assigned"}
  PROVE  OwnInv'
<1>1. /\ Moves(h, s, a, b, k) /\ stage[h] = f /\ UNCHANGED <<ipa, WaitingQueue, iut>>
      /\ QueueTypes /\ SingleInv
  BY GoesMoves
<1>2. n \in All
  BY DEF All
<1>3. Arrives(ClientOf(h), n) /\ QueueTypes'
  BY <1>1, IntoClient DEF Sends
<1>4. /\ \A u \in Places : \A x \in Elems(queues'[u]) : x \in Elems(queues[u]) \/ (u = ClientOf(h) /\ x = n)
  BY <1>1, <1>2, <1>3, Arrival, PlacesAre
<1>5. SingleInv'
  BY <1>1, <1>2, <1>3, SingleArrival, PlacesAre
<1>6. ~Leftover(h)
  BY <1>1 DEF Leftover
<1>7. \A u \in Places : \A x \in Elems(queues'[u]) : x \in Elems(queues[u]) \/ Means(u, x)'
  BY <1>4
<1> QED  BY <1>1, <1>3, <1>5, <1>6, <1>7, MovesKeep

LEMMA MovesTaking ==
  ASSUME OwnInv, NEW h \in Hdlrs, NEW f, NEW s, NEW a, NEW b, NEW k, Goes(h, f, s, a, b, k),
         NEW m, Reads(h, m), UNCHANGED client,
         f = "requested" => IsRequest(m) /\ m.ra = RaOf[h],
         f = "assigning" => IsCommand(m) /\ m.lchan = g_chan_nr[h],
         f # "assigned", Lasts(h, s, a, b), HdlrInv(h)'
  PROVE  OwnInv'
<1>1. /\ Moves(h, s, a, b, k) /\ stage[h] = f /\ UNCHANGED <<ipa, WaitingQueue, iut>>
      /\ QueueTypes /\ SingleInv
  BY GoesMoves
<1>2. inbox[h] # <<>> /\ m = Head(inbox[h]) /\ inbox' = [inbox EXCEPT ![h] = Tail(@)]
  BY DEF Reads
<1>3. Leaves(InboxOf(h)) /\ QueueTypes'
  BY <1>1, <1>2, OutOfInbox
<1>4. m = Head(queues[InboxOf(h)])
  BY <1>2, QueuesAre DEF queues
<1>5. SingleInv' /\ \A x : Under(x)' => ~Akin(m, x)
  BY <1>1, <1>3, <1>4, SingleLeaving, PlacesAre
<1>6. \A u \in Places : \A x \in Elems(queues'[u]) : x \in Elems(queues[u])
  BY <1>1, <1>3, Leaving, PlacesAre
<1>7. ~Leftover(h)
  BY <1>1, <1>5 DEF Leftover, Akin
<1>8. \A u \in Places : \A x \in Elems(queues'[u]) : x \in Elems(queues[u]) \/ Means(u, x)'
  BY <1>6
<1> QED  BY <1>1, <1>3, <1>5, <1>7, <1>8, MovesKeep

LEMMA MovesAnswering ==
  ASSUME OwnInv, NEW h \in Hdlrs, NEW f, NEW s, NEW a, NEW b, NEW k, Goes(h, f, s, a, b, k),
         NEW m, Reads(h, m), NEW n \in FromHdlrs, Sends(h, n),
         Akin(m, n) \/ \A x : Under(x) => ~Akin(x, n),
         Means(ClientOf(h), n)',
         f = "requested" => IsRequest(m) /\ m.ra = RaOf[h] /\ \A x : ~Akin(n, x),
         f = "assigned" => /\ ~IsComplete(n)
                           /\ \A x : Under(x) /\ IsComplete(x) => x.lchan # g_chan_nr[h],
         f # "assigning", Lasts(h, s, a, b), HdlrInv(h)'
  PROVE  OwnInv'
<1>1. /\ Moves(h, s, a, b, k) /\ stage[h] = f /\ UNCHANGED <<ipa, WaitingQueue, iut>>
      /\ QueueTypes /\ SingleInv
  BY GoesMoves
<1>2. inbox[h] # <<>> /\ m = Head(inbox[h]) /\ inbox' = [inbox EXCEPT ![h] = Tail(@)]
  BY DEF Reads
<1>3. n \in All
  BY DEF All
<1>4. Passes(InboxOf(h), ClientOf(h), n) /\ QueueTypes'
  BY <1>1, <1>2, FromInboxToClient DEF Sends
<1>5. m = Head(queues[InboxOf(h)])
  BY <1>2, QueuesAre DEF queues
<1>6. SingleInv' /\ \A x : Under(x)' /\ Akin(m, x) => Akin(n, x)
  BY <1>1, <1>3, <1>4, <1>5, SinglePassing, PlacesAre
<1>7. \A u \in Places : \A x \in Elems(queues'[u]) : x \in Elems(queues[u]) \/ (u = ClientOf(h) /\ x = n)
  BY <1>1, <1>3, <1>4, Passing, PlacesAre
<1>8. \A x : Under(x)' => Under(x) \/ x = n
  BY <1>7 DEF Under
<1>9. ~Leftover(h)
  <2>1. ASSUME NEW x, Under(x)', f = "requested", IsRequest(x) PROVE x.ra # RaOf[h]
    BY <1>6, <2>1 DEF Akin
  <2> QED  BY <1>1, <1>8, <2>1 DEF Leftover
<1>10. \A u \in Places : \A x \in Elems(queues'[u]) : x \in Elems(queues[u]) \/ Means(u, x)'
  BY <1>7
<1> QED  BY <1>1, <1>4, <1>6, <1>9, <1>10, MovesKeep

\* Where no message is read or sent.
LEMMA QuietKeeps ==
  ASSUME OwnInv, NEW h \in Hdlrs, UNCHANGED testcase,
         EnableQueue(h) \/ DispatchQueue(h) \/ SuspendDispatch(h) \/ HandoverCommand(h) \/ ResumeDispatch(h)
  PROVE  OwnInv'
<1>1. /\ HdlrInv(h) /\ g_chan_nr[h] \in Lchans \cup {None} /\ other[h] \in Lchans \cup {None}
      /\ hoCommand[h] \in Lchans \cup {None}
  BY DEF OwnInv, HdlrsInv, Types
<1>2. /\ \A op \in Ops, c \in Lchans \cup {None} : [op |-> op, lchan |-> c] \in Calls \cup {Idle}
      /\ {"queueing", "dispatching", "suspending", "entering", "resuming"} \subseteq Stages
      /\ {"enable", "dispatch", "suspend", "register", "resume"} \subseteq Ops
  BY DEF Calls, Ops, Stages
<1>3. ASSUME NEW f \in {"active", "registering", "idle", "handover", "entering"},
             NEW s \in {"queueing", "dispatching", "suspending", "entering", "resuming"},
             NEW a, NEW k, Goes(h, f, s, a, other[h], k), UNCHANGED <<client, inbox>>,
             f = "active" => s = "queueing" /\ other[h] = None /\ a = g_chan_nr[h] /\ k.op = "enable",
             f = "registering" => s = "dispatching" /\ a = g_chan_nr[h] /\ k.op = "dispatch",
             f = "idle" => s = "suspending" /\ a = g_chan_nr[h] /\ k.op = "suspend",
             f = "handover" => s = "entering" /\ hoCommand[h] # None /\ a = hoCommand[h]
                               /\ k = [op |-> "register", lchan |-> hoCommand[h]],
             f = "entering" => s = "resuming" /\ a = g_chan_nr[h] /\ k.op = "resume"
      PROVE  OwnInv'
  <2>1. /\ stage[h] = f
        /\ stage'[h] = s /\ g_chan_nr'[h] = a /\ other'[h] = other[h] /\ call'[h] = k
        /\ UNCHANGED <<bsc, user, hoCommand>>
    BY <1>3, GoesMoves
  <2>2. Lasts(h, s, a, other[h])
    BY <1>1, <1>3, <2>1 DEF Lasts, Late, HdlrInv
  <2>3. /\ \A g, d, t : Gives(g, d, t)' <=> Gives(g, d, t)
        /\ \A g : NoneFor(g)' <=> NoneFor(g)
    BY <2>1 DEF Gives, NoneFor, Activating
  <2>4. HdlrInv(h)'
    <3>1. CASE f = "handover"
      BY <1>1, <1>3, <2>1, <2>3, <3>1 DEF HdlrInv, HasChannel
    <3>2. CASE f # "handover"
      BY <1>1, <1>3, <2>1, <2>3, <3>2 DEF HdlrInv, HasChannel
    <3> QED  BY <3>1, <3>2
  <2> QED  BY <1>3, <2>2, <2>4, MovesQuietly
<1>4. CASE EnableQueue(h)
  <2> DEFINE k == [op |-> "enable", lchan |-> None]
  <2>1. k \in Calls \cup {Idle} /\ k.op = "enable"
    BY <1>2
  <2>2. /\ Step(h, "active", "queueing") /\ Quiet /\ call' = [call EXCEPT ![h] = k]
        /\ UNCHANGED <<g_chan_nr, other, client, inbox>> /\ other[h] = None
    BY <1>4 DEF EnableQueue, Asks
  <2> HIDE DEF k
  <2>3. Goes(h, "active", "queueing", g_chan_nr[h], other[h], k)
    BY <1>1, <1>2, <2>1, <2>2 DEF Goes
  <2> QED  BY <1>3, <2>1, <2>2, <2>3
<1>5. CASE DispatchQueue(h)
  <2> DEFINE k == [op |-> "dispatch", lchan |-> None]
  <2>1. k \in Calls \cup {Idle} /\ k.op = "dispatch"
    BY <1>2
  <2>2. /\ Step(h, "registering", "dispatching") /\ Quiet /\ call' = [call EXCEPT ![h] = k]
        /\ UNCHANGED <<g_chan_nr, other, client, inbox>>
    BY <1>5 DEF DispatchQueue, Asks
  <2> HIDE DEF k
  <2>3. Goes(h, "registering", "dispatching", g_chan_nr[h], other[h], k)
    BY <1>1, <1>2, <2>1, <2>2 DEF Goes
  <2> QED  BY <1>3, <2>1, <2>2, <2>3
<1>6. CASE SuspendDispatch(h)
  <2> DEFINE k == [op |-> "suspend", lchan |-> None]
  <2>1. k \in Calls \cup {Idle} /\ k.op = "suspend"
    BY <1>2
  <2>2. /\ Step(h, "idle", "suspending") /\ Quiet /\ call' = [call EXCEPT ![h] = k]
        /\ UNCHANGED <<g_chan_nr, other, client, inbox>>
    BY <1>6 DEF SuspendDispatch, Asks
  <2> HIDE DEF k
  <2>3. Goes(h, "idle", "suspending", g_chan_nr[h], other[h], k)
    BY <1>1, <1>2, <2>1, <2>2 DEF Goes
  <2> QED  BY <1>3, <2>1, <2>2, <2>3
<1>7. CASE HandoverCommand(h)
  <2> DEFINE k == [op |-> "register", lchan |-> hoCommand[h]]
  <2>1. k \in Calls \cup {Idle}
    BY <1>1, <1>2
  <2>2. /\ Step(h, "handover", "entering") /\ Quiet /\ call' = [call EXCEPT ![h] = k]
        /\ g_chan_nr' = [g_chan_nr EXCEPT ![h] = hoCommand[h]]
        /\ UNCHANGED <<other, client, inbox>> /\ hoCommand[h] # None
    BY <1>7 DEF HandoverCommand, Asks
  <2>3. Goes(h, "handover", "entering", hoCommand[h], other[h], k)
    BY <1>1, <1>2, <2>1, <2>2 DEF Goes
  <2>4. k = [op |-> "register", lchan |-> hoCommand[h]]
    OBVIOUS
  <2> HIDE DEF k
  <2> QED  BY <1>3, <2>2, <2>3, <2>4
<1>8. CASE ResumeDispatch(h)
  <2> DEFINE k == [op |-> "resume", lchan |-> None]
  <2>1. k \in Calls \cup {Idle} /\ k.op = "resume"
    BY <1>2
  <2>2. /\ Step(h, "entering", "resuming") /\ Quiet /\ call' = [call EXCEPT ![h] = k]
        /\ UNCHANGED <<g_chan_nr, other, client, inbox>>
    BY <1>8 DEF ResumeDispatch, Asks
  <2> HIDE DEF k
  <2>3. Goes(h, "entering", "resuming", g_chan_nr[h], other[h], k)
    BY <1>1, <1>2, <2>1, <2>2 DEF Goes
  <2> QED  BY <1>3, <2>1, <2>2, <2>3
<1> QED  BY <1>4, <1>5, <1>6, <1>7, <1>8

\* What a handler reads is a message for it.
LEMMA ReadsIs ==
  ASSUME OwnInv, NEW h \in Hdlrs, NEW m, Reads(h, m)
  PROVE  m \in All /\ Under(m) /\ Means(InboxOf(h), m)
<1>1. queues[InboxOf(h)] = inbox[h] /\ inbox[h] # <<>> /\ m = Head(inbox[h])
  BY QueuesAre DEF Reads, queues
<1> QED  BY <1>1, HeadMeans, PlacesAre

LEMMA RequestChannelKeeps ==
  ASSUME OwnInv, NEW h \in Hdlrs, RequestChannel(h), UNCHANGED testcase
  PROVE  OwnInv'
<1> DEFINE n == [t |-> "RQD", ra |-> RaOf[h]]
<1>1. /\ Step(h, "idle", "requested") /\ Sends(h, n) /\ Quiet
      /\ UNCHANGED <<g_chan_nr, other, call, inbox>>
  BY DEF RequestChannel
<1>2. n \in FromHdlrs /\ n.t = "RQD" /\ n.ra = RaOf[h]
  BY DEF FromHdlrs, Rqds, RequestRas
<1> HIDE DEF n
<1>3. /\ g_chan_nr[h] \in Lchans \cup {None} /\ other[h] \in Lchans \cup {None}
      /\ call[h] \in Calls \cup {Idle}
  BY DEF OwnInv, Types
<1>4. Goes(h, "idle", "requested", g_chan_nr[h], other[h], call[h])
  BY <1>1, <1>3 DEF Goes, Stages
<1>5. /\ stage[h] = "idle" /\ call[h] = Idle
      /\ stage'[h] = "requested" /\ call'[h] = call[h]
      /\ UNCHANGED <<bsc, user, hoCommand>>
  BY <1>4, GoesMoves
<1>6. NoneFor(h)
  BY <1>5, NoneGiven
<1>7. \A g \in Hdlrs : RaOf[g] = RaOf[h] => g = h
  BY RSLBscAssumption
<1>8. \A x : Under(x) => ~Akin(x, n)
  <2> SUFFICES ASSUME NEW x, Under(x), Akin(x, n) PROVE FALSE
    OBVIOUS
  <2>1. IsRequest(x) /\ x.ra = RaOf[h]
    BY <1>2 DEF Akin, IsRequest, IsActivation, IsCommand, IsComplete, IsRelease
  <2>2. PICK u \in Places : Means(u, x)
    BY DEF Under, OwnInv, MessagesInv
  <2> QED  BY <1>5, <2>1, <2>2 DEF Means, RequestMeans, Requesting
<1>9. Means(ClientOf(h), n)'
  <2>1. Requesting(h)'
    BY <1>5, <1>6 DEF Requesting, NoneFor, Gives, Activating
  <2>2. RequestMeans(ClientOf(h), n)'
    BY <1>2, <1>7, <2>1 DEF RequestMeans, ClientOf
  <2> QED  BY <1>2, <2>2 DEF Means, ActivationMeans, ReleaseMeans, IsActivation, IsCommand, IsComplete, IsRelease
<1>10. HdlrInv(h)'
  BY <1>5 DEF HdlrInv, HasChannel, Idle
<1>11. Lasts(h, "requested", g_chan_nr[h], other[h])
  BY <1>5 DEF Lasts, Late
<1> QED  BY <1>1, <1>2, <1>4, <1>8, <1>9, <1>10, <1>11, MovesSending

LEMMA CompleteAssignmentKeeps ==
  ASSUME OwnInv, NEW h \in Hdlrs, CompleteAssignment(h), UNCHANGED testcase
  PROVE  OwnInv'
<1>0. PICK n : n = [t |-> "ASS_CMPL", lchan |-> other[h]]
  OBVIOUS
<1> DEFINE k == [op |-> "last", lchan |-> other[h]]
<1>1. /\ Step(h, "dispatching", "assigned") /\ Sends(h, n) /\ Quiet
      /\ g_chan_nr' = [g_chan_nr EXCEPT ![h] = other[h]]
      /\ other' = [other EXCEPT ![h] = g_chan_nr[h]]
      /\ call' = [call EXCEPT ![h] = k]
      /\ UNCHANGED inbox
  BY <1>0 DEF CompleteAssignment, Asks
<1>2. stage[h] = "dispatching" /\ HdlrInv(h)
  BY <1>1, Stepped DEF OwnInv, HdlrsInv
<1>3. Gives(h, other[h], {"used"}) /\ Gives(h, g_chan_nr[h], {"used"})
  BY <1>2 DEF HdlrInv, HasChannel
<1>4. other[h] \in Lchans /\ g_chan_nr[h] \in Lchans
  BY <1>3 DEF Gives
<1>5. /\ n \in FromHdlrs /\ n.t = "ASS_CMPL" /\ n.lchan = other[h]
      /\ k \in Calls /\ k.op = "last" /\ k.lchan = other[h]
  BY <1>0, <1>4 DEF FromHdlrs, Calls, Ops
<1> HIDE DEF k
<1>6. Goes(h, "dispatching", "assigned", other[h], g_chan_nr[h], k)
  BY <1>1, <1>4, <1>5 DEF Goes, Stages
<1>7. /\ stage'[h] = "assigned" /\ call'[h] = k /\ g_chan_nr'[h] = other[h] /\ other'[h] = g_chan_nr[h]
      /\ UNCHANGED <<bsc, user, hoCommand>>
  BY <1>6, GoesMoves
<1>8. \A d, t : Gives(h, d, t)' <=> Gives(h, d, t)
  BY <1>7 DEF Gives
<1>9. \A x : Under(x) => ~Akin(x, n)
  <2> SUFFICES ASSUME NEW x, Under(x), Akin(x, n) PROVE FALSE
    OBVIOUS
  <2>1. IsComplete(x) /\ x.lchan = other[h]
    BY <1>5 DEF Akin, IsRequest, IsActivation, IsCommand, IsComplete, IsRelease
  <2>2. PICK u \in Places : Means(u, x)
    BY DEF Under, OwnInv, MessagesInv
  <2>3. PICK g \in Hdlrs : Completing(g, x)
    BY <2>1, <2>2 DEF Means
  <2>4. stage[g] = "assigned" /\ Gives(g, other[h], {"used"})
    BY <2>1, <2>3 DEF Completing, OwnInv, HdlrsInv, HdlrInv, HasChannel
  <2> QED  BY <1>2, <1>3, <2>4 DEF Gives
<1>10. Means(ClientOf(h), n)'
  <2>1. Completing(h, n)'
    BY <1>3, <1>5, <1>7, <1>8 DEF Completing
  <2> QED  BY <1>5, <2>1 DEF Means, RequestMeans, ActivationMeans, ReleaseMeans, IsRequest, IsActivation,
              IsCommand, IsRelease
<1>11. HdlrInv(h)'
  <2>1. Gives(h, other[h], {"used", "rel"})'
    BY <1>3, <1>7, <1>8 DEF Gives
  <2> QED  BY <1>3, <1>5, <1>7, <1>8, <2>1 DEF HdlrInv, HasChannel
<1>12. Lasts(h, "assigned", other[h], g_chan_nr[h])
  BY <1>2 DEF Lasts, Late
<1> QED  BY <1>1, <1>5, <1>6, <1>9, <1>10, <1>11, <1>12, MovesSending

LEMMA CompleteHandoverKeeps ==
  ASSUME OwnInv, NEW h \in Hdlrs, CompleteHandover(h), UNCHANGED testcase
  PROVE  OwnInv'
<1>0. PICK n : n = [t |-> "EST", lchan |-> g_chan_nr[h]]
  OBVIOUS
<1>1. /\ Step(h, "resuming", "active") /\ Sends(h, n) /\ Quiet
      /\ UNCHANGED <<g_chan_nr, other, call, inbox>>
  BY <1>0 DEF CompleteHandover
<1>2. stage[h] = "resuming" /\ HdlrInv(h)
  BY <1>1, Stepped DEF OwnInv, HdlrsInv
<1>3. Gives(h, g_chan_nr[h], {"used"})
  BY <1>2 DEF HdlrInv, HasChannel
<1>4. /\ g_chan_nr[h] \in Lchans /\ other[h] \in Lchans \cup {None}
      /\ call[h] \in Calls \cup {Idle}
  BY <1>3 DEF Gives, OwnInv, Types
<1>5. n \in FromHdlrs /\ n.t = "EST"
  BY <1>0, <1>4 DEF FromHdlrs
<1>6. Goes(h, "resuming", "active", g_chan_nr[h], other[h], call[h])
  BY <1>1, <1>4 DEF Goes, Stages
<1>7. /\ stage'[h] = "active" /\ call'[h] = Idle /\ g_chan_nr'[h] = g_chan_nr[h]
      /\ UNCHANGED <<bsc, user, hoCommand>>
  BY <1>6, GoesMoves
<1>8. ~IsRequest(n) /\ ~IsActivation(n) /\ ~IsCommand(n) /\ ~IsComplete(n) /\ ~IsRelease(n)
  BY <1>5 DEF IsRequest, IsActivation, IsCommand, IsComplete, IsRelease
<1>9. (\A x : ~Akin(x, n)) /\ Means(ClientOf(h), n)'
  <2>1. Means(ClientOf(h), n)'
    BY <1>5 DEF Means, RequestMeans, ActivationMeans, ReleaseMeans, IsRequest, IsActivation,
                IsCommand, IsComplete, IsRelease
  <2> QED  BY <1>8, <2>1 DEF Akin
<1>10. HdlrInv(h)'
  BY <1>3, <1>7 DEF HdlrInv, HasChannel, Gives, Idle
<1>11. Lasts(h, "active", g_chan_nr[h], other[h])
  BY <1>2 DEF Lasts, Late
<1> QED  BY <1>1, <1>5, <1>6, <1>9, <1>10, <1>11, MovesSending

\* The answer that a handler reads is to its own request.
LEMMA AnswerIs ==
  ASSUME OwnInv, NEW h \in Hdlrs, NEW m, Reads(h, m), m.t \in {"IMM_ASS", "IMM_REJ"}
  PROVE  /\ IsRequest(m) /\ m.ra = RaOf[h] /\ Requesting(h)
         /\ m.t = "IMM_ASS" => m.lchan \in Lchans /\ Gives(h, m.lchan, {"used"})
<1>1. m \in All /\ Means(InboxOf(h), m)
  BY ReadsIs
<1>2. IsRequest(m) /\ m.ra \in RequestRas
  BY <1>1, Fields DEF IsRequest
<1>3. PICK g \in Hdlrs : RaOf[g] = m.ra
  BY <1>2 DEF RequestRas
<1>4. /\ Requesting(g) /\ g = h
      /\ m.t = "IMM_ASS" => Gives(g, m.lchan, {"used"})
  BY <1>1, <1>2, <1>3 DEF Means, RequestMeans, InboxOf
<1> QED  BY <1>2, <1>3, <1>4 DEF Gives

LEMMA ChannelRejectedKeeps ==
  ASSUME OwnInv, NEW h \in Hdlrs, ChannelRejected(h), UNCHANGED testcase
  PROVE  OwnInv'
<1>1. PICK m : /\ Step(h, "requested", "done") /\ Reads(h, m) /\ m.t = "IMM_REJ" /\ Quiet
               /\ UNCHANGED <<g_chan_nr, other, client, call>>
  BY DEF ChannelRejected
<1>2. /\ g_chan_nr[h] \in Lchans \cup {None} /\ other[h] \in Lchans \cup {None}
      /\ call[h] \in Calls \cup {Idle}
  BY DEF OwnInv, Types
<1>3. Goes(h, "requested", "done", g_chan_nr[h], other[h], call[h])
  BY <1>1, <1>2 DEF Goes, Stages
<1>4. /\ stage[h] = "requested" /\ call[h] = Idle
      /\ stage'[h] = "done" /\ call'[h] = call[h]
  BY <1>3, GoesMoves
<1>5. IsRequest(m) /\ m.ra = RaOf[h] /\ NoneFor(h)
  BY <1>1, AnswerIs DEF Requesting
<1>6. HdlrInv(h)'
  BY <1>4 DEF HdlrInv, HasChannel, Idle
<1>7. Lasts(h, "done", g_chan_nr[h], other[h])
  BY <1>4, <1>5 DEF Lasts, Late
<1> QED  BY <1>1, <1>3, <1>5, <1>6, <1>7, MovesTaking

LEMMA ChannelAssignedKeeps ==
  ASSUME OwnInv, NEW h \in Hdlrs, ChannelAssigned(h), UNCHANGED testcase
  PROVE  OwnInv'
<1>1. PICK m : /\ Step(h, "requested", "active") /\ Reads(h, m) /\ m.t = "IMM_ASS" /\ Quiet
               /\ g_chan_nr' = [g_chan_nr EXCEPT ![h] = m.lchan]
               /\ Sends(h, [t |-> "EST", lchan |-> m.lchan])
               /\ call' = [call EXCEPT ![h] = [op |-> "last", lchan |-> m.lchan]]
               /\ UNCHANGED other
  BY DEF ChannelAssigned, Asks
<1>2. /\ IsRequest(m) /\ m.ra = RaOf[h] /\ NoneFor(h)
      /\ m.lchan \in Lchans /\ Gives(h, m.lchan, {"used"})
  BY <1>1, AnswerIs DEF Requesting
<1> DEFINE n == [t |-> "EST", lchan |-> m.lchan]
           k == [op |-> "last", lchan |-> m.lchan]
<1>3. /\ n \in FromHdlrs /\ n.t = "EST" /\ Sends(h, n)
      /\ k \in Calls /\ k.op = "last" /\ k.lchan = m.lchan /\ call' = [call EXCEPT ![h] = k]
  BY <1>1, <1>2 DEF FromHdlrs, Calls, Ops
<1> HIDE DEF n, k
<1>4. other[h] \in Lchans \cup {None}
  BY DEF OwnInv, Types
<1>5. Goes(h, "requested", "active", m.lchan, other[h], k)
  BY <1>1, <1>2, <1>3, <1>4 DEF Goes, Stages
<1>6. /\ stage[h] = "requested"
      /\ stage'[h] = "active" /\ call'[h] = k /\ g_chan_nr'[h] = m.lchan
      /\ UNCHANGED <<bsc, user, hoCommand>>
  BY <1>5, GoesMoves
<1>7. (\A x : ~Akin(x, n) /\ ~Akin(n, x)) /\ Means(ClientOf(h), n)'
  <2>1. Means(ClientOf(h), n)'
    BY <1>3 DEF Means, RequestMeans, ActivationMeans, ReleaseMeans, IsRequest, IsActivation,
                IsCommand, IsComplete, IsRelease, n
  <2> QED  BY <1>3, <2>1 DEF Akin, IsRequest, IsActivation, IsCommand, IsComplete, IsRelease
<1>8. HdlrInv(h)'
  BY <1>2, <1>3, <1>6 DEF HdlrInv, HasChannel, Gives
<1>9. Lasts(h, "active", m.lchan, other[h])
  BY <1>2, <1>6 DEF Lasts, Late
<1> QED  BY <1>1, <1>2, <1>3, <1>5, <1>7, <1>8, <1>9, MovesAnswering

LEMMA AssignmentCommandKeeps ==
  ASSUME OwnInv, NEW h \in Hdlrs, AssignmentCommand(h), UNCHANGED testcase
  PROVE  OwnInv'
<1>1. PICK m : /\ Step(h, "assigning", "registering") /\ Reads(h, m)
               /\ m.t = "DR" /\ m.what = "assign" /\ Quiet
               /\ other' = [other EXCEPT ![h] = m.new]
               /\ call' = [call EXCEPT ![h] = [op |-> "register", lchan |-> m.new]]
               /\ UNCHANGED <<g_chan_nr, client>>
  BY DEF AssignmentCommand, Asks
<1>2. m \in All /\ Means(InboxOf(h), m) /\ IsCommand(m)
  BY <1>1, ReadsIs DEF IsCommand
<1>3. stage[h] = "assigning"
  BY <1>1, Stepped
<1>4. PICK g \in Hdlrs : Commanded(g, m)
  BY <1>2 DEF Means
<1>5. user[m.lchan] = h
  BY <1>2, <1>3 DEF Means, InboxOf, Late
<1>6. Commanded(h, m)
  BY <1>4, <1>5 DEF Commanded, Gives
<1>7. /\ NoneFor(h) /\ g_chan_nr[h] = m.lchan /\ Gives(h, m.lchan, {"used"}) /\ Gives(h, m.new, {"used"})
      /\ m.lchan \in Lchans /\ m.new \in Lchans
  BY <1>6 DEF Commanded, Gives
<1> DEFINE k == [op |-> "register", lchan |-> m.new]
<1>8. k \in Calls /\ k.op = "register" /\ k.lchan = m.new /\ call' = [call EXCEPT ![h] = k]
  BY <1>1, <1>7 DEF Calls, Ops
<1> HIDE DEF k
<1>9. Goes(h, "assigning", "registering", g_chan_nr[h], m.new, k)
  BY <1>1, <1>7, <1>8 DEF Goes, Stages
<1>10. /\ stage'[h] = "registering" /\ call'[h] = k /\ g_chan_nr'[h] = g_chan_nr[h] /\ other'[h] = m.new
       /\ UNCHANGED <<bsc, user, hoCommand>>
  BY <1>9, GoesMoves
<1>11. HdlrInv(h)'
  BY <1>7, <1>8, <1>10 DEF HdlrInv, HasChannel, Gives
<1>12. Lasts(h, "registering", g_chan_nr[h], m.new)
  BY <1>3, <1>7 DEF Lasts, Late
<1> QED  BY <1>1, <1>2, <1>7, <1>9, <1>11, <1>12, MovesTaking

LEMMA ChannelReleasedKeeps ==
  ASSUME OwnInv, NEW h \in Hdlrs, ChannelReleased(h), UNCHANGED testcase
  PROVE  OwnInv'
<1>1. PICK m : /\ \/ Step(h, "assigned", "active") /\ m.lchan = other[h]
                  \/ Step(h, "clearing", "done") /\ m.lchan = g_chan_nr[h]
               /\ Reads(h, m) /\ m.t = "DR" /\ m.what = "rel" /\ Quiet
               /\ Sends(h, [t |-> "REL_ACK", lchan |-> m.lchan])
               /\ call' = [call EXCEPT ![h] = [op |-> "unregister", lchan |-> m.lchan]]
               /\ UNCHANGED <<g_chan_nr, other>>
  BY DEF ChannelReleased, Asks
<1>2. PICK f \in {"assigned", "clearing"}, s \in {"active", "done"} :
         /\ Step(h, f, s)
         /\ \/ f = "assigned" /\ s = "active" /\ m.lchan = other[h]
            \/ f = "clearing" /\ s = "done" /\ m.lchan = g_chan_nr[h]
  BY <1>1
<1>3. m \in All /\ Means(InboxOf(h), m) /\ IsRelease(m)
  BY <1>1, ReadsIs DEF IsRelease
<1>4. m.lchan \in Lchans /\ bsc[m.lchan] = "rel"
  BY <1>3, Fields DEF Means, ReleaseMeans
<1>5. stage[h] = f /\ HdlrInv(h)
  BY <1>2, Stepped DEF OwnInv, HdlrsInv
<1>6. /\ user[m.lchan] = h
      /\ f = "assigned" => Gives(h, g_chan_nr[h], {"used"}) /\ m.lchan # g_chan_nr[h]
  <2>1. CASE f = "assigned"
    <3>1. Gives(h, g_chan_nr[h], {"used"}) /\ Gives(h, other[h], {"used", "rel"})
      BY <1>5, <2>1 DEF HdlrInv, HasChannel
    <3> QED  BY <1>2, <1>4, <2>1, <3>1 DEF Gives
  <2>2. CASE f = "clearing"
    <3>1. Gives(h, g_chan_nr[h], {"rel"})
      BY <1>5, <2>2 DEF HdlrInv
    <3> QED  BY <1>2, <2>2, <3>1 DEF Gives
  <2> QED  BY <2>1, <2>2
<1>7. PICK n : n = [t |-> "REL_ACK", lchan |-> m.lchan]
  OBVIOUS
<1> DEFINE k == [op |-> "unregister", lchan |-> m.lchan]
<1>8. /\ n \in FromHdlrs /\ n.t = "REL_ACK" /\ n.lchan = m.lchan /\ Sends(h, n)
      /\ k \in Calls /\ k.op = "unregister" /\ call' = [call EXCEPT ![h] = k]
  BY <1>1, <1>4, <1>7 DEF FromHdlrs, Calls, Ops
<1> HIDE DEF k
<1>9. g_chan_nr[h] \in Lchans \cup {None} /\ other[h] \in Lchans \cup {None} /\ None \notin Lchans
  BY RSLAssumption DEF OwnInv, Types
<1>10. Goes(h, f, s, g_chan_nr[h], other[h], k)
  BY <1>1, <1>2, <1>8, <1>9 DEF Goes, Stages
<1>11. /\ stage'[h] = s /\ call'[h] = k /\ g_chan_nr'[h] = g_chan_nr[h] /\ other'[h] = other[h]
       /\ UNCHANGED <<bsc, user, hoCommand>>
  BY <1>10, GoesMoves
<1>12. Late(h)'
  BY <1>2, <1>4, <1>9, <1>11 DEF Late
<1>13. Means(ClientOf(h), n)'
  <2>1. ReleaseMeans(n)'
    BY <1>2, <1>4, <1>6, <1>8, <1>11, <1>12 DEF ReleaseMeans, IsRelease
  <2> QED  BY <1>8, <2>1 DEF Means, RequestMeans, ActivationMeans, IsRequest, IsActivation, IsCommand,
              IsComplete, ClientOf
<1>14. Akin(m, n) /\ ~IsComplete(n)
  BY <1>3, <1>8 DEF Akin, IsRelease, IsComplete
<1>15. ASSUME f = "assigned", NEW x, Under(x), IsComplete(x) PROVE x.lchan # g_chan_nr[h]
  <2>1. PICK u \in Places : Means(u, x)
    BY <1>15 DEF Under, OwnInv, MessagesInv
  <2>2. PICK g \in Hdlrs : Completing(g, x)
    BY <1>15, <2>1 DEF Means
  <2>3. g_chan_nr[g] = x.lchan /\ Gives(g, x.lchan, {"used"}) /\ Gives(g, other[g], {"used"})
    BY <2>2 DEF Completing, OwnInv, HdlrsInv, HdlrInv, HasChannel
  <2> QED  BY <1>2, <1>4, <1>6, <1>15, <2>3 DEF Gives
<1>16. HdlrInv(h)'
  <2>1. s = "active" => Gives(h, g_chan_nr[h], {"used"})'
    BY <1>2, <1>6, <1>11 DEF Gives
  <2> QED  BY <1>8, <1>11, <2>1 DEF HdlrInv, HasChannel
<1>17. Lasts(h, s, g_chan_nr[h], other[h])
  BY <1>2, <1>5 DEF Lasts, Late
<1> QED  BY <1>1, <1>2, <1>8, <1>10, <1>13, <1>14, <1>15, <1>16, <1>17, MovesAnswering

LEMMA ReadDataKeeps ==
  ASSUME OwnInv, NEW h \in Hdlrs, ReadData(h), UNCHANGED testcase
  PROVE  OwnInv'
<1>1. PICK m : /\ Step(h, stage[h], stage[h]) /\ Reads(h, m) /\ Quiet
               /\ UNCHANGED <<g_chan_nr, other, client, call>>
  BY DEF ReadData
<1>2. /\ stage' = [stage EXCEPT ![h] = stage[h]] /\ stage \in [Hdlrs -> Stages]
      /\ UNCHANGED <<ConnectionTable, LastActTable, trxMap, WaitingQueue, dchan_suspended,
                     wait_queue_enabled, iut, ended, outcome>>
      /\ QueueTypes
  BY <1>1, Stepped
<1>3. stage' = stage
  BY <1>2
<1>4. UNCHANGED <<ipa, bsc, user, hoCommand, g_chan_nr, other, client, call>>
  BY <1>1 DEF Quiet, bscVars
<1>5. UNCHANGED procedures
  BY <1>2, <1>3, <1>4 DEF procedures
<1>6. Types'
  BY <1>2, <1>3, <1>4 DEF OwnInv, Types, trxMap
<1>7. HdlrsInv' /\ LchansInv'
  BY <1>4, <1>5, RestSame
<1>8. TableInv'
  BY <1>2, <1>5, TableRest
<1>9. Leaves(InboxOf(h)) /\ QueueTypes'
  BY <1>1, <1>2, <1>4, OutOfInbox DEF Reads
<1> QED  BY <1>5, <1>6, <1>7, <1>8, <1>9, LeavingKeeps, PlacesAre

LEMMA FinishKeeps ==
  ASSUME OwnInv, NEW h \in Hdlrs, Finish(h), UNCHANGED testcase
  PROVE  OwnInv'
<1>1. /\ ended' = ended \cup {h}
      /\ UNCHANGED <<ConnectionTable, LastActTable, trxMap, dchan_suspended, wait_queue_enabled>>
      /\ UNCHANGED <<ipa, WaitingQueue, iut, inbox, client, call, outcome>>
      /\ UNCHANGED <<stage, g_chan_nr, other, bsc, user, hoCommand>>
  BY DEF Finish, tables, queueing, hdlrVars, bscVars
<1>2. UNCHANGED procedures
  BY <1>1 DEF procedures
<1>3. Types'
  BY <1>1 DEF OwnInv, Types, trxMap
<1>4. HdlrsInv' /\ LchansInv'
  BY <1>1, <1>2, RestSame
<1>5. TableInv'
  BY <1>1, <1>2, TableRest
<1> QED  BY <1>1, <1>2, <1>3, <1>4, <1>5, QueuesKeep

-----------------------------------------------------------------------------
(* The theorems. *)

LEMMA InitOwn == Init => OwnInv
<1> SUFFICES ASSUME Init PROVE OwnInv
  OBVIOUS
<1>1. /\ ConnectionTable = [i \in 1 .. Slots |-> Free] /\ LastActTable = [c \in Lchans |-> None]
      /\ TrxConnMap = [t \in Trxs |-> None] /\ TrxConnNum = 0
      /\ WaitingQueue = <<>> /\ dchan_suspended = FALSE /\ wait_queue_enabled = FALSE
      /\ ipa = <<>> /\ client = [h \in Hdlrs |-> <<>>] /\ call = [h \in Hdlrs |-> Idle]
      /\ inbox = [h \in Hdlrs |-> <<>>] /\ iut = <<>> /\ ended = {} /\ outcome = "running"
      /\ stage = [h \in Hdlrs |-> "idle"] /\ g_chan_nr = [h \in Hdlrs |-> None]
      /\ other = [h \in Hdlrs |-> None] /\ bsc = [c \in Lchans |-> "free"]
      /\ user = [c \in Lchans |-> None] /\ hoCommand = [h \in Hdlrs |-> None]
      /\ testcase \in Testcases
  BY DEF Init, RSLInit
<1>2. Types
  <2>1. Free \in Entries /\ Owned(Free)
    BY DEF Free, Entries, Owned
  <2>2. ConnectionTable \in [1 .. Slots -> {e \in Entries : Owned(e)}]
    BY <1>1, <2>1
  <2> QED  BY <1>1, <2>2 DEF Types, Stages
<1>3. QueueTypes
  BY <1>1 DEF QueueTypes
<1>4. \A p \in Places : queues[p] = <<>>
  BY <1>1, PlacesAre, QueuesAre DEF queues
<1>5. Elems(<<>>) = {} /\ \A S : ~In(<<>>, S) /\ Once(<<>>, S)
  BY DEF Elems, In, Once, Indices
<1>6. MessagesInv
  BY <1>4, <1>5 DEF MessagesInv
<1>7. SingleInv
  <2>1. DOMAIN queues = Places
    BY DEF queues, QueuesOf
  <2> QED  BY <1>4, <1>5, <2>1 DEF SingleInv, Single
<1>8. HdlrsInv
  BY <1>1 DEF HdlrsInv, HdlrInv, HasChannel, Idle
<1>9. LchansInv
  BY <1>1 DEF LchansInv, LchanInv, Activating
<1>10. TableInv
  BY <1>1 DEF TableInv, EntryInv, Free
<1> QED  BY <1>2, <1>3, <1>6, <1>7, <1>8, <1>9, <1>10 DEF OwnInv

LEMMA StutterKeeps ==
  ASSUME OwnInv, UNCHANGED vars
  PROVE  OwnInv'
<1>1. /\ UNCHANGED <<ConnectionTable, LastActTable, trxMap, WaitingQueue, dchan_suspended, wait_queue_enabled>>
      /\ UNCHANGED <<ipa, client, call, inbox, iut, ended, outcome, testcase>>
      /\ UNCHANGED <<stage, g_chan_nr, other, bsc, user, hoCommand>>
  BY DEF vars, rslVars, tables, queueing, hdlrVars, bscVars
<1>2. UNCHANGED procedures
  BY <1>1 DEF procedures
<1>3. Types'
  BY <1>1 DEF OwnInv, Types, trxMap
<1>4. HdlrsInv' /\ LchansInv'
  BY <1>1, <1>2, RestSame
<1>5. TableInv'
  BY <1>1, <1>2, TableRest
<1> QED  BY <1>1, <1>2, <1>3, <1>4, <1>5, QueuesKeep

LEMMA BscReactsKeeps ==
  ASSUME OwnInv, BscReacts, UNCHANGED testcase
  PROVE  OwnInv'
<1>1. PICK m : \/ BscAssigns(m) \/ BscRejects(m) \/ BscActivated(m)
               \/ BscAssigned(m) \/ BscReleased(m) \/ BscEstablished(m)
  BY DEF BscReacts
<1> QED  BY <1>1, AssignsKeeps, RejectsKeeps, ActivatedKeeps, AssignedKeeps, ReleasedKeeps, EstablishedKeeps

LEMMA HandlerKeeps ==
  ASSUME OwnInv, NEW h \in Hdlrs, Starts(h) \/ Continues(h), UNCHANGED testcase
  PROVE  OwnInv'
<1>1. CASE Starts(h)
  <2>1. CASE RequestChannel(h)
    BY <2>1, RequestChannelKeeps
  <2>2. CASE EnableQueue(h) \/ SuspendDispatch(h)
    BY <2>2, QuietKeeps
  <2>3. CASE RequestAssignment(h) \/ StartHandover(h)
    BY <2>3, GivenToHandler
  <2>4. CASE PerformClear(h)
    BY <2>4, PerformClearKeeps
  <2>5. CASE Finish(h)
    BY <2>5, FinishKeeps
  <2> QED  BY <1>1, <2>1, <2>2, <2>3, <2>4, <2>5 DEF Starts
<1>2. CASE Continues(h)
  <2>1. CASE ChannelAssigned(h)
    BY <2>1, ChannelAssignedKeeps
  <2>2. CASE ChannelRejected(h)
    BY <2>2, ChannelRejectedKeeps
  <2>3. CASE AssignmentCommand(h)
    BY <2>3, AssignmentCommandKeeps
  <2>4. CASE DispatchQueue(h) \/ HandoverCommand(h) \/ ResumeDispatch(h)
    BY <2>4, QuietKeeps
  <2>5. CASE CompleteAssignment(h)
    BY <2>5, CompleteAssignmentKeeps
  <2>6. CASE CompleteHandover(h)
    BY <2>6, CompleteHandoverKeeps
  <2>7. CASE ChannelReleased(h)
    BY <2>7, ChannelReleasedKeeps
  <2>8. CASE ReadData(h)
    BY <2>8, ReadDataKeeps
  <2> QED  BY <1>2, <2>1, <2>2, <2>3, <2>4, <2>5, <2>6, <2>7, <2>8 DEF Continues
<1> QED  BY <1>1, <1>2

LEMMA OwnStep == OwnInv /\ [Next]_vars => OwnInv'
<1> SUFFICES ASSUME OwnInv, [Next]_vars PROVE OwnInv'
  OBVIOUS
<1>1. CASE Main /\ UNCHANGED <<hdlrVars, bscVars>> /\ UNCHANGED testcase
  <2>1. UNCHANGED <<hdlrVars, bscVars, testcase>>
    BY <1>1
  <2>2. CASE Route
    <3>1. PICK m : FromLink(m)
      BY <2>2 DEF Route
    <3> QED  BY <2>1, <3>1, RouteKeeps
  <2>3. CASE \E h \in Hdlrs : FromClient(h) \/ Serve(h)
    BY <2>1, <2>3, ClientKeeps, ServeKeeps
  <2> QED  BY <1>1, <2>2, <2>3 DEF Main
<1>2. CASE BscReacts /\ UNCHANGED testcase
  BY <1>2, BscReactsKeeps
<1>3. CASE (\E c \in Lchans : BscSends(c)) /\ UNCHANGED testcase
  BY <1>3, SendsKeeps
<1>4. CASE (\E k \in Conns : LinkCloses(k)) /\ UNCHANGED testcase
  BY <1>4, ClosesKeeps
<1>5. CASE (\E h \in Hdlrs : Starts(h) \/ Continues(h)) /\ UNCHANGED testcase
  BY <1>5, HandlerKeeps
<1>6. CASE UNCHANGED vars
  BY <1>6, StutterKeeps
<1> QED  BY <1>1, <1>2, <1>3, <1>4, <1>5, <1>6 DEF Next

\* The channels, their handlers and the messages on their way always agree: the
\* inductive invariant of the dispatcher of RSL, the handlers of the suite and the BSC.
THEOREM BscInvariant == Spec => []OwnInv
<1>1. Init => OwnInv
  BY InitOwn
<1>2. OwnInv /\ [Next]_vars => OwnInv'
  BY OwnStep
<1> QED  BY <1>1, <1>2, PTL DEF Spec

\* The activation that the dispatcher has stored for a channel is the one made for the
\* handler that asks for it (RSLEM_get_last_act), whatever the testcase: also when the
\* BSC gives a channel to the next handler early, when links are lost, and with any
\* number of assignments and handovers at the same time.
THEOREM OwnActivationStored == Spec => []OwnActivation
<1>1. OwnInv => OwnActivation
  <2> SUFFICES ASSUME OwnInv, NEW h \in Hdlrs, call[h].op = "last"
               PROVE  LastActTable[call[h].lchan] = h
    BY DEF OwnActivation
  <2>1. /\ stage[h] \in {"active", "assigned"} /\ call[h].lchan = g_chan_nr[h]
        /\ Gives(h, g_chan_nr[h], {"used"})
    BY DEF OwnInv, HdlrsInv, HdlrInv, HasChannel
  <2>2. LchanInv(g_chan_nr[h])
    BY <2>1 DEF OwnInv, LchansInv, Gives
  <2> QED  BY <2>1, <2>2 DEF LchanInv, Gives
<1> QED  BY <1>1, BscInvariant, PTL

\* No message is left in the waiting queue with the queue disabled: what the dispatcher
\* keeps for a channel without a handler is dispatched with f_rslem_dchan_queue_dispatch.
THEOREM NoneForgotten == Spec => []NoneStranded
<1>1. Init => NoneStranded
  BY DEF Init, RSLInit, NoneStranded
<1>2. NoneStranded /\ [Next]_vars => NoneStranded'
  <2> SUFFICES ASSUME NoneStranded, [Next]_vars PROVE NoneStranded'
    OBVIOUS
  <2>1. CASE UNCHANGED <<WaitingQueue, wait_queue_enabled>>
    BY <2>1 DEF NoneStranded
  <2>2. CASE Main
    <3>1. CASE Route
      <4>1. PICK m : FromLink(m)
        BY <3>1 DEF Route
      <4>2. CASE ToWaitingQueue(m)
        BY <4>2 DEF ToWaitingQueue, Keeps, NoneStranded
      <4>3. ToWaitingQueue(m) \/ UNCHANGED <<WaitingQueue, wait_queue_enabled>>
        BY <4>1 DEF FromLink, LinkEstablished, LinkIdentified, LinkLost, ImmAss, ImmAssRej, ChanRqd,
                    CommonChannel, ChanActiv, ToHandler, LinkFails, Fail, queueing
      <4> QED  BY <2>1, <4>2, <4>3
    <3>2. ASSUME NEW h \in Hdlrs, FromClient(h) PROVE NoneStranded'
      <4>1. UNCHANGED <<WaitingQueue, wait_queue_enabled>>
        BY <3>2 DEF FromClient, ClientRqd, ClientMsg, ClientFails, FromHandler, Fail, queueing
      <4> QED  BY <2>1, <4>1
    <3>3. ASSUME NEW h \in Hdlrs, Serve(h) PROVE NoneStranded'
      <4>1. CASE WaitQueueEnable(h)
        BY <4>1 DEF WaitQueueEnable, NoneStranded
      <4>2. CASE WaitQueueDispatch(h)
        <5>1. \/ /\ WaitingQueue' = IF wait_queue_enabled THEN AfterDispatch ELSE WaitingQueue
                 /\ wait_queue_enabled' = FALSE
              \/ Fail
          BY <4>2 DEF WaitQueueDispatch
        <5> QED  BY <2>1, <5>1 DEF NoneStranded, AfterDispatch, Fail, queueing
      <4>3. \/ WaitQueueEnable(h) \/ WaitQueueDispatch(h)
            \/ UNCHANGED <<WaitingQueue, wait_queue_enabled>>
        BY <3>3 DEF Serve, RSLEM_register, RSLEM_unregister, RSLEM_suspend, RSLEM_get_last_act, Fail, queueing
      <4> QED  BY <2>1, <4>1, <4>2, <4>3
    <3> QED  BY <2>2, <3>1, <3>2, <3>3 DEF Main
  <2>3. CASE BscReacts
    <3>1. UNCHANGED <<WaitingQueue, wait_queue_enabled>>
      BY <2>3 DEF BscReacts, BscAssigns, BscRejects, BscActivated, BscAssigned, BscReleased, BscEstablished,
                  Receive, queueing
    <3> QED  BY <2>1, <3>1
  <2>4. CASE (\E c \in Lchans : BscSends(c)) \/ (\E k \in Conns : LinkCloses(k))
    <3>1. UNCHANGED <<WaitingQueue, wait_queue_enabled>>
      BY <2>4 DEF BscSends, LinkCloses, queueing
    <3> QED  BY <2>1, <3>1
  <2>5. ASSUME NEW h \in Hdlrs, Starts(h) \/ Continues(h) PROVE NoneStranded'
    <3>1. UNCHANGED queueing
      <4>1. CASE Starts(h)
        BY <4>1 DEF Starts, RequestChannel, EnableQueue, RequestAssignment, SuspendDispatch, StartHandover,
                    PerformClear, Finish, Step
      <4>2. CASE Continues(h)
        BY <4>2 DEF Continues, ChannelAssigned, ChannelRejected, AssignmentCommand, DispatchQueue,
                    CompleteAssignment, HandoverCommand, ResumeDispatch, CompleteHandover, ChannelReleased,
                    ReadData, Step
      <4> QED  BY <2>5, <4>1, <4>2
    <3> QED  BY <2>1, <3>1 DEF queueing
  <2>6. CASE UNCHANGED vars
    BY <2>1, <2>6 DEF vars, rslVars, queueing
  <2> QED  BY <2>2, <2>3, <2>4, <2>5, <2>6 DEF Next
<1> QED  BY <1>1, <1>2, PTL DEF Spec

=============================================================================
