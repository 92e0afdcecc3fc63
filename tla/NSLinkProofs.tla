---------------------------- MODULE NSLinkProofs -----------------------------
(***************************************************************************)
(* Two NS-VCs back to back, for any weights, losses and bounds: the path   *)
(* keeps the order of PDUs, so no NS-RESET comes after the NS-UNBLOCK that *)
(* follows it, and what the BSS side is told rests on what the SGSN side   *)
(* has read by then.                                                       *)
(***************************************************************************)
EXTENDS NSLink, TLAPS

-----------------------------------------------------------------------------
(* The inductive invariant. *)

Carries(q, p) == \E i \in 1 .. Len(q) : q[i] = p

\* No NS-RESET comes after an NS-UNBLOCK.
Ordered(q) == \A i, j \in 1 .. Len(q) : i < j /\ q[i] = "UNBLOCK" => q[j] # "RESET"

\* The BSS side is beyond the reset procedure; there is no way back.
BssAlive == vc_state[Bss] \in {"ALIVE_BLOCKED", "ALIVE_UNBLOCKED"}

LinkTypes ==
    /\ vc_state \in [Vcs -> States]
    /\ running \in [Vcs -> SUBSET Timers]
    /\ link \in [Vcs -> BOOLEAN]
    /\ air \in [Vcs -> Seq(Pdus)]

\* Only the BSS side resets and unblocks.
Roles ==
    /\ vc_state[Bss] # "DISABLED"
    /\ ~link[Bss] => vc_state[Bss] = "DEAD_BLOCKED"
    /\ vc_state[Sgsn] \notin {"DISABLED", "WAIT_RESET"}
    /\ "block" \notin running[Sgsn]
    /\ ~Carries(air[Bss], "RESET") /\ ~Carries(air[Bss], "UNBLOCK")

\* It unblocks when the reset is through.
ResetFirst ==
    /\ Ordered(air[Sgsn])
    /\ Carries(air[Sgsn], "UNBLOCK") => BssAlive

\* What confirms the unblocking comes from an unblocked SGSN side, which no NS-RESET
\* on its way will block.
Confirmed ==
    Unblocked(Bss) \/ Carries(air[Bss], "UNBLOCK_ACK") =>
        BssAlive /\ Unblocked(Sgsn) /\ ~Carries(air[Sgsn], "RESET")

LinkInv == LinkTypes /\ Roles /\ ResetFirst /\ Confirmed

-----------------------------------------------------------------------------
(* Queues. *)

LEMMA Taken ==
  ASSUME NEW q \in Seq(Pdus), q # <<>>
  PROVE  /\ Tail(q) \in Seq(Pdus) /\ Head(q) \in Pdus
         /\ Carries(q, Head(q))
         /\ \A p : Carries(Tail(q), p) => Carries(q, p)
         /\ Ordered(q) => Ordered(Tail(q))
         /\ Ordered(q) /\ Head(q) = "UNBLOCK" => ~Carries(Tail(q), "RESET")
<1>1. /\ Tail(q) \in Seq(Pdus) /\ Head(q) = q[1] /\ Len(q) \in Nat \ {0}
      /\ Len(Tail(q)) = Len(q) - 1
      /\ \A i \in 1 .. Len(Tail(q)) : Tail(q)[i] = q[i + 1] /\ i + 1 \in 1 .. Len(q)
  OBVIOUS
<1>2. Head(q) \in Pdus /\ Carries(q, Head(q))
  BY <1>1 DEF Carries
<1>3. \A p : Carries(Tail(q), p) => Carries(q, p)
  BY <1>1 DEF Carries
<1>4. Ordered(q) => Ordered(Tail(q))
  BY <1>1 DEF Ordered
<1>5. Ordered(q) /\ Head(q) = "UNBLOCK" => ~Carries(Tail(q), "RESET")
  BY <1>1 DEF Ordered, Carries
<1> QED  BY <1>1, <1>2, <1>3, <1>4, <1>5

LEMMA Sent ==
  ASSUME NEW q \in Seq(Pdus), NEW s \in Seq(Pdus)
  PROVE  /\ q \o s \in Seq(Pdus)
         /\ \A p : Carries(q \o s, p) <=> Carries(q, p) \/ Carries(s, p)
         /\ Ordered(q) /\ Ordered(s) /\ ~(Carries(q, "UNBLOCK") /\ Carries(s, "RESET"))
               => Ordered(q \o s)
<1>1. /\ q \o s \in Seq(Pdus) /\ Len(q) \in Nat /\ Len(s) \in Nat
      /\ Len(q \o s) = Len(q) + Len(s)
      /\ \A i \in 1 .. Len(q) : (q \o s)[i] = q[i]
      /\ \A i \in 1 .. Len(s) : (q \o s)[Len(q) + i] = s[i]
  OBVIOUS
<1>2. \A i \in 1 .. Len(q \o s) : i \in 1 .. Len(q) \/ i - Len(q) \in 1 .. Len(s)
  BY <1>1
<1>3. \A i \in 1 .. Len(s) : Len(q) + i \in 1 .. Len(q \o s)
  BY <1>1
<1>4. \A p : Carries(q \o s, p) <=> Carries(q, p) \/ Carries(s, p)
  <2> TAKE p
  <2>1. Carries(q \o s, p) => Carries(q, p) \/ Carries(s, p)
    BY <1>1, <1>2 DEF Carries
  <2>2. Carries(q, p) => Carries(q \o s, p)
    BY <1>1 DEF Carries
  <2>3. Carries(s, p) => Carries(q \o s, p)
    BY <1>1, <1>3 DEF Carries
  <2> QED  BY <2>1, <2>2, <2>3
<1>5. ASSUME Ordered(q), Ordered(s), ~(Carries(q, "UNBLOCK") /\ Carries(s, "RESET"))
      PROVE  Ordered(q \o s)
  <2> SUFFICES ASSUME NEW i \in 1 .. Len(q \o s), NEW j \in 1 .. Len(q \o s), i < j,
                      (q \o s)[i] = "UNBLOCK", (q \o s)[j] = "RESET"
               PROVE  FALSE
    BY DEF Ordered
  <2>1. CASE j \in 1 .. Len(q)
    BY <1>1, <1>5, <2>1 DEF Ordered
  <2>2. CASE i \in 1 .. Len(q) /\ j - Len(q) \in 1 .. Len(s)
    BY <1>1, <1>5, <2>2 DEF Carries
  <2>3. CASE i - Len(q) \in 1 .. Len(s) /\ j - Len(q) \in 1 .. Len(s)
    <3>1. i - Len(q) < j - Len(q) /\ s[i - Len(q)] = "UNBLOCK" /\ s[j - Len(q)] = "RESET"
      BY <1>1, <2>3
    <3> QED  BY <1>5, <2>3, <3>1 DEF Ordered
  <2> QED  BY <1>2, <2>1, <2>2, <2>3
<1> QED  BY <1>1, <1>4, <1>5

LEMMA Contents ==
  /\ <<>> \in Seq(Pdus) /\ Ordered(<<>>) /\ \A p : ~Carries(<<>>, p)
  /\ \A a \in Pdus : /\ <<a>> \in Seq(Pdus) /\ Ordered(<<a>>)
                     /\ \A p : Carries(<<a>>, p) <=> p = a
  /\ \A a, b \in Pdus : /\ <<a, b>> \in Seq(Pdus)
                        /\ (a = "UNBLOCK" => b # "RESET") => Ordered(<<a, b>>)
                        /\ \A p : Carries(<<a, b>>, p) <=> p \in {a, b}
<1>1. <<>> \in Seq(Pdus) /\ Ordered(<<>>) /\ \A p : ~Carries(<<>>, p)
  BY DEF Ordered, Carries
<1>2. ASSUME NEW a \in Pdus
      PROVE  <<a>> \in Seq(Pdus) /\ Ordered(<<a>>) /\ \A p : Carries(<<a>>, p) <=> p = a
  BY DEF Ordered, Carries
<1>3. ASSUME NEW a \in Pdus, NEW b \in Pdus
      PROVE  /\ <<a, b>> \in Seq(Pdus)
             /\ (a = "UNBLOCK" => b # "RESET") => Ordered(<<a, b>>)
             /\ \A p : Carries(<<a, b>>, p) <=> p \in {a, b}
  <2>1. <<a, b>> \in Seq(Pdus) /\ Len(<<a, b>>) = 2 /\ <<a, b>>[1] = a /\ <<a, b>>[2] = b
    OBVIOUS
  <2>2. 1 .. 2 = {1, 2}
    OBVIOUS
  <2>3. (a = "UNBLOCK" => b # "RESET") => Ordered(<<a, b>>)
    BY <2>1, <2>2 DEF Ordered
  <2>4. \A p : Carries(<<a, b>>, p) <=> p \in {a, b}
    BY <2>1, <2>2 DEF Carries
  <2> QED  BY <2>1, <2>3, <2>4
<1> QED  BY <1>1, <1>2, <1>3

-----------------------------------------------------------------------------
(* What a step does to the path. *)

LEMMA Peers ==
  /\ Vcs = {Bss, Sgsn} /\ Bss # Sgsn /\ Linked = Vcs /\ Free = {}
  /\ PeerOf[Bss] = Sgsn /\ PeerOf[Sgsn] = Bss
  /\ Bss \notin SgsnVcs /\ Sgsn \in SgsnVcs
  BY EndsAssumption, PeersAssumption DEF Free

\* v takes one PDU or none, and sends pdus.
Moves(v, pdus) ==
    /\ air' \in [Vcs -> Seq(Pdus)]
    /\ \/ air'[v] = air[v]
       \/ air[v] # <<>> /\ air'[v] = Tail(air[v])
    /\ air'[PeerOf[v]] = air[PeerOf[v]] \o pdus

LEMMA Received ==
  ASSUME LinkTypes, NEW v \in Vcs, NEW ps, NEW pdus \in Seq(Pdus), RxTx(v, ps, pdus)
  PROVE  /\ Moves(v, pdus) /\ link' = link
         /\ air[v] # <<>> /\ Head(air[v]) \in ps /\ air'[v] = Tail(air[v])
<1> DEFINE w == PeerOf[v]
<1>1. v \in Linked /\ w \in Vcs /\ w # v
  BY Peers
<1>2. /\ air[v] # <<>> /\ Head(air[v]) \in ps /\ link' = link
      /\ air' = [air EXCEPT ![v] = Tail(@), ![w] = @ \o pdus]
  BY <1>1, Peers DEF RxTx
<1>3. air[v] \in Seq(Pdus) /\ air[w] \in Seq(Pdus)
  BY <1>1 DEF LinkTypes
<1>4. Tail(air[v]) \in Seq(Pdus) /\ air[w] \o pdus \in Seq(Pdus)
  BY <1>2, <1>3, Taken, Sent
<1>5. air'[v] = Tail(air[v]) /\ air'[w] = air[w] \o pdus /\ air' \in [Vcs -> Seq(Pdus)]
  BY <1>1, <1>2, <1>4 DEF LinkTypes
<1> QED  BY <1>2, <1>5 DEF Moves

LEMMA Transmitted ==
  ASSUME LinkTypes, NEW v \in Vcs, NEW pdus \in Seq(Pdus), Tx(v, pdus)
  PROVE  Moves(v, pdus) /\ air'[v] = air[v]
<1> DEFINE w == PeerOf[v]
<1>1. v \in Linked /\ w \in Vcs /\ w # v
  BY Peers
<1>2. air' = [air EXCEPT ![w] = @ \o pdus]
  BY <1>1 DEF Tx
<1>3. air[w] \o pdus \in Seq(Pdus)
  BY <1>1, Sent DEF LinkTypes
<1> QED  BY <1>1, <1>2, <1>3 DEF Moves, LinkTypes

LEMMA Moved ==
  ASSUME LinkTypes, NEW v \in Vcs, NEW pdus \in Seq(Pdus), Moves(v, pdus)
  PROVE  /\ \A p : Carries(air'[v], p) => Carries(air[v], p)
         /\ Ordered(air[v]) => Ordered(air'[v])
         /\ \A p : Carries(air'[PeerOf[v]], p) <=> Carries(air[PeerOf[v]], p) \/ Carries(pdus, p)
         /\ /\ Ordered(air[PeerOf[v]]) /\ Ordered(pdus)
            /\ ~(Carries(air[PeerOf[v]], "UNBLOCK") /\ Carries(pdus, "RESET"))
            => Ordered(air'[PeerOf[v]])
<1>1. air[v] \in Seq(Pdus) /\ air[PeerOf[v]] \in Seq(Pdus)
  BY Peers DEF LinkTypes
<1>2. (\A p : Carries(air'[v], p) => Carries(air[v], p)) /\ (Ordered(air[v]) => Ordered(air'[v]))
  <2>1. CASE air'[v] = air[v]
    BY <2>1
  <2>2. CASE air[v] # <<>> /\ air'[v] = Tail(air[v])
    BY <1>1, <2>2, Taken
  <2> QED  BY <2>1, <2>2 DEF Moves
<1>3. air'[PeerOf[v]] = air[PeerOf[v]] \o pdus
  BY DEF Moves
<1> QED  BY <1>1, <1>2, <1>3, Sent

\* A step of an NS-VC that neither changes its state nor sends what matters.
LEMMA QuietStep ==
  ASSUME LinkInv, NEW v \in Vcs, NEW pdus \in Seq(Pdus), Moves(v, pdus),
         ~Carries(pdus, "RESET"), ~Carries(pdus, "UNBLOCK"), Ordered(pdus),
         Carries(pdus, "UNBLOCK_ACK") =>
            /\ v = Sgsn /\ BssAlive /\ Unblocked(Sgsn) /\ ~Carries(air'[Sgsn], "RESET"),
         vc_state' = vc_state, link' = link,
         running' \in [Vcs -> SUBSET Timers], "block" \notin running'[Sgsn]
  PROVE  LinkInv'
<1> USE DEF LinkInv
<1>1. LinkTypes'
  BY DEF LinkTypes, Moves
<1>2. CASE v = Bss
  <2>1. /\ \A p : Carries(air'[Bss], p) => Carries(air[Bss], p)
        /\ \A p : Carries(air'[Sgsn], p) <=> Carries(air[Sgsn], p) \/ Carries(pdus, p)
        /\ Ordered(air'[Sgsn])
    BY <1>2, Moved, Peers DEF ResetFirst
  <2>2. Roles'
    BY <2>1 DEF Roles
  <2>3. ResetFirst'
    BY <2>1 DEF ResetFirst, BssAlive
  <2>4. Confirmed'
    BY <2>1 DEF Confirmed, BssAlive, Unblocked
  <2> QED  BY <1>1, <2>2, <2>3, <2>4
<1>3. CASE v = Sgsn
  <2>1. /\ \A p : Carries(air'[Sgsn], p) => Carries(air[Sgsn], p)
        /\ \A p : Carries(air'[Bss], p) <=> Carries(air[Bss], p) \/ Carries(pdus, p)
        /\ Ordered(air'[Sgsn])
    BY <1>3, Moved, Peers DEF ResetFirst
  <2>2. Roles'
    BY <2>1 DEF Roles
  <2>3. ResetFirst'
    BY <2>1 DEF ResetFirst, BssAlive
  <2>4. Confirmed'
    BY <2>1 DEF Confirmed, BssAlive, Unblocked
  <2> QED  BY <1>1, <2>2, <2>3, <2>4
<1> QED  BY <1>2, <1>3, Peers

LEMMA TimersTypes ==
  ASSUME LinkTypes, NEW v \in Vcs, NEW started \in SUBSET Timers, NEW stopped,
         SetTimers(v, started, stopped)
  PROVE  /\ running' \in [Vcs -> SUBSET Timers]
         /\ "block" \notin running[Sgsn] /\ (v = Bss \/ "block" \notin started) =>
               "block" \notin running'[Sgsn]
<1>1. running' = [running EXCEPT ![v] = (running[v] \ stopped) \cup started]
  BY DEF SetTimers
<1>2. (running[v] \ stopped) \cup started \in SUBSET Timers
  BY DEF LinkTypes
<1>3. running' \in [Vcs -> SUBSET Timers]
  BY <1>1, <1>2 DEF LinkTypes
<1>4. \A u \in Vcs : running'[u] = IF u = v THEN (running[v] \ stopped) \cup started ELSE running[u]
  BY <1>1 DEF LinkTypes
<1> QED  BY <1>3, <1>4, Peers

LEMMA BecomesTypes ==
  ASSUME LinkTypes, NEW v \in Vcs, NEW new \in States, Becomes(v, new)
  PROVE  /\ vc_state' \in [Vcs -> States]
         /\ vc_state'[v] = new
         /\ \A u \in Vcs \ {v} : vc_state'[u] = vc_state[u]
  BY DEF Becomes, LinkTypes

-----------------------------------------------------------------------------
(* One lemma for each alternative of f_ScanEvents, and one for the path. *)

LEMMA LinkUpStep ==
  ASSUME LinkInv, NEW v \in Vcs, LinkUp(v)
  PROVE  LinkInv'
<1> USE DEF LinkInv
<1>1. link' = [link EXCEPT ![v] = TRUE] /\ ~link[v]
  BY DEF LinkUp, LinkEvent
<1>2. CASE v = Sgsn
  <2>1. UNCHANGED <<vc_state, running, air>> /\ link' \in [Vcs -> BOOLEAN] /\ link'[Bss] = link[Bss]
    BY <1>1, <1>2, Peers DEF LinkUp, LinkTypes
  <2> QED
    BY <2>1 DEF LinkTypes, Roles, ResetFirst, Confirmed, BssAlive, Unblocked
<1>3. CASE v = Bss
  <2>1. vc_state[Bss] = "DEAD_BLOCKED" /\ Enabled(Bss)
    BY <1>1, <1>3 DEF Roles, Enabled
  <2>2. /\ vc_state' = [vc_state EXCEPT ![Bss] = "WAIT_RESET"]
        /\ SetTimers(Bss, AfterReset, {}) /\ Tx(Bss, <<"RESET">>)
    BY <1>3, <2>1, Peers DEF LinkUp
  <2>3. <<"RESET">> \in Seq(Pdus) /\ Ordered(<<"RESET">>)
        /\ \A p : Carries(<<"RESET">>, p) <=> p = "RESET"
    BY Contents DEF Pdus
  <2>4. Moves(Bss, <<"RESET">>)
    BY <2>2, <2>3, Transmitted, Peers
  <2>5. ~Carries(air[Sgsn], "UNBLOCK") /\ ~Carries(air[Bss], "UNBLOCK_ACK")
    BY <2>1 DEF ResetFirst, Confirmed, BssAlive
  <2>6. /\ \A p : Carries(air'[Bss], p) => Carries(air[Bss], p)
        /\ \A p : Carries(air'[Sgsn], p) <=> Carries(air[Sgsn], p) \/ p = "RESET"
        /\ Ordered(air'[Sgsn])
    BY <2>3, <2>4, <2>5, Moved, Peers DEF ResetFirst
  <2>7. /\ running' \in [Vcs -> SUBSET Timers] /\ "block" \notin running'[Sgsn]
    <3>1. AfterReset \in SUBSET Timers
      BY DEF AfterReset, Timers
    <3> QED  BY <2>2, <3>1, TimersTypes, Peers DEF Roles
  <2>8. /\ vc_state' \in [Vcs -> States] /\ vc_state'[Bss] = "WAIT_RESET"
        /\ vc_state'[Sgsn] = vc_state[Sgsn]
    BY <2>2, Peers DEF LinkTypes, States
  <2>9. link' \in [Vcs -> BOOLEAN] /\ link'[Bss] = TRUE
    BY <1>1, <1>3 DEF LinkTypes
  <2>10. LinkTypes'
    BY <2>4, <2>7, <2>8, <2>9 DEF LinkTypes, Moves
  <2>11. Roles'
    BY <2>6, <2>7, <2>8, <2>9 DEF Roles
  <2>12. ResetFirst' /\ Confirmed'
    BY <2>5, <2>6, <2>8 DEF ResetFirst, Confirmed, Unblocked
  <2> QED  BY <2>10, <2>11, <2>12
<1> QED  BY <1>2, <1>3, Peers

LEMMA ResetTimeoutStep ==
  ASSUME LinkInv, NEW v \in Vcs, ResetTimeout(v)
  PROVE  LinkInv'
<1> USE DEF LinkInv
<1>1. v = Bss /\ vc_state[Bss] = "WAIT_RESET"
  BY Peers DEF ResetTimeout, Roles
<1>2. /\ UNCHANGED <<vc_state, link>> /\ SetTimers(Bss, AfterReset, {"reset"})
      /\ Tx(Bss, <<"RESET">>)
  BY <1>1 DEF ResetTimeout, Expire, Stays
<1>3. <<"RESET">> \in Seq(Pdus) /\ Ordered(<<"RESET">>)
      /\ \A p : Carries(<<"RESET">>, p) <=> p = "RESET"
  BY Contents DEF Pdus
<1>4. Moves(Bss, <<"RESET">>)
  BY <1>2, <1>3, Transmitted, Peers
<1>5. ~Carries(air[Sgsn], "UNBLOCK") /\ ~Carries(air[Bss], "UNBLOCK_ACK")
  BY <1>1 DEF ResetFirst, Confirmed, BssAlive
<1>6. /\ \A p : Carries(air'[Bss], p) => Carries(air[Bss], p)
      /\ \A p : Carries(air'[Sgsn], p) <=> Carries(air[Sgsn], p) \/ p = "RESET"
      /\ Ordered(air'[Sgsn])
  BY <1>3, <1>4, <1>5, Moved, Peers DEF ResetFirst
<1>7. running' \in [Vcs -> SUBSET Timers] /\ "block" \notin running'[Sgsn]
  <2>1. AfterReset \in SUBSET Timers
    BY DEF AfterReset, Timers
  <2> QED  BY <1>2, <2>1, TimersTypes, Peers DEF Roles
<1>8. LinkTypes'
  BY <1>2, <1>4, <1>7 DEF LinkTypes, Moves
<1>9. Roles'
  BY <1>1, <1>2, <1>6, <1>7 DEF Roles
<1>10. ResetFirst' /\ Confirmed'
  BY <1>1, <1>2, <1>5, <1>6 DEF ResetFirst, Confirmed, Unblocked
<1> QED  BY <1>8, <1>9, <1>10

\* NS-UNBLOCK follows the last NS-RESET.
LEMMA RxResetAckStep ==
  ASSUME LinkInv, NEW v \in Vcs, RxResetAck(v)
  PROVE  LinkInv'
<1> USE DEF LinkInv
<1>1. v = Bss /\ vc_state[Bss] = "WAIT_RESET"
  BY Peers DEF RxResetAck, Roles
<1>2. /\ RxTx(Bss, {"RESET_ACK"}, <<"ALIVE", "UNBLOCK">>) /\ Becomes(Bss, "ALIVE_BLOCKED")
      /\ SetTimers(Bss, {"alive", "block"}, {"reset"})
  BY <1>1 DEF RxResetAck
<1>3. /\ <<"ALIVE", "UNBLOCK">> \in Seq(Pdus) /\ Ordered(<<"ALIVE", "UNBLOCK">>)
      /\ \A p : Carries(<<"ALIVE", "UNBLOCK">>, p) <=> p \in {"ALIVE", "UNBLOCK"}
  BY Contents DEF Pdus
<1>4. Moves(Bss, <<"ALIVE", "UNBLOCK">>) /\ link' = link
  BY <1>2, <1>3, Received, Peers
<1>5. ~Carries(air[Bss], "UNBLOCK_ACK")
  BY <1>1 DEF Confirmed, BssAlive
<1>6. /\ \A p : Carries(air'[Bss], p) => Carries(air[Bss], p)
      /\ \A p : Carries(air'[Sgsn], p) <=> Carries(air[Sgsn], p) \/ p \in {"ALIVE", "UNBLOCK"}
      /\ Ordered(air'[Sgsn])
  BY <1>3, <1>4, Moved, Peers DEF ResetFirst
<1>7. running' \in [Vcs -> SUBSET Timers] /\ "block" \notin running'[Sgsn]
  <2>1. {"alive", "block"} \in SUBSET Timers
    BY DEF Timers
  <2> QED  BY <1>2, <2>1, TimersTypes, Peers DEF Roles
<1>8. /\ vc_state' \in [Vcs -> States] /\ vc_state'[Bss] = "ALIVE_BLOCKED"
      /\ vc_state'[Sgsn] = vc_state[Sgsn]
  BY <1>2, BecomesTypes, Peers DEF States
<1>9. LinkTypes'
  BY <1>4, <1>7, <1>8 DEF LinkTypes, Moves
<1>10. Roles'
  BY <1>1, <1>4, <1>6, <1>7, <1>8 DEF Roles
<1>11. ResetFirst' /\ Confirmed'
  BY <1>5, <1>6, <1>8 DEF ResetFirst, Confirmed, BssAlive, Unblocked
<1> QED  BY <1>9, <1>10, <1>11

\* A reset blocks the SGSN side before the BSS side was told anything else.
LEMMA RxResetStep ==
  ASSUME LinkInv, NEW v \in Vcs, RxReset(v)
  PROVE  LinkInv'
<1> USE DEF LinkInv
<1>1. /\ RxTx(v, {"RESET"}, <<"RESET_ACK", "ALIVE">>) /\ Becomes(v, "ALIVE_BLOCKED")
      /\ SetTimers(v, {"alive", "test"}, {})
  BY DEF RxReset
<1>2. /\ <<"RESET_ACK", "ALIVE">> \in Seq(Pdus)
      /\ \A p : Carries(<<"RESET_ACK", "ALIVE">>, p) <=> p \in {"RESET_ACK", "ALIVE"}
  BY Contents DEF Pdus
<1>3. /\ Moves(v, <<"RESET_ACK", "ALIVE">>) /\ link' = link
      /\ air[v] # <<>> /\ Head(air[v]) = "RESET"
  <2>1. /\ Moves(v, <<"RESET_ACK", "ALIVE">>) /\ link' = link
        /\ air[v] # <<>> /\ Head(air[v]) \in {"RESET"}
    BY <1>1, <1>2, Received
  <2> QED  BY <2>1
<1>4. Carries(air[v], "RESET")
  BY <1>3, Taken DEF LinkTypes
<1>5. v = Sgsn
  BY <1>4, Peers DEF Roles
<1>6. ~Unblocked(Bss) /\ ~Carries(air[Bss], "UNBLOCK_ACK")
  BY <1>4, <1>5 DEF Confirmed
<1>7. /\ \A p : Carries(air'[Sgsn], p) => Carries(air[Sgsn], p)
      /\ \A p : Carries(air'[Bss], p) <=> Carries(air[Bss], p) \/ p \in {"RESET_ACK", "ALIVE"}
      /\ Ordered(air'[Sgsn])
  BY <1>2, <1>3, <1>5, Moved, Peers DEF ResetFirst
<1>8. running' \in [Vcs -> SUBSET Timers] /\ "block" \notin running'[Sgsn]
  <2>1. {"alive", "test"} \in SUBSET Timers
    BY DEF Timers
  <2> QED  BY <1>1, <2>1, TimersTypes, Peers DEF Roles
<1>9. /\ vc_state' \in [Vcs -> States] /\ vc_state'[Sgsn] = "ALIVE_BLOCKED"
      /\ vc_state'[Bss] = vc_state[Bss]
  BY <1>1, <1>5, BecomesTypes, Peers DEF States
<1>10. LinkTypes'
  BY <1>3, <1>8, <1>9 DEF LinkTypes, Moves
<1>11. Roles'
  BY <1>3, <1>7, <1>8, <1>9 DEF Roles
<1>12. ResetFirst' /\ Confirmed'
  BY <1>6, <1>7, <1>9 DEF ResetFirst, Confirmed, BssAlive, Unblocked
<1> QED  BY <1>10, <1>11, <1>12

LEMMA AckTypes ==
  \A a \in {"ALIVE", "ALIVE_ACK", "STATUS"} :
      /\ <<a>> \in Seq(Pdus) /\ Ordered(<<a>>)
      /\ \A p \in {"RESET", "UNBLOCK", "UNBLOCK_ACK"} : ~Carries(<<a>>, p)
<1> SUFFICES ASSUME NEW a \in {"ALIVE", "ALIVE_ACK", "STATUS"}
             PROVE  /\ <<a>> \in Seq(Pdus) /\ Ordered(<<a>>)
                    /\ \A p \in {"RESET", "UNBLOCK", "UNBLOCK_ACK"} : ~Carries(<<a>>, p)
  OBVIOUS
<1>1. a \in Pdus /\ a \notin {"RESET", "UNBLOCK", "UNBLOCK_ACK"}
  BY DEF Pdus
<1>2. <<a>> \in Seq(Pdus) /\ Ordered(<<a>>) /\ \A p : Carries(<<a>>, p) <=> p = a
  BY <1>1, Contents
<1> QED  BY <1>1, <1>2

LEMMA AnswerStep ==
  ASSUME LinkInv, NEW v \in Vcs, NEW ps, NEW stopped,
         NEW pdus \in {<<>>, <<"ALIVE_ACK">>, <<"STATUS">>},
         Answer(v, ps, pdus, stopped)
  PROVE  LinkInv'
<1>1. /\ pdus \in Seq(Pdus) /\ Ordered(pdus)
      /\ ~Carries(pdus, "RESET") /\ ~Carries(pdus, "UNBLOCK") /\ ~Carries(pdus, "UNBLOCK_ACK")
  <2>1. CASE pdus = <<>>
    BY <2>1, Contents
  <2>2. CASE pdus = <<"ALIVE_ACK">>
    BY <2>2, AckTypes
  <2>3. CASE pdus = <<"STATUS">>
    BY <2>3, AckTypes
  <2> QED  BY <2>1, <2>2, <2>3
<1>2. RxTx(v, ps, pdus) /\ vc_state' = vc_state /\ SetTimers(v, {}, stopped)
  BY DEF Answer, Stays
<1>3. Moves(v, pdus) /\ link' = link
  BY <1>1, <1>2, Received DEF LinkInv
<1>4. running' \in [Vcs -> SUBSET Timers] /\ "block" \notin running'[Sgsn]
  <2>1. {} \in SUBSET Timers /\ "block" \notin {} /\ LinkTypes /\ "block" \notin running[Sgsn]
    BY DEF LinkInv, Roles
  <2> QED  BY <1>2, <2>1, TimersTypes
<1> QED  BY <1>1, <1>2, <1>3, <1>4, QuietStep

LEMMA RxAliveAckStep ==
  ASSUME LinkInv, NEW v \in Vcs, RxAliveAck(v)
  PROVE  LinkInv'
<1>1. /\ RxTx(v, {"ALIVE_ACK"}, <<>>) /\ vc_state' = vc_state
      /\ SetTimers(v, AfterAliveAck, {"alive"})
  BY DEF RxAliveAck, Stays
<1>2. Moves(v, <<>>) /\ link' = link
  <2>1. <<>> \in Seq(Pdus) /\ LinkTypes
    BY DEF LinkInv
  <2> QED  BY <1>1, <2>1, Received
<1>3. AfterAliveAck \in SUBSET Timers /\ "block" \notin AfterAliveAck
  BY DEF AfterAliveAck, Timers
<1>4. running' \in [Vcs -> SUBSET Timers] /\ "block" \notin running'[Sgsn]
  BY <1>1, <1>3, TimersTypes DEF LinkInv, Roles
<1> QED  BY <1>1, <1>2, <1>4, Contents, QuietStep

LEMMA TestTimeoutStep ==
  ASSUME LinkInv, NEW v \in Vcs, TestTimeout(v)
  PROVE  LinkInv'
<1>1. /\ Tx(v, <<"ALIVE">>) /\ vc_state' = vc_state /\ link' = link
      /\ SetTimers(v, {"alive"}, {"test"})
  BY DEF TestTimeout, Expire, Stays
<1>2. /\ <<"ALIVE">> \in Seq(Pdus) /\ Ordered(<<"ALIVE">>) /\ ~Carries(<<"ALIVE">>, "RESET")
      /\ ~Carries(<<"ALIVE">>, "UNBLOCK") /\ ~Carries(<<"ALIVE">>, "UNBLOCK_ACK")
  BY AckTypes
<1>3. Moves(v, <<"ALIVE">>)
  BY <1>1, <1>2, Transmitted DEF LinkInv
<1>4. {"alive"} \in SUBSET Timers
  BY DEF Timers
<1>5. running' \in [Vcs -> SUBSET Timers] /\ "block" \notin running'[Sgsn]
  BY <1>1, <1>4, TimersTypes DEF LinkInv, Roles
<1> QED  BY <1>1, <1>2, <1>3, <1>5, QuietStep

LEMMA LoseStep ==
  ASSUME LinkInv, NEW v \in Vcs, Lose(v)
  PROVE  LinkInv'
<1>1. /\ air[v] # <<>> /\ air' = [air EXCEPT ![v] = Tail(@)]
      /\ UNCHANGED <<vc_state, running, link>>
  BY DEF Lose
<1>2. air[v] \in Seq(Pdus) /\ Tail(air[v]) \in Seq(Pdus)
  BY <1>1, Taken DEF LinkInv, LinkTypes
<1>3. air[PeerOf[v]] \o <<>> = air[PeerOf[v]] /\ PeerOf[v] \in Vcs /\ PeerOf[v] # v
  BY Peers DEF LinkInv, LinkTypes
<1>4. Moves(v, <<>>)
  BY <1>1, <1>2, <1>3 DEF Moves, LinkInv, LinkTypes
<1>5. running' \in [Vcs -> SUBSET Timers] /\ "block" \notin running'[Sgsn]
  BY <1>1 DEF LinkInv, LinkTypes, Roles
<1> QED  BY <1>1, <1>4, <1>5, Contents, QuietStep

\* An NS-UNBLOCK that is answered has left no NS-RESET behind it.
LEMMA UnblockRead ==
  ASSUME LinkInv, NEW v \in Vcs, RxTx(v, {"UNBLOCK"}, <<"UNBLOCK_ACK">>)
  PROVE  /\ v = Sgsn /\ BssAlive /\ ~Carries(air'[Sgsn], "RESET")
         /\ Moves(Sgsn, <<"UNBLOCK_ACK">>) /\ link' = link
         /\ <<"UNBLOCK_ACK">> \in Seq(Pdus) /\ Ordered(<<"UNBLOCK_ACK">>)
         /\ \A p : Carries(<<"UNBLOCK_ACK">>, p) <=> p = "UNBLOCK_ACK"
<1>1. /\ <<"UNBLOCK_ACK">> \in Seq(Pdus) /\ Ordered(<<"UNBLOCK_ACK">>)
      /\ \A p : Carries(<<"UNBLOCK_ACK">>, p) <=> p = "UNBLOCK_ACK"
  BY Contents DEF Pdus
<1>2. /\ Moves(v, <<"UNBLOCK_ACK">>) /\ link' = link
      /\ air[v] # <<>> /\ Head(air[v]) = "UNBLOCK" /\ air'[v] = Tail(air[v])
  <2>1. /\ Moves(v, <<"UNBLOCK_ACK">>) /\ link' = link
        /\ air[v] # <<>> /\ Head(air[v]) \in {"UNBLOCK"} /\ air'[v] = Tail(air[v])
    BY <1>1, Received DEF LinkInv
  <2> QED  BY <2>1
<1>3. air[v] \in Seq(Pdus) /\ Carries(air[v], "UNBLOCK")
  BY <1>2, Taken DEF LinkInv, LinkTypes
<1>4. v = Sgsn
  BY <1>3, Peers DEF LinkInv, Roles
<1>5. BssAlive /\ Ordered(air[Sgsn])
  BY <1>3, <1>4 DEF LinkInv, ResetFirst
<1>6. ~Carries(air'[Sgsn], "RESET")
  BY <1>2, <1>3, <1>4, <1>5, Taken
<1> QED  BY <1>1, <1>2, <1>4, <1>5, <1>6

LEMMA RxUnblockAgainStep ==
  ASSUME LinkInv, NEW v \in Vcs, RxUnblockAgain(v)
  PROVE  LinkInv'
<1>1. /\ Unblocked(v) /\ RxTx(v, {"UNBLOCK"}, <<"UNBLOCK_ACK">>) /\ vc_state' = vc_state
      /\ SetTimers(v, {}, {})
  BY DEF RxUnblockAgain, Answer, Stays
<1>2. running' \in [Vcs -> SUBSET Timers] /\ "block" \notin running'[Sgsn]
  BY <1>1, TimersTypes DEF LinkInv, Roles
<1>3. ~Carries(<<"UNBLOCK_ACK">>, "RESET") /\ ~Carries(<<"UNBLOCK_ACK">>, "UNBLOCK")
  BY <1>1, UnblockRead
<1> QED  BY <1>1, <1>2, <1>3, UnblockRead, QuietStep, Peers

LEMMA RxUnblockStep ==
  ASSUME LinkInv, NEW v \in Vcs, RxUnblock(v)
  PROVE  LinkInv'
<1> USE DEF LinkInv
<1>1. Blocked(v) /\ Becomes(v, "ALIVE_UNBLOCKED") /\ SetTimers(v, {}, {"block"})
  BY DEF RxUnblock
<1>2. running' \in [Vcs -> SUBSET Timers] /\ "block" \notin running'[Sgsn]
  BY <1>1, TimersTypes DEF Roles
<1>3. /\ vc_state' \in [Vcs -> States] /\ vc_state'[v] = "ALIVE_UNBLOCKED"
      /\ \A u \in Vcs \ {v} : vc_state'[u] = vc_state[u]
  BY <1>1, BecomesTypes DEF States
<1>4. CASE RxTx(v, {"UNBLOCK"}, <<"UNBLOCK_ACK">>)
  <2>1. /\ v = Sgsn /\ BssAlive /\ ~Carries(air'[Sgsn], "RESET")
        /\ Moves(Sgsn, <<"UNBLOCK_ACK">>) /\ link' = link
        /\ <<"UNBLOCK_ACK">> \in Seq(Pdus)
        /\ \A p : Carries(<<"UNBLOCK_ACK">>, p) <=> p = "UNBLOCK_ACK"
    BY <1>4, UnblockRead
  <2>2. /\ \A p : Carries(air'[Sgsn], p) => Carries(air[Sgsn], p)
        /\ \A p : Carries(air'[Bss], p) <=> Carries(air[Bss], p) \/ p = "UNBLOCK_ACK"
        /\ Ordered(air'[Sgsn])
    BY <2>1, Moved, Peers DEF ResetFirst
  <2>3. vc_state'[Sgsn] = "ALIVE_UNBLOCKED" /\ vc_state'[Bss] = vc_state[Bss]
    BY <1>3, <2>1, Peers
  <2>4. LinkTypes'
    BY <1>2, <1>3, <2>1 DEF LinkTypes, Moves
  <2>5. Roles'
    BY <1>2, <2>1, <2>2, <2>3 DEF Roles
  <2>6. ResetFirst' /\ Confirmed'
    BY <2>1, <2>2, <2>3 DEF ResetFirst, Confirmed, BssAlive, Unblocked
  <2> QED  BY <2>4, <2>5, <2>6
<1>5. CASE RxTx(v, Confirmation, <<>>)
  <2>1. /\ Moves(v, <<>>) /\ link' = link
        /\ air[v] # <<>> /\ Head(air[v]) = "UNBLOCK_ACK"
    <3>1. <<>> \in Seq(Pdus)
      OBVIOUS
    <3>2. /\ Moves(v, <<>>) /\ link' = link
          /\ air[v] # <<>> /\ Head(air[v]) \in Confirmation
      BY <1>5, <3>1, Received
    <3> QED  BY <3>2 DEF Confirmation
  <2>2. Carries(air[v], "UNBLOCK_ACK")
    BY <2>1, Taken DEF LinkTypes
  <2>3. LinkTypes'
    BY <1>2, <1>3, <2>1 DEF LinkTypes, Moves
  <2>4. CASE v = Bss
    <3>1. BssAlive /\ Unblocked(Sgsn) /\ ~Carries(air[Sgsn], "RESET")
      BY <2>2, <2>4 DEF Confirmed
    <3>2. /\ \A p : Carries(air'[Bss], p) => Carries(air[Bss], p)
          /\ \A p : Carries(air'[Sgsn], p) <=> Carries(air[Sgsn], p)
          /\ Ordered(air'[Sgsn])
      BY <2>1, <2>4, Moved, Contents, Peers DEF ResetFirst
    <3>3. vc_state'[Bss] = "ALIVE_UNBLOCKED" /\ vc_state'[Sgsn] = vc_state[Sgsn]
      BY <1>3, <2>4, Peers
    <3>4. link[Bss]
      BY <3>1 DEF Roles, BssAlive
    <3>5. Roles'
      BY <1>2, <2>1, <3>2, <3>3, <3>4 DEF Roles
    <3>6. ResetFirst' /\ Confirmed'
      BY <3>1, <3>2, <3>3 DEF ResetFirst, Confirmed, BssAlive, Unblocked
    <3> QED  BY <2>3, <3>5, <3>6
  <2>5. CASE v = Sgsn
    <3>1. /\ \A p : Carries(air'[Sgsn], p) => Carries(air[Sgsn], p)
          /\ \A p : Carries(air'[Bss], p) <=> Carries(air[Bss], p)
          /\ Ordered(air'[Sgsn])
      BY <2>1, <2>5, Moved, Contents, Peers DEF ResetFirst
    <3>2. vc_state'[Sgsn] = "ALIVE_UNBLOCKED" /\ vc_state'[Bss] = vc_state[Bss]
      BY <1>3, <2>5, Peers
    <3>3. Roles'
      BY <1>2, <2>1, <3>1, <3>2 DEF Roles
    <3>4. ResetFirst' /\ Confirmed'
      BY <3>1, <3>2 DEF ResetFirst, Confirmed, BssAlive, Unblocked
    <3> QED  BY <2>3, <3>3, <3>4
  <2> QED  BY <2>4, <2>5, Peers
<1> QED  BY <1>4, <1>5 DEF RxUnblock

LEMMA BlockTimeoutStep ==
  ASSUME LinkInv, NEW v \in Vcs, BlockTimeout(v)
  PROVE  LinkInv'
<1> USE DEF LinkInv
<1>1. /\ Blocked(v) /\ "block" \in running[v] /\ SetTimers(v, AfterBlockTimeout, {"block"})
      /\ Tx(v, <<"UNBLOCK">>) /\ UNCHANGED <<vc_state, link>>
  BY DEF BlockTimeout, Expire, Stays
<1>2. v = Bss /\ BssAlive
  BY <1>1, Peers DEF Roles, Blocked, BssAlive
<1>3. <<"UNBLOCK">> \in Seq(Pdus) /\ Ordered(<<"UNBLOCK">>)
      /\ \A p : Carries(<<"UNBLOCK">>, p) <=> p = "UNBLOCK"
  BY Contents DEF Pdus
<1>4. Moves(Bss, <<"UNBLOCK">>)
  BY <1>1, <1>2, <1>3, Transmitted
<1>5. /\ \A p : Carries(air'[Bss], p) => Carries(air[Bss], p)
      /\ \A p : Carries(air'[Sgsn], p) <=> Carries(air[Sgsn], p) \/ p = "UNBLOCK"
      /\ Ordered(air'[Sgsn])
  BY <1>3, <1>4, Moved, Peers DEF ResetFirst
<1>6. running' \in [Vcs -> SUBSET Timers] /\ "block" \notin running'[Sgsn]
  <2>1. AfterBlockTimeout \in SUBSET Timers
    BY DEF AfterBlockTimeout, Timers
  <2> QED  BY <1>1, <1>2, <2>1, TimersTypes DEF Roles
<1>7. LinkTypes'
  BY <1>1, <1>4, <1>6 DEF LinkTypes, Moves
<1>8. Roles'
  BY <1>1, <1>5, <1>6 DEF Roles
<1>9. ResetFirst' /\ Confirmed'
  BY <1>1, <1>2, <1>5 DEF ResetFirst, Confirmed, BssAlive, Unblocked
<1> QED  BY <1>7, <1>8, <1>9

-----------------------------------------------------------------------------

LEMMA ReceiveStep ==
  ASSUME LinkInv, NEW v \in Vcs, Receive(v)
  PROVE  LinkInv'
<1>1. CASE RxAlive(v)
  BY <1>1, AnswerStep DEF RxAlive
<1>2. CASE RxOther(v)
  <2>1. CASE Answer(v, Ignored(v), <<>>, {})
    BY <2>1, AnswerStep
  <2>2. CASE Answer(v, Unexpected(v), <<"STATUS">>, {})
    BY <2>2, AnswerStep
  <2> QED  BY <1>2, <2>1, <2>2 DEF RxOther
<1> QED
  BY <1>1, <1>2, RxResetStep, RxResetAckStep, RxAliveAckStep, RxUnblockStep, RxUnblockAgainStep
     DEF Receive

LEMMA LinkInitially == Init => LinkInv
<1> SUFFICES ASSUME Init PROVE LinkInv
  OBVIOUS
<1> USE Peers DEF Init, NSVCInit
<1>1. LinkTypes
  BY DEF LinkTypes, States, Timers
<1>2. \A v \in Vcs : air[v] = <<>> /\ vc_state[v] = "DEAD_BLOCKED" /\ running[v] = {}
  OBVIOUS
<1>3. Roles /\ ResetFirst /\ Confirmed
  BY <1>2, Contents DEF Roles, ResetFirst, Confirmed, Unblocked
<1> QED  BY <1>1, <1>3 DEF LinkInv

LEMMA LinkNext == LinkInv /\ [Next]_vars => LinkInv'
<1> SUFFICES ASSUME LinkInv, [Next]_vars PROVE LinkInv'
  OBVIOUS
<1>1. CASE UNCHANGED vars
  BY <1>1 DEF vars, nsvcVars, LinkInv, LinkTypes, Roles, ResetFirst, Confirmed, BssAlive, Unblocked
<1>2. CASE Next
  BY <1>2, LinkUpStep, ReceiveStep, ResetTimeoutStep, BlockTimeoutStep, TestTimeoutStep, LoseStep
     DEF Next, Timeout
<1> QED  BY <1>1, <1>2

\* The argument as a whole, for any weights, losses and bounds.
THEOREM LinkInvariant == Spec => []LinkInv
<1> QED  BY LinkInitially, LinkNext, PTL DEF Spec

\* However often NS-RESET and NS-UNBLOCK (f_sendReset, Tns_block) were repeated, lost
\* or delayed, the BSS side only considers the NS-VC unblocked when the SGSN side does.
THEOREM LinkUnblockedTogether == Spec => []UnblockedTogether
<1>1. LinkInv => UnblockedTogether
  BY DEF LinkInv, Confirmed, UnblockedTogether
<1> QED  BY <1>1, LinkInvariant, PTL
=============================================================================
