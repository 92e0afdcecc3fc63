------------------------------ MODULE MCRSLBsc -------------------------------
(***************************************************************************)
(* Two testcases of RSLBsc for TLC, with one transceiver and a random      *)
(* reference per handler.  Wild: two assignments share the wait queue, the *)
(* table is short, released channels are reused at once and the link may   *)
(* be lost.  Calm: an assignment of one handler while another enters the   *)
(* BTS by handover.                                                        *)
(***************************************************************************)
EXTENDS RSLBsc

CONSTANTS trx0, h1, h2, c1, c2, c3
OneTrx == [c \in Lchans |-> trx0]
OwnRa == [h \in Hdlrs |-> CHOOSE r \in Ras : r = h]

MCTestcases ==
    {[assigners |-> Hdlrs, targets |-> {}, lchans |-> Lchans, earlyReuse |-> TRUE,
      mayLose |-> TRUE, maxData |-> 0],
     [assigners |-> {h1}, targets |-> {h2}, lchans |-> {c1, c2}, earlyReuse |-> FALSE,
      mayLose |-> FALSE, maxData |-> 1]}
=============================================================================
