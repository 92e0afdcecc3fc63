------------------------------ MODULE MCRSLBts -------------------------------
(* Instances of RSLBts: two transceivers and a channel on each; two of the  *)
(* handlers share the first channel.                                        *)
EXTENDS RSLBts

CONSTANTS h3, c1, c2, t1, t2, k1, k2
TrxOfLchan == [c \in Lchans |-> IF c = c1 THEN t1 ELSE t2]
ChannelOf == [h \in Hdlrs |-> IF h = h3 THEN c2 ELSE c1]
OwnRa == [h \in Hdlrs |-> CHOOSE r \in Ras : r = h]
OwnConn == [t \in Trxs |-> IF t = t1 THEN k1 ELSE k2]
=============================================================================
