------------------------------- MODULE MCNSE --------------------------------
(* Instances of NSE for TLC: the far ends of all NS-VCs are free. *)
EXTENDS NSE, TLC

NoPeers == [v \in {} |-> v]
=============================================================================
