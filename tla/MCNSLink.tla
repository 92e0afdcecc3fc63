------------------------------ MODULE MCNSLink ------------------------------
(* Instances of NSLink for TLC. *)
EXTENDS NSLink

BackToBack == [v \in {Bss, Sgsn} |-> IF v = Bss THEN Sgsn ELSE Bss]
=============================================================================
