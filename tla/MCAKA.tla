-------------------------------- MODULE MCAKA --------------------------------
EXTENDS AKA

MCFlips == {<<part, bit>> : part \in {"sqn_ak", "amf", "mac"}, bit \in 0..2}
=============================================================================
