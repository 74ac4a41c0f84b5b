------------------------------ MODULE MCDelivery ------------------------------
\* Instances of Delivery for TLC.
EXTENDS Delivery, TLC

CONSTANTS s1, s2

MCSessions == {s1, s2}
=============================================================================
