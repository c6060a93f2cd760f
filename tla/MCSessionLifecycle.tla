------------------------- MODULE MCSessionLifecycle -------------------------
EXTENDS SessionLifecycle, TLC

CONSTANTS o1, o2, d1, d2, d3, dev1, dev2

MCOneOpener == {o1}
MCTwoOpeners == {o1, o2}
MCSessions == {d1, d2, d3}
MCOneDevice == {dev1}
MCTwoDevices == {dev1, dev2}
=============================================================================
