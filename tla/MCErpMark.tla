---------------------------- MODULE MCErpMark --------------------------------
EXTENDS ErpMark

CONSTANTS w1, w2

MCWorkers == {w1, w2}
==============================================================================
