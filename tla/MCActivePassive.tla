--------------------------- MODULE MCActivePassive ---------------------------
EXTENDS ActivePassiveProperties
=============================================================================
