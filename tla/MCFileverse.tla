------------------------------ MODULE MCFileverse ------------------------------
\* Instances of Fileverse for TLC.
EXTENDS Fileverse

CONSTANTS c1, c2, c3, t1, t2, v1, v2

===============================================================================
