----------------------------- MODULE MCChatKeys -----------------------------
EXTENDS ChatKeys

CONSTANTS c1, c2, p1, p2, t1
=============================================================================
