----------------------------- MODULE MCDmqLink -----------------------------
EXTENDS DmqLink, TLC

CONSTANTS s1, s2

MCServer == {s1, s2}
=============================================================================
