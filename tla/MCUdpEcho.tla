----------------------------- MODULE MCUdpEcho ------------------------------
\* A small instance of UdpEcho for TLC.
EXTENDS UdpEcho

CONSTANTS c1, c2, nobody

Asks == [c \in Client |-> IF c = c1 THEN 2 ELSE 1]
=============================================================================
