----------------------------- MODULE MCMessages -----------------------------
\* A small instance of Messages for TLC.
EXTENDS Messages

CONSTANTS s1, s2, s3, r1, r2, none

Types == {-2, 0, 1, 2}
=============================================================================
