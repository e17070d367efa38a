------------------------------ MODULE MCFamily ------------------------------
\* A small instance of Family for TLC.
EXTENDS Family
=============================================================================
