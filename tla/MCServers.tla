----------------------------- MODULE MCServers ------------------------------
\* Small instances of Servers for TLC.
EXTENDS Servers

CONSTANTS c1, c2, nobody, root, p1, p2, p3

MCWord == {<<"p">>, <<"p", "t">>, <<"x", "t">>, <<"p", "t", "x">>, <<"x", "t", "x", "p", "t">>}
=============================================================================
