-------------------------- MODULE MCSharedMessage ---------------------------
(* A short message and two long ones, two senders and a receiver for TLC.  *)
EXTENDS SharedMessage
CONSTANTS s1, s2, r1
MCMessage == {<<"hi">>, <<"good", "day">>, <<"bad", "luck">>}
=============================================================================
