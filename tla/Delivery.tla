------------------------------ MODULE Delivery ------------------------------
(***************************************************************************)
(* What a queue promises its users: a message that was sent is handed to   *)
(* at most one receiver, and nobody receives what was not sent.  Each      *)
(* sender sends one message, named after it; each receiver takes one.      *)
(***************************************************************************)
CONSTANTS Sender, Receiver,
          Nothing    \* what a receiver has before it receives, no sender

VARIABLES
    sent,     \* the senders whose message has been sent
    got       \* what each receiver has

Init == sent = {} /\ got = [r \in Receiver |-> Nothing]

Send(s) ==
    /\ s \notin sent
    /\ sent' = sent \union {s}
    /\ UNCHANGED got

Receive(r, s) ==
    /\ got[r] = Nothing
    /\ s \in sent /\ \A x \in Receiver : got[x] # s
    /\ got' = [got EXCEPT ![r] = s]
    /\ UNCHANGED sent

Next == \E s \in Sender : Send(s) \/ \E r \in Receiver : Receive(r, s)

Spec == Init /\ [][Next]_<<sent, got>>
=============================================================================
