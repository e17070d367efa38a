---------------------------- MODULE ChildProcess ----------------------------
(***************************************************************************)
(* The programs that fork one child and talk to it, or wait for it:        *)
(*   "pipe"         pipe_example/main.c                                    *)
(*   "one_way"      just_study/15.pipeline_test/one_way.c                  *)
(*   "interactive"  just_study/15.pipeline_test/interactive.c              *)
(*   "socketpair"   just_study/4.socketpair/socketpair_fork.c              *)
(*   "alone"        just_study/4.socketpair/socketpair_ex.c, no child      *)
(*   "wait4"        multi_process_example/main.c                           *)
(* Parent and child run through a list of calls each.  Every descriptor is *)
(* open in both after fork: a read sees the end of its pipe only when      *)
(* nobody, the reader included, has the other end open.                    *)
(***************************************************************************)
EXTENDS Integers, Sequences

VARIABLES
    kind,     \* which program runs; never changes
    fork,     \* "before", "ok", "failed", or "never"
    at,       \* how many calls each process has made
    state,    \* of each process
    open,     \* the descriptors it has open
    data,     \* what has been written to each channel and not read: its writers
    got       \* what its last read returned: the writer, "end", or "nothing"

vars == <<kind, fork, at, state, open, data, got>>

Kinds == {"pipe", "one_way", "interactive", "socketpair", "alone", "wait4"}
Process == {"parent", "child"}

\* fds[0] and fds[1] of two pipes, and sd[0] and sd[1] of a pair.
In == [r1 |-> "1", r2 |-> "2", sd0 |-> "2", sd1 |-> "1"]
Out == [w1 |-> "1", w2 |-> "2", sd0 |-> "1", sd1 |-> "2"]

Descriptors(k) ==
    CASE k \in {"pipe", "one_way"} -> {"r1", "w1"}
      [] k = "interactive" -> {"r1", "w1", "r2", "w2"}
      [] k \in {"socketpair", "alone"} -> {"sd0", "sd1"}
      [] k = "wait4" -> {}

\* Wrong on purpose: the receiver keeps its writing end, or one pipe serves
\* for both directions.
BugReceiver == << <<"read", "r1">>, <<"close", "r1">> >>
BugAsker == << <<"write", "w1">>, <<"read", "r1">> >>

\* The else branch of pipe_example, and the child of interactive.
Asker == << <<"write", "w1">>, <<"read", "r2">> >>
Receiver == << <<"close", "w1">>, <<"read", "r1">>, <<"close", "r1">> >>

Calls(k, p) ==
    CASE k = "pipe" /\ p = "child" -> << <<"close", "r1">>, <<"write", "w1">>, <<"close", "w1">> >>
      [] k = "pipe" /\ p = "parent" -> Receiver
      [] k = "one_way" /\ p = "child" -> << <<"write", "w1">> >>
      [] k = "one_way" /\ p = "parent" -> << <<"read", "r1">> >>
      [] k = "interactive" /\ p = "child" -> Asker
      [] k = "interactive" /\ p = "parent" -> << <<"read", "r1">>, <<"write", "w2">> >>
      [] k = "socketpair" /\ p = "child" ->
            << <<"close", "sd0">>, <<"write", "sd1">>, <<"read", "sd1">>, <<"close", "sd1">> >>
      [] k = "socketpair" /\ p = "parent" ->
            << <<"close", "sd1">>, <<"read", "sd0">>, <<"write", "sd0">>, <<"close", "sd0">> >>
      [] k = "alone" -> << <<"write", "sd0">>, <<"read", "sd1">>, <<"close", "sd0">>, <<"close", "sd1">> >>
      [] k = "wait4" /\ p = "child" -> << <<"execl", "ls">> >>
      [] k = "wait4" /\ p = "parent" -> << <<"wait4", "child">> >>

Init ==
    /\ kind \in Kinds
    /\ fork = IF kind = "alone" THEN "never" ELSE "before"
    /\ at = [p \in Process |-> 0]
    /\ state = [p \in Process |-> IF p = "child" THEN "unborn" ELSE "running"]
    /\ open = [p \in Process |-> IF p = "child" THEN {} ELSE Descriptors(kind)]
    /\ data = [c \in {"1", "2"} |-> {}]
    /\ got = [p \in Process |-> "nothing"]
-----------------------------------------------------------------------------
Fork ==
    /\ fork = "before" /\ state["parent"] = "running"
    /\ fork' = "ok"
    /\ state' = [state EXCEPT !["child"] = "running"]
    /\ open' = [open EXCEPT !["child"] = open["parent"]]
    /\ UNCHANGED <<kind, at, data, got>>

\* fork returns -1.  The two pipeline programs take their else branch, which is
\* the parent's; the others end.
ForkFails ==
    /\ fork = "before" /\ state["parent"] = "running"
    /\ fork' = "failed"
    /\ IF kind \in {"one_way", "interactive"}
         THEN UNCHANGED <<state, open>>
         ELSE /\ state' = [state EXCEPT !["parent"] = "done"]
              /\ open' = [open EXCEPT !["parent"] = {}]
    /\ UNCHANGED <<kind, at, data, got>>

IsOpen(fds) == \E p \in Process : open[p] \intersect fds # {}
Readers(c) == {fd \in DOMAIN In : In[fd] = c}
Writers(c) == {fd \in DOMAIN Out : Out[fd] = c}

Go(p) == at' = [at EXCEPT ![p] = @ + 1]
Ends(p, s) ==
    /\ state' = [state EXCEPT ![p] = s]
    /\ open' = [open EXCEPT ![p] = {}]

\* The call is the next one of a process; after fork, if the program has one.
NextIs(p, call, fd) ==
    /\ state[p] = "running" /\ fork # "before"
    /\ at[p] < Len(Calls(kind, p))
    /\ Calls(kind, p)[at[p] + 1] = <<call, fd>>
    /\ UNCHANGED <<kind, fork>>

Close(p, fd) ==
    /\ NextIs(p, "close", fd)
    /\ open' = [open EXCEPT ![p] = @ \ {fd}]
    /\ Go(p) /\ UNCHANGED <<state, data, got>>

\* SIGPIPE when nobody can read it.
Write(p, fd) ==
    /\ NextIs(p, "write", fd)
    /\ IF IsOpen(Readers(Out[fd]))
         THEN /\ data' = [data EXCEPT ![Out[fd]] = @ \union {p}]
              /\ Go(p) /\ UNCHANGED <<state, open>>
         ELSE Ends(p, "sigpipe") /\ UNCHANGED <<at, data>>
    /\ UNCHANGED got

\* A message is whole: it is shorter than PIPE_BUF and than the reader's buffer.
Read(p, fd) ==
    /\ NextIs(p, "read", fd)
    /\ \/ \E w \in data[In[fd]] :
             /\ got' = [got EXCEPT ![p] = w]
             /\ data' = [data EXCEPT ![In[fd]] = {}]
       \/ /\ data[In[fd]] = {} /\ ~IsOpen(Writers(In[fd]))
          /\ got' = [got EXCEPT ![p] = "end"] /\ UNCHANGED data
    /\ Go(p) /\ UNCHANGED <<state, open>>

\* execl succeeds and ls ends, or it fails and the child exits.
Execl(p) ==
    /\ NextIs(p, "execl", "ls")
    /\ Ends(p, "done") /\ UNCHANGED <<at, data, got>>

Wait4(p) ==
    /\ NextIs(p, "wait4", "child")
    /\ state["child"] # "running"
    /\ Go(p) /\ UNCHANGED <<state, open, data, got>>

Return(p) ==
    /\ state[p] = "running" /\ fork # "before" /\ at[p] = Len(Calls(kind, p))
    /\ Ends(p, "done") /\ UNCHANGED <<kind, fork, at, data, got>>

\* An interrupt.
Kill(p) ==
    /\ state[p] = "running"
    /\ Ends(p, "killed") /\ UNCHANGED <<kind, fork, at, data, got>>

Step(p) ==
    \/ \E fd \in {"r1", "w1", "r2", "w2", "sd0", "sd1"} : Close(p, fd) \/ Write(p, fd) \/ Read(p, fd)
    \/ Execl(p) \/ Wait4(p) \/ Return(p)

Next == Fork \/ ForkFails \/ \E p \in Process : Step(p) \/ Kill(p)

Spec == Init /\ [][Next]_vars

Run(p) == Step(p) \/ (p = "parent" /\ (Fork \/ ForkFails))
FairSpec == Spec /\ \A p \in Process : WF_vars(Run(p))
-----------------------------------------------------------------------------
TypeOK ==
    /\ kind \in Kinds /\ fork \in {"before", "ok", "failed", "never"}
    /\ at \in [Process -> Nat] /\ \A p \in Process : at[p] <= Len(Calls(kind, p))
    /\ state \in [Process -> {"unborn", "running", "done", "killed", "sigpipe"}]
    /\ open \in [Process -> SUBSET Descriptors(kind)]
    /\ data \in [{"1", "2"} -> SUBSET Process]
    /\ got \in [Process -> Process \union {"nothing", "end"}]

Asks(p) == \E j \in DOMAIN Calls(kind, p) : Calls(kind, p)[j][1] = "read"
Partner(p) == IF kind = "alone" \/ p = "child" THEN "parent" ELSE "child"

\* In every order of the calls of parent and child, each that reads gets the
\* other's message and not its own or the end, and nobody is hit by SIGPIPE,
\* unless somebody is interrupted or fork fails.
Understood ==
    (fork \in {"ok", "never"} /\ \A p \in Process : state[p] # "killed") =>
        \A p \in Process :
            /\ state[p] # "sigpipe"
            /\ state[p] = "done" /\ Asks(p) => got[p] = Partner(p)

\* Whatever happens to the other one, a process ends: the programs close the
\* ends they do not use.  The two pipeline programs do not, and wait for an end
\* they have open themselves, when the other is interrupted or never born.
OrphansEnd ==
    \A p \in Process :
        state[p] = "running" ~>
            \/ state[p] # "running"
            \/ /\ kind \in {"one_way", "interactive"}
               /\ (fork = "failed" \/ \E q \in Process : state[q] = "killed")
=============================================================================
