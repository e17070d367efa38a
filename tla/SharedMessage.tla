--------------------------- MODULE SharedMessage ----------------------------
(***************************************************************************)
(* Messages left in shared memory for a polling receiver, three times, and *)
(* kind tells which one runs:                                              *)
(*   "posix"  shared_memory_example/main.c posix recv|send                 *)
(*   "sysv"   shared_memory_example/main.c sysv recv|send                  *)
(*   "file"   mmap_example_2/main.c -f monitor|send                        *)
(* Nothing is locked: a field is stored in a step of its own, and whatever *)
(* strcpy, strncpy, memset and memcpy do to a text is two steps, one for   *)
(* each half.  A text is two cells; a message is one or two of them long.  *)
(***************************************************************************)
EXTENDS Integers, Sequences

CONSTANTS
    Sender, Receiver,   \* the processes, each runs once
    Message,            \* what senders send: sequences of one or two cells
    Nul,                \* a cell of zero bytes
    MONITORING_COUNT    \* the receiver stops after this many reports ("file": never)

\* A cell tells whether its text ends in it.
ASSUME MessageAssumption ==
    /\ \A m \in Message : /\ m \in Seq({m[1], m[Len(m)]}) /\ Len(m) \in 1 .. 2
                           /\ Nul \notin {m[1], m[Len(m)]}
    /\ \A m, k \in Message : Len(m) = 1 /\ Len(k) = 2 => m[1] # k[1]
    /\ MONITORING_COUNT \in Nat \ {0}

VARIABLES
    kind,      \* the program that runs; never changes
    careful,   \* whether its users keep to Proper; never changes
    object,    \* the shared object: "none", "empty" (no bytes yet), "sized"
    mem,       \* its content
    rpc,       \* where each receiver is
    local,     \* its copy
    n,         \* its count of reports
    printed,   \* history: what its last printf showed
    writes,    \* history: the stores of others into mem since it began to clear it
    cut,       \* history: a receiver was clearing mem during the last send
    spc,       \* where each sender is
    message    \* what it sends

fixed == <<kind, careful>>
receivers == <<rpc, local, n, printed>>
senders == <<spc, message>>
vars == <<fixed, object, mem, receivers, writes, cut, senders>>

\* sizeof(message) in the senders is the size of a pointer.
PointerSize == 8

Zero == [size |-> 0, text |-> [i \in 1 .. 2 |-> Nul]]

\* What %s prints: the text up to the first NUL.
Shown(m) ==
    [size |-> m.size,
     text |-> IF m.text[1] = Nul THEN << >>
              ELSE IF <<m.text[1]>> \in Message \/ m.text[2] = Nul THEN <<m.text[1]>>
              ELSE m.text]

Init ==
    /\ kind \in {"posix", "sysv", "file"} /\ careful \in BOOLEAN
    /\ object = "none" /\ mem = Zero
    /\ rpc = [r \in Receiver |-> "start"]
    /\ local = [r \in Receiver |-> Zero]
    /\ n = [r \in Receiver |-> 0]
    /\ printed = [r \in Receiver |-> Shown(Zero)]
    /\ writes = [r \in Receiver |-> 0]
    /\ cut = FALSE
    /\ spc = [s \in Sender |-> "start"]
    /\ message = [s \in Sender |-> << >>]

\* shm_open and open create an object without bytes, shmget one with all.
Created ==
    IF object # "none" THEN object ELSE IF kind = "sysv" THEN "sized" ELSE "empty"

Sending == {"clear_size", "clear_head", "clear_tail", "size", "head", "tail"}

\* Careful users wait for one send to end before the next and interrupt none
\* (an assumption on them).  They may start and kill receivers at any time.
Proper == \A s \in Sender : spc[s] \notin Sending

\* A sender's store ...
Store(new) ==
    /\ mem' = new
    /\ writes' = [r \in Receiver |-> writes[r] + 1]
    /\ UNCHANGED cut

\* ... and one with which receiver r clears the object under whoever uses it.
Clear(r, new) ==
    /\ mem' = new
    /\ writes' = [x \in Receiver |-> IF x = r THEN writes[r] ELSE writes[x] + 1]
    /\ cut' = (cut \/ ~Proper)

Clearing(r) == rpc[r] \in {"clear_head", "clear_tail"}
-----------------------------------------------------------------------------
At(r, here, next) == rpc[r] = here /\ rpc' = [rpc EXCEPT ![r] = next]

ROpen(r) ==
    /\ At(r, "start", "size")
    /\ object' = Created
    /\ UNCHANGED <<fixed, mem, local, n, printed, writes, cut, senders>>

\* ftruncate ("sysv": nothing to do) and mmap or shmat.
RSize(r) ==
    /\ At(r, "size", "clear_size")
    /\ object' = "sized"
    /\ UNCHANGED <<fixed, mem, local, n, printed, writes, cut, senders>>

\* The receiver clears the object, size, head and tail ...
RClearSize(r) ==
    /\ At(r, "clear_size", "clear_head")
    /\ mem' = [mem EXCEPT !.size = 0]
    /\ writes' = [x \in Receiver |-> IF x = r THEN 0 ELSE writes[x] + 1]
    /\ cut' = (cut \/ ~Proper)
    /\ UNCHANGED <<fixed, object, local, n, printed, senders>>

RClearHead(r) ==
    /\ At(r, "clear_head", "clear_tail")
    /\ Clear(r, [mem EXCEPT !.text[1] = Nul])
    /\ UNCHANGED <<fixed, object, local, n, printed, senders>>

\* ... and its own copy.  The file monitor goes on with a first report.
RClearTail(r) ==
    /\ At(r, "clear_tail", IF kind = "file" THEN "copy" ELSE "watch")
    /\ Clear(r, [mem EXCEPT !.text[2] = Nul])
    /\ UNCHANGED <<fixed, object, local, n, printed, senders>>

\* Wrong on purpose: memcmp of the header alone, and no memcmp.
BugDiffers(r) == local[r].size # mem.size
BugAlwaysDiffers(r) == TRUE

Differs(r) == local[r] # mem

\* memcmp after the sleep.
RNotice(r) ==
    /\ Differs(r)
    /\ At(r, "watch", IF kind = "file" THEN "copy" ELSE "print")
    /\ UNCHANGED <<fixed, object, mem, local, n, printed, writes, cut, senders>>

\* posix and sysv print the shared memory, the file monitor prints its copy.
PrintSource(r) == IF kind = "file" THEN local[r] ELSE mem

RPrint(r) ==
    /\ At(r, "print", IF kind = "file" THEN "watch" ELSE "copy")
    /\ printed' = [printed EXCEPT ![r] = Shown(PrintSource(r))]
    /\ UNCHANGED <<fixed, object, mem, local, n, writes, cut, senders>>

\* memcpy, in two parts.
RCopyHead(r) ==
    /\ At(r, "copy", "copy_tail")
    /\ local' = [local EXCEPT ![r].size = mem.size, ![r].text[1] = mem.text[1]]
    /\ UNCHANGED <<fixed, object, mem, n, printed, writes, cut, senders>>

Last(r) == n[r] + 1 = MONITORING_COUNT

\* The second part; posix and sysv count, and stop after the last report.
RCopyTail(r) ==
    /\ IF kind = "file" THEN At(r, "copy_tail", "print") /\ UNCHANGED n
       ELSE /\ At(r, "copy_tail", IF Last(r) THEN "done" ELSE "watch")
            /\ n' = [n EXCEPT ![r] = @ + 1]
    /\ local' = [local EXCEPT ![r].text[2] = mem.text[2]]
    /\ UNCHANGED <<fixed, object, mem, printed, writes, cut, senders>>

\* Its copy and its count go with it.
RKill(r) ==
    /\ rpc[r] \notin {"start", "done", "killed"}
    /\ rpc' = [rpc EXCEPT ![r] = "killed"]
    /\ local' = [local EXCEPT ![r] = Zero]
    /\ n' = [n EXCEPT ![r] = 0]
    /\ UNCHANGED <<fixed, object, mem, printed, writes, cut, senders>>
-----------------------------------------------------------------------------
GoTo(s, l) == spc' = [spc EXCEPT ![s] = l]

\* A "file" sender does not create the file.  "posix" creates an empty object.
SOpen(s, m) ==
    /\ spc[s] = "start"
    /\ careful => Proper
    /\ message' = [message EXCEPT ![s] = m]
    /\ IF kind = "file" THEN UNCHANGED object ELSE object' = Created
    /\ GoTo(s, IF kind = "file" /\ object = "none" THEN "failed"
               ELSE IF kind = "sysv" THEN "clear_size" ELSE "size")
    /\ cut' = \E r \in Receiver : Clearing(r)
    /\ UNCHANGED <<fixed, mem, receivers, writes>>

\* sysv_gen_info clears the segment for the sender too.
SClearSize(s) ==
    /\ spc[s] = "clear_size"
    /\ Store([mem EXCEPT !.size = 0])
    /\ GoTo(s, "clear_head")
    /\ UNCHANGED <<fixed, object, receivers, message>>

SClearHead(s) ==
    /\ spc[s] = "clear_head"
    /\ Store([mem EXCEPT !.text[1] = Nul])
    /\ GoTo(s, "clear_tail")
    /\ UNCHANGED <<fixed, object, receivers, message>>

SClearTail(s) ==
    /\ spc[s] = "clear_tail"
    /\ Store([mem EXCEPT !.text[2] = Nul])
    /\ GoTo(s, "size")
    /\ UNCHANGED <<fixed, object, receivers, message>>

\* A store into an object without bytes raises SIGBUS.
SBus(s) ==
    /\ spc[s] = "size" /\ object = "empty"
    /\ GoTo(s, "failed")
    /\ UNCHANGED <<fixed, object, mem, receivers, writes, cut, message>>

SSize(s) ==
    /\ spc[s] = "size" /\ object = "sized"
    /\ Store([mem EXCEPT !.size = PointerSize])
    /\ GoTo(s, "head")
    /\ UNCHANGED <<fixed, object, receivers, message>>

\* Wrong on purpose: the copy of the text stops after its first part.
BugMoreToStore(s) == FALSE

\* strcpy stops at the NUL, strncpy fills the rest with zeros.
MoreToStore(s) == kind = "file" \/ Len(message[s]) = 2

SHead(s) ==
    /\ spc[s] = "head"
    /\ Store([mem EXCEPT !.text[1] = message[s][1]])
    /\ GoTo(s, IF MoreToStore(s) THEN "tail" ELSE "done")
    /\ UNCHANGED <<fixed, object, receivers, message>>

STail(s) ==
    /\ spc[s] = "tail"
    /\ Store([mem EXCEPT !.text[2] = IF Len(message[s]) = 2 THEN message[s][2] ELSE Nul])
    /\ GoTo(s, "done")
    /\ UNCHANGED <<fixed, object, receivers, message>>

SKill(s) ==
    /\ ~careful
    /\ spc[s] \in Sending
    /\ GoTo(s, "failed")
    /\ UNCHANGED <<fixed, object, mem, receivers, writes, cut, message>>
-----------------------------------------------------------------------------
Receive(r) == ROpen(r) \/ RSize(r) \/ RClearSize(r) \/ RClearHead(r) \/ RClearTail(r)
                \/ RNotice(r) \/ RPrint(r) \/ RCopyHead(r) \/ RCopyTail(r)
Send(s) == SClearSize(s) \/ SClearHead(s) \/ SClearTail(s)
                \/ SBus(s) \/ SSize(s) \/ SHead(s) \/ STail(s)

Next ==
    \/ \E r \in Receiver : Receive(r) \/ RKill(r)
    \/ \E s \in Sender : (\E m \in Message : SOpen(s, m)) \/ Send(s) \/ SKill(s)

Spec == Init /\ [][Next]_vars

\* Running processes go on; nobody has to start a sender.
FairSpec ==
    /\ Spec
    /\ \A r \in Receiver : WF_vars(Receive(r))
    /\ \A s \in Sender : WF_vars(Send(s))
-----------------------------------------------------------------------------
Cell == {Nul} \union {m[1] : m \in Message} \union {m[Len(m)] : m \in Message}
Content == [size : {0, PointerSize}, text : [1 .. 2 -> Cell]]

TypeOK ==
    /\ kind \in {"posix", "sysv", "file"} /\ careful \in BOOLEAN
    /\ object \in {"none", "empty", "sized"}
    /\ mem \in Content
    /\ rpc \in [Receiver -> {"start", "size", "clear_size", "clear_head", "clear_tail", "watch",
                             "print", "copy", "copy_tail", "done", "killed"}]
    /\ local \in [Receiver -> Content]
    /\ n \in [Receiver -> 0 .. MONITORING_COUNT]
    /\ writes \in [Receiver -> Nat] /\ cut \in BOOLEAN
    /\ spc \in [Sender -> Sending \union {"start", "done", "failed"}]
    /\ message \in [Sender -> Message \union {<< >>}]

\* Users who send one at a time never find a text put together of two messages:
\* while nobody sends, the text is a message that was sent, its beginning or
\* nothing.  This although strcpy leaves the tail of a longer message behind a
\* shorter one, and although a receiver may clear the memory in the middle of a
\* send or while several pass.  It is the whole message, or nothing, unless a
\* receiver was clearing during the last send.
WholeAtRest ==
    careful /\ Proper /\ Shown(mem).text # << >> =>
        \/ Shown(mem).text \in Message
        \/ cut /\ \E m \in Message : Shown(mem).text = <<m[1]>>

\* Every report is owed to a store of another process: the receiver does not
\* reach MONITORING_COUNT on fewer stores, although it copies the memory while
\* it changes and clears it itself.  (One message may be several reports, or
\* none.)
ReportsAreEarned == \A r \in Receiver : n[r] <= writes[r]

\* When the senders are done every receiver that runs holds what is in memory.
\* The file monitor, which copies first, has then also printed it: whatever it
\* reported on the way, its last line is the content of the file.  (The other
\* two print before they copy, and may miss a change for good.)
ReceiverSettles ==
    \A r \in Receiver :
        <>[](rpc[r] \notin {"done", "killed"} =>
                /\ rpc[r] = "watch" /\ local[r] = mem
                /\ kind = "file" => printed[r] = Shown(mem))
=============================================================================
