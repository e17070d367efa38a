# Models of linux_programming_example

The repository is a collection of small Linux programs, each showing one
mechanism: semaphores, threads, shared memory, pipes, message queues, sockets,
processes, signals. They share no code and do not call each other. What makes
them worth modelling is that each is one side of a protocol between processes
that run at the same time: several invocations of the same binary meet in a
kernel object (a semaphore set, a shared memory segment, a fifo, a queue, a
connection), and almost nothing is locked.

This directory holds TLA+ modules of those protocols, TLC configurations that
check them on small instances, and TLAPS proofs for every value of the
constants. `PROJECT.json` lists components, runs, mutants, the definitions with
the source lines they stand for, the hazards and the theorems.

## 1. Inventory

| Component | Source | State | Operations | Hard behaviour | Module |
|---|---|---|---|---|---|
| System V semaphores | `semaphore_example/main.c:51-152` | the set in the kernel, each process's undo values | `init`, `get`, `release`, `wait0`, `show` | initialisation loop against users, sleeping, uninitialised `sem_flg`, index truncation, interrupts | `SysvSemaphore` |
| POSIX named semaphore | `main.c:248-323` | name, value | `show`, `wait`, `trywait`, `timewait`, `release` | deadline against post, value that outlives processes | `NamedSemaphore` |
| POSIX unnamed semaphore | `main.c:154-246` | shared object: `sem_t`, pid, count; the monitor's copy | `monitor`, `get`, `put` | unlocked reads, monitor restarted over sleepers, SIGBUS | `UnnamedSemaphore` |
| Threads | `multi_thread_example/main.c` | `share_memory`, mutex, log file | two thread functions, create, join, detach, destroy | interleaving, `exit` in a thread | `MutexThreads` |
| TCP echo | `8.echo_service_tcp` | byte streams, listen queue, buffers | client loop, server loop | partial reads and writes, full buffers, resets, SIGPIPE | `EchoTcp` |
| Forking TCP echo | `12.fork_echo_service` | process table, descriptors, queue | accept, fork, echo | descriptors inherited, child falls back into `main`'s loop | `ForkEcho` |
| Shared memory messages | `shared_memory_example/main.c` | segment or object, the receiver's copy | `posix`/`sysv` `recv`, `send` | torn reads, senders that clear, change between print and copy | `SharedMessage` |
| Mapped file | `mmap_example_2/main.c:34-111` | file, the monitor's copy | `-f monitor`, `-f send` | same | `SharedMessage` |
| Anonymous mapping | `mmap_example_2/main.c:113-184` | mapping, children | `-a` | coalesced and doubled changes, wait loop | `AnonMonitor` |
| Named pipe | `namePipe_example/main.c` | path, fifos and files | `s`, `r` | unlink/mkfifo/open race, stranded readers | `NamedPipe` |
| Message queues | `sysv_example/main.c`, `posix_mq_example/main.c` | queue | `s`, `r` | full queue, selection by type | `MessageQueue` |
| Unix sockets | `socket_example/main.c` | bound path, queue before accept, stream or datagrams | `s`, `c` | path that stays bound, pieces, refusals | `UnixSocket` |
| UDP echo | `9.echo_service_udp` | datagram queues, one buffer on each side | client loop, server loop | loss, duplicates, late answers, buffers that are never cleared | `UdpEcho` |
| Hello world server | `2.hello_world` | request buffer | connect, type, parse, answer | buffer not cleared, lines longer than it, a client that stays at its prompt | `HelloWorld` |
| Parent and child | `pipe_example`, `15.pipeline_test`, `4.socketpair`, `multi_process_example` | descriptors of both, channels | fork, close, write, read, `execl`, `wait4` | end of file behind inherited descriptors, failed fork, SIGPIPE | `ChildProcess` |
| The rest | `3.ls`, signals, mmap copy, conversions, broadcast and others | | | | section 9 |

What makes each correct:

* semaphores: permits are neither lost nor invented; nobody is told "taken" while
  one is free; waiting ends when it can;
* monitors (`unnamed`, shared memory, mapped file, anonymous mapping): every
  report is owed to a change, and every change is seen in the end;
* threads: no lost addition, a complete result after the joins;
* echo servers: each client gets its own bytes back, once, in order; one process
  per connection; with datagrams, at least nothing of others in place of his own;
* pipes, queues and sockets: a message reaches one reader, at most and at least;
* parent and child: each understands the other, and neither waits for one that
  has ended.

## 2. Conventions

* One action per system call or per access to shared memory; what happens
  between two of them inside one process is part of the action before.
* A session, sender, getter ... is a *user* who starts the binary; the process
  ends in a final value of its `pc`, and where commands repeat, goes back to idle.
* The kernel and glibc are modelled from how the code uses them, and are marked
  external in the map.
* `careful` separates what the *program* guarantees from what it needs its *users* to
  do: the programs enforce no protocol on their users. It is a variable chosen in
  `Init` that no step changes: in a behaviour with `careful` the users keep to the
  module's `Proper`, in one without every order of commands is possible, so one run
  and one theorem cover both. Properties that need careful users say so in their
  antecedent (a refinement lets the abstract system stand still for other users);
  type correctness and the rest hold for both. Other fixed choices are made the same
  way: `kind` (which of several programs runs), `garbage` (what an uninitialised
  variable holds), `spaced` (whether sleeps keep children apart), `faulty` (whether the
  network loses and doubles datagrams), `style` (which program a client is).
* `Messages`, `Family` and `Servers` put the programs that answer one question side by
  side. Each EXTENDS one of their modules and INSTANCEs the others on variables of their
  own; a variable `program` that never changes says which moves (`AllSpec`). Nothing else
  connects the programs; the fairness (`AllFairSpec`) is that of their own `FairSpec`.
  One run and one proof module go with each.
* `Kill` is an interrupt (Ctrl-C) of a running or sleeping process.
* Operators called `Bug...` are the faults that every property has been shown to
  detect (`mutants` in `PROJECT.json`); no specification uses them.

## 3. Modules

### Abstract specifications

* `PermitPool`: clients acquire and release permits of pools with a capacity.
  `SysvSemaphore` and `NamedSemaphore` implement it (`PoolSpec`): its `holders` is
  their history variable of that name, which records whose gets outnumber his
  releases.
* `Delivery`: a sent message is received at most once, and only if sent. `NamedPipe`,
  `MessageQueue` and `UnixSocket` implement it: `DeliverySpec` of `Messages` maps
  `sent` to the writers of careful users (`Wrote`), to the log of the queue (`Logged`) or
  to the clients whose message went out whole (`Ended`), and `got` to what the readers
  have printed. For sockets, a message that came in part is none.

### SysvSemaphore

`semval` is the set, `op[s]` the command of session `s` (or its result `ok`/`err`, or
`idle`), `num` its `sem_num`, `flg` its `sem_flg`, `adj` the kernel's undo values.
`Start` is `sysv_main` up to the system call and converts the index as the code
does (`int` to `unsigned short`, modulo 65536); `SetVal` is one turn of the
initialisation loop; `Get`, `Release`, `WaitZero` are successful `semop`s; `Fail` the
error returns (EFBIG, EAGAIN, ERANGE); `Exit` and `Kill` the end of the process with the
kernel's undo. A process that sleeps is one whose action is not enabled.

`sem_flg` is never assigned (`main.c:94-97`). It is a choice from `garbage`, one of the
sets of the flag sets a build may leave there. The compilers at hand happened to leave
it zero; the run has a build with 0 or IPC_NOWAIT and one with IPC_NOWAIT or SEM_UNDO.
`LockUse` is what the lock properties need: careful users and no SEM_UNDO. With
SEM_UNDO the kernel takes every permit back when the command ends, and a set of
permits that nobody holds between two commands is no lock.

### NamedSemaphore

`exists`/`value` the semaphore, `op` the commands. `Sleep`/`Timeout` model
`sem_timedwait`; a deadline may pass even as a permit comes back. `Fin` closes and
does not unlink (the call is commented out at line 296), so value and holders
survive every process.

### UnnamedSemaphore

`mem` is the shared structure. The `sem_t` in it has the two fields glibc keeps:
value and number of sleepers; the monitor's `memcmp` covers both, and `sem_init` of a
second monitor resets both, which strands sleepers. `GSleep`, `GWakeTake` and `PPost`
follow that representation. `info->count += 1` is `GLoad` and `GStore`. The monitor's
reads are three steps: `MNotice`, `MPrint`, `MCopy`. One monitor runs at a time, and
may be started again (`MaxRuns`).

The program starts the semaphore with five permits, so up to five gets are between
`sem_wait` and their end at a time and increments do get lost. What it does promise is
the pair `EntriesAreGranted` (no get writes without a permit that `sem_init` or a put
gave) and `IncrementsAreKept` (an increment is lost only when two gets were inside
together, which the history variable `crowded` records, and none is invented). Both hold
for any users, restarts and interrupts.

### MutexThreads

Program counters of both threads and of `main`. `exit(0)` on a failing `open`, and
failing `pthread_create` and `pthread_detach` end the process at any point.
Detaching a joined thread is undefined behaviour: either result.

### EchoTcp

A byte is a triple (client, line, position). `c2s`/`s2c` are what a connection holds
in each direction. Reads and writes move any non-empty part that fits. The end of a
process is an orderly one ("fin") or, with unread bytes, a reset ("rst"). What calls
return after each was taken from Linux: a read after a reset returns -1 once and 0
afterwards, `write(fd, buf, -1)` fails with EFAULT, a write to an ended peer is
accepted once and raises SIGPIPE the second time. A line is not longer than what a
connection buffers (8192 bytes in the code, less than the default socket
buffers); `EchoAssumption` states it. Lines with NUL bytes are left out.

### ForkEcho

`pc`, `c_socket` and descriptors of each process. `Return` is the end of `do_echo`: the
child runs on into the accept loop, its listening socket closed; `AcceptFails` is
what it finds there. Zombies keep their entry of the process table (nobody waits).

### SharedMessage

One module, three programs (`kind`). Differences are where the code has them: who
creates the object and with which size (`Created`), who clears it, print before copy
(`posix`, `sysv`) or after (`file`), `strcpy` or `strncpy`, a limit of reports or none.
A text is two cells, enough for torn reads and for the tail of a long text behind a
short one. Every `strcpy`, `strncpy`, `memcpy` and `memset` of a text is two steps, so a
receiver that starts may clear the first half of a message, wait while the sender stores
both, and then clear the second: `cut` records that a receiver was clearing during the
last send, and `WholeAtRest` says that then, and only then, a careful sender's text may be
left without its end.

### AnonMonitor

The fork loop, the monitor and the wait loop of the parent and the three stores of
each child (pid, a text under construction, the text). `spaced` is the
assumption that the children's sleeps keep their writes apart.

### NamedPipe

Files are named after the sender that made them, by `mkfifo` or by `open(O_CREAT)` of a
path that another sender unlinked. `Meet` is the rule by which opens of a fifo wait
for each other. Senders who overlap take each other's fifos away or make a regular file;
`SendersComeThrough` says that those who take turns do not, whoever reads or comes too
late. A reader that has opened a fifo whose name a later sender removes sleeps for ever.

### MessageQueue

`Asked`/`Takes` is the rule of `msgrcv` for zero, positive and negative types; the POSIX
queue has one priority and no types. The System V queue is created with mode 0, so
its users are assumed privileged (others get EACCES in every call).

### UnixSocket

A server binds the path and never unlinks it, so the name outlives it (`Bind` fails until
`Remove`, which is the user's). `Takes` is the rule by which `connect` and `sendto` find a
socket: same type, open, and listening if it is a stream. Stream messages travel in
pieces (`Send`, `Recv`) and end with the client's close; `c` sends `sizeof(message)` bytes,
the size of a pointer, which is `SIZE`. Who is still in the queue when the server ends
is reset, and a client in `Send` gets SIGPIPE.

### UdpEcho

The committed configuration: no alarm, connected client sockets that hear of ICMP errors.
A byte is the client and the number of the line it was typed in, and keeps its place,
because every copy in these programs is from the start of one buffer to the start of
another. The client types n bytes without a NUL behind them (`Typed`), sends and reads
`strlen` bytes; the server stores the text over what its buffer had and returns the
whole buffer (`Received`, `SSend`). `Fresh` are the buffers on the stack before their first
use.
Faults (loss, duplication) are bounded by `MaxFaults`; restarts of the server lose
requests in any behaviour. `Fresh` is any content, with a NUL or without, and a line may
fill the buffer. In a buffer without NUL `strlen` runs on into whatever lies behind; the
client then sends and asks for more than `BUFSIZ` bytes, the server takes and returns
`BUFSIZ` of them, and only those are modelled (`StrLen`).

### HelloWorld

The parser of `2.hello_world/server.c` byte by byte: NUL or NL end a request, CR is stored
and overwritten by the next byte, and `rBuffer` keeps what it had. Clients are the
repository's own (a NUL behind the word), telnet (CR NL) or one that breaks off; `print` is
a word of two letters. Lines have any length. The loop asks whether the buffer is full
after it has stored the byte (`Full`), so a long line writes `rBuffer[BUFSIZ]`, which is the
last element of `Place`, and leaves its rest unread; nothing of the program lies at that
byte (`buffer`, the other static array, is initialised and so in another section). The
client program's own words fit its buffer, which has the same size.

### ChildProcess

Six programs as tables of calls for parent and child (`Calls`) over one model of
descriptors: `fork` copies them, `read` sees the end of a channel when nobody, the reader
included, has its other end open, `write` raises SIGPIPE when nobody can read. When
`fork` fails, the two pipeline programs go on in their else branch, which is the
parent's.

## 4. Runs

All bounds are in the configurations. Sessions, senders and clients are model values.

| Run | Shows | Bounds |
|---|---|---|
| `sysv_semaphore` | `PermitLedger`, `UndoIsBounded`, `PoolSpec`, `ZeroMeansTaken` | 2 sessions, 2 semaphores (initial values 1 and 2), indices -1, 0 and 65537 (which is 1), SEMVMX 2 so that ERANGE and clamping happen; 557,000 states |
| `named_semaphore` | `PermitLedger`, `PoolSpec`, `OnlyWaitHangs` | 3 sessions, 2 permits, overflow at 3 |
| `unnamed_semaphore` | `EntriesAreGranted`, `IncrementsAreKept` | 3 gets, one put, 2 permits (fewer than gets, more than one, so that gets wait and overlap), 2 starts of the monitor, 2 reports; 1,190,000 states |
| `unnamed_settles` | `MonitorSettles` | 2 gets, one put, 2 permits, 2 starts of the monitor, 4 reports; 350,000 states |
| `unnamed_missed` | violation of a comment, see 6 | 5 reports as in the code |
| `servers` (`EchoTcp`, `HelloWorld`, `ForkEcho`) | `TypesOK`, `PipelineIntact`, `AskedIsAnswered`, `OneEchoer`, `ChildOwnsConnection`, `ServedClientGoesOn`, `RequestServed`, `QueueMoves` | echo: 2 clients, 2 lines each of 1 or 3 bytes, buffers of 2; hello world: 2 clients of three styles, a buffer of 4, words shorter than, equal to, longer than and different from the request and one longer than the buffer; fork echo: 2 clients, 4 processes; 54,000 states |
| `fork_echo_bomb` | violation, see 6 | as `servers` |
| `shared_message` | `WholeAtRest`, `ReportsAreEarned`, `ReceiverSettles` | all three programs, 2 senders, a receiver that may be killed, a text of each length, the real limit of 5 reports; 1,640,000 states |
| `family` (`MutexThreads`, `AnonMonitor`, `ChildProcess`) | `TypesOK`, `SumOK`, `JoinedResult`, `NoZombies`, `Understood`, `ThreadsEnd`, `ParentEndsOrStarves`, `OrphansEnd` | threads: 4 and 3 turns; mapping: 3 children (the code has 5; the safety properties are proved for any number), spaced or not; talk: all six programs; 15,000 states |
| `delivery` (`NamedPipe`, `MessageQueue`, `UnixSocket`) | `TypesOK`, `SendersComeThrough`, `TypesInOrder`, `FirstIsHeard`, `DeliverySpec`, `Delivered`, `NobodyStarves` | pipe: 2 senders, 2 readers; queue: both kinds, 3 senders, 2 receivers, room for 2, types -2, 0, 1 and 2 (the first sender keeps to 1, which saves the mirror images); sockets: 2 servers, 2 clients, a queue of 1, messages of 2 pieces; 102,000 states |
| `udp_echo` | `TypeOK`, `EchoIsOwn`, `AnswersAreOwn` | a client with 2 lines and one with 1, lines of 0 to 2 bytes in buffers of 2 that hold anything at first, 2 starts of the server, one fault; 2,050,000 states |
| `udp_answered` | `Answered` | the same, lines of 0 and 1 byte, one start of the server, which may be killed; 270,000 states |

What is proved for every value of the constants (section 7) is not always run as well:
type correctness of the semaphore and shared memory modules, `BusyMeansTaken`, `NothingLost` of
the queues, the reports of `UnnamedSemaphore` and `AnonMonitor`, mutual exclusion and the log
of the threads have theorems and no run of their own.

What the runs say of the newer modules, where it may surprise: `FirstIsHeard`: a server
that ends by itself heard the client that reached it first, whole unless interrupted,
although a connection exists before it is accepted. `EchoIsOwn`: without faults a UDP
client prints what it has just sent, unless it has once sent an empty datagram: `read` of 0
bytes leaves that answer in the queue and shifts all later ones. `AnswersAreOwn`: with
faults it still begins with a line of its own; other clients' bytes follow behind it.
`NoZombies`: when a fork fails in the middle the parent of the mapping leaves at once,
and the children it has forked stay behind unwaited for; else a parent that ends well has
reaped them all. `Answered` and `OrphansEnd` name the exceptions the code has: a client whose datagram was
lost waits for ever, and so do the two pipeline programs that keep both ends of their
pipes open, when the other process is interrupted or never born. `RequestServed`
excepts a client that dawdles at its prompt while the server reads from it. `QueueMoves`
counts a connection that is lost with an ended server as one that moved on, and
`NobodyStarves` is about receivers: a sender at a full queue waits for users.

Why these are enough: the interesting conflicts need two actors and one resource
short, the subtle ones a third actor (a waiter passed over; a second reader of one
fifo; a sender between another's `mkfifo` and `open`). Buffers of two bytes and lines of
three make every split of a line occur; two initialised semaphores make the loop
interruptible between them and cover both initial values. Two servers at one path are
enough for a client to meet a name whose owner is gone, two starts of the UDP server
for a buffer that forgets. One lost or doubled datagram is what a late answer takes.

`CHECK_DEADLOCK FALSE` stands where every process may have ended or may wait for a
user who never comes; the semaphore commands repeat, and deadlock is checked there.

## 5. Fairness

* Weak fairness of each running process: the scheduler runs it. Users are not fair:
  nobody has to start, type, quit or interrupt.
* `SysvSemaphore` has no fairness. Whether a sleeping `get` comes back is decided by its
  users: who holds the permit, whether he sleeps in a `wait0` of his own, in which order
  he releases what he holds; he may keep one semaphore for ever while he takes and
  returns another. No fairness of the program decides any of it.
* `NamedSemaphore.FairSpec` has weak fairness only: glibc promises no order among
  waiters, so of a waiter nothing is claimed; `OnlyWaitHangs` is about the others.
* `UdpEcho`, `HelloWorld`, `UnixSocket`, `ChildProcess`: weak fairness of the server and of
  clients and processes inside a call that can return. Nobody has to start, type,
  interrupt, remove a path or start a server again; the network is not fair either,
  it is only bounded in its faults.
* `MutexThreads.FairSpec`: weak, although the mutex may go to the count thread again and
  again; `Terminates` (in the run, `ThreadsEnd`) holds because its turns are finite.

## 6. Disagreements between code and comments

* `unnamed_missed`: the comment at `main.c:177` adds a sleep so that the comparison
  works; changes between `printf` and `memcpy` are missed all the same.
* `fork_echo_bomb`: after its client is gone the child of the forking server becomes a
  server without a socket and breeds processes that echo for nobody.

Two more are visible in the model and have no run of their own: a semaphore that
`main.c:23` and `65` call binary reaches 2 by a release nobody had a permit for, and
`wait0`, which `main.c:26` says waits until the value is 0, returns at once when the
uninitialised `sem_flg` has IPC_NOWAIT.

## 7. Proofs

| Module | Theorem | Says |
|---|---|---|
| `SysvSemaphoreProofs` | `TypeCorrect` | `Spec => []TypeOK`, no assumption on users |
| | `LedgerHolds` | `Spec => []PermitLedger`: used as locks, no permit is lost or invented |
| | `PoolImplemented` | and the set implements `PermitPool` |
| | `UndoHolds` | `Spec => []UndoIsBounded`: used in any way, the end of a process undoes one semop at most |
| | `ZeroHolds` | `Spec => ZeroMeansTaken`: `wait0` tells the users of locks the truth |
| `NamedSemaphoreProofs` | `TypeCorrect`, `LedgerHolds`, `BusyIsHonest`, `PoolImplemented` | the same for the named semaphore, and that `trywait` fails only on an empty one |
| `UnnamedSemaphoreProofs` | `TypeCorrect`, `ReportsHold`, `EntriesHold`, `IncrementsHold` | for any number of permits, users and restarts: reports are owed to writes; no get writes without a permit; increments are never invented, and lost only between gets that were inside together |
| `SharedMessageProofs` | `TypeCorrect`, `ReportsHold`, `WholeHolds` | for the three programs and any messages: reports are owed to stores, and senders who take turns leave whole messages, or the beginning of one that a receiver was clearing |
| `FamilyProofs` | `TypesCorrect` | for any numbers of turns and children, `AllSpec => []TypesOK` |
| | `MutexHolds`, `SumHolds`, `LogHolds`, `ResultHolds` | threads: mutual exclusion, no lost addition, rising log, complete result |
| | `ReportsHold`, `NoZombiesHold` | mapping: each report is owed to a write; a parent whose forks succeeded and that ends well has reaped all of its children, and one whose fork failed leaves just those forked before |
| | `UnderstoodHolds` | pipes and socket pairs: in every order of the calls each process gets the other's message |
| `MessagesProofs` | `TypesCorrect` | `AllSpec => []TypesOK` |
| | `ThroughHolds` | named pipe: no call of senders who take turns fails, and what they have open is their own fifo, under the name |
| | `NothingLostHolds`, `OrderHolds` | queue: what was sent is in it or with one receiver; messages of a type keep their order |
| | `FirstHeardHolds` | socket: the first client is heard whole |
| | `AllDeliver` | `AllSpec => DeliverySpec`: all of them implement `Delivery` |
| `ServersProofs` | `TypesCorrect` | for any clients, processes, lines and buffer sizes, `AllSpec => []TypesOK`: among others, the request parser stores one byte behind its buffer at most |
| | `PipelineHolds` | echo: the bytes of a line are each somewhere, once and in order |
| | `AnswersHold` | hello world: the program's own clients are answered on their own words |
| | `OneEchoerHolds`, `OwnershipHolds` | fork echo: one process serves a connection and alone owns it |
| `UdpEchoProofs` | `TypeCorrect`, `EchoHolds`, `AnswersHold` | whatever the buffers hold at first, no copy leaves its buffer; without faults a client prints the line it has just sent; with any, what it prints begins with a line of its own |
| | `NobodyIsForgotten` | a client that waits has an error to report, an answer to read or a request under way, or a datagram of its own was lost |

Every invariant of every passing run has a theorem, and so have the three properties of
runs that are safety properties over steps: `ZeroMeansTaken` and the refinements
`PoolSpec` and `DeliverySpec`.

Assumptions: the named ASSUMEs of the modules and nothing else. `MessagesAssumption`,
`FamilyAssumption` and `ServersAssumption` state for their instances what those modules
define as `PipeAssumption`, `UnixAssumption`, `AnonAssumption`, `HelloAssumption` and
`ForkAssumption`: disjoint names and positive sizes, and that a word of a hello world
client has a letter. The ledgers speak of careful
users (and, for System V, of builds without SEM_UNDO) because the properties do:
`PermitLedger` is `LockUse => Ledger`, and `careful => Ledger`.

* Permits. The ledger (value + holders = initial value) is not inductive by itself: a
  get in flight must still belong to a session outside, a release in flight to one
  inside, and the loop of `sysv_sem_init` must not set a semaphore twice. `LockInv` adds
  exactly that (`InFlightOK` and, for System V, `InitLoopOK`), and that the sets of
  holders are finite. With it each step moves one permit and the library's cardinality
  facts do the rest; the same invariant gives the refinement, step by step. For the undo
  values `UndoInv` says the same as `UndoIsBounded` without cardinalities.
* The unnamed semaphore. A get that ends keeps its permit, which a put by somebody else
  gives back, so the ledger counts ends and posts. A start of the monitor is counted
  before its `sem_init`, which sets the value whatever it was: `GrantInv` adds that until
  then the permits of that start are not used. `KeepInv` says of every get what the count
  it has read is worth: never more than the gets done, and the count itself for one who
  is alone inside.
* Threads. The invariant says who is inside, what the one inside has loaded, what the
  log has reached, and that turns are bounded.
* Monitors. `ReportInv` (`WriteInv` for the anonymous mapping) counts stores against reports
  and says what a difference between memory and the monitor's copy stands for: a store
  that has not been counted as reported. A copy of two cells may be torn by a store in
  its middle and then counts for that store, and what a receiver has cleared and finds
  filled was stored since. `TurnInv` follows one careful sender through its stores, and a
  receiver that has cleared the first half of the text and not yet the second; `FamilyInv` relates the fork loop, the children alive and the wait
  loop's counter.
* Pipe and queue. For senders who take turns, `Named` says that the name is that of the
  last sender's fifo, and `Partners` that a sender whose fifo is open has a reader at it,
  which does not leave before the message has come (so there is no SIGPIPE). `TakesTurns` says where the one message of a sender who is alone can be. `QueueInv` says
  that the queue is what remains of the log, in its order, and that a message is either
  in it or with one receiver.
* Unix socket. `FirstIsHeard` speaks of the server's end, its cause lies in the queue:
  `Arrivals` says that until a server has accepted or received, the first client to
  reach it is at the head of its queue (and nobody else is served), `Bytes` that what a
  client has sent is on the wire or in the buffer of the server that serves it.
* Parent and child. `TalkInv` says, for each of the six programs, where the messages are
  when both have come so far in their calls, and which descriptors are still open; that
  nobody gets SIGPIPE or the end of file follows from the latter.
* Echo. `PipelineIntact` is inductive once it is known that a client that has not
  connected has nothing under way (`NewClient`) and that at its prompt it has written
  and read everything (`Progress`): otherwise the next line would begin behind
  leftovers of the last one. Each step moves bytes over one border between two
  neighbouring sequences.
* Hello world. `WireOK` says that what is left in a connection is the end of the request,
  `ReadOK` that the bytes read so far are at the start of `rBuffer`. So the buffer holds
  the client's word and a NUL when it is compared, whatever lies behind them.
* Fork echo. Who can hold a descriptor is a matter of inheritance: `RootInv` says that the
  root has none but that of the connection it is about to hand over, `OthersInv` that
  another process has only that of its own connection and of closed ones (its
  ancestors'), `WaitingInv` that a connection that waits is known to nobody.
* UDP echo. `OwnInv` says of everything under way (requests, the server's buffer, answers)
  that it begins with a line of the client it is for; it needs `SentInv`, that a client
  that waits has kept what it sent. `FlightInv`
  says that a client that has sent no empty datagram, in a behaviour without faults, has
  one datagram under way at most, which belongs to its last line. `StrLenIs` (what
  lies before the first NUL, if there is one) needs a least member
  of a set of numbers, `LeastMember`, which is proved from the well-foundedness of strict
  inclusion on finite sets: the library's induction over numbers takes an operator,
  which the provers here cannot instantiate.

Only model-checked: every liveness property (`OnlyWaitHangs`, `MonitorSettles`,
`ReceiverSettles`, `ThreadsEnd`, `ParentEndsOrStarves`, `OrphansEnd`, `Delivered`,
`NobodyStarves`, `ServedClientGoesOn`, `RequestServed`, `QueueMoves`, `Answered`), because
fairness and ENABLED are beyond the prover.

## 8. Plan

Done, in this order: the three semaphore modules over `PermitPool`; `MutexThreads`;
`EchoTcp`, `ForkEcho`; `SharedMessage`, `AnonMonitor`; `NamedPipe`, `MessageQueue` over `Delivery`;
`UnixSocket`, `UdpEcho`, `HelloWorld`, `ChildProcess`; the composed modules `Messages`,
`Family`, `Servers`; proofs about every component.

Left: the safety half of the liveness properties as theorems, that is, invariants that
say who can move in a state in which somebody waits (for `ServedClientGoesOn`: a full
buffer on one side of a connection means room or a reader on the other; for
`OrphansEnd`: who waits has closed his own writing end). `NobodyIsForgotten` is that half of
`Answered` and is proved. No further component is planned; the reasons are in section 9.

## 9. Not modelled

Details of modelled programs: formatting, wording and layout of output; addresses,
ports and the success of `socket`, `bind` (but for the UNIX path) and `listen`; the contents of
the TCP echo buffers and the out-of-bounds NUL of `echo_client.c:42`; System V removal of
objects (no program removes any); the exit status of the semaphore program, which is
0 whatever happened; `USE_ALARM` and other branches that are compiled out.

Components:

* `3.ls`: `accept` gets the address of a 4-byte `int` for a `sockaddr_in` of 16 bytes. What it
  overwrites depends on the layout of `main`'s variables, and with it whether the server
  outlives its first client; there is no set of outcomes the source determines.
* `10.broadcasting_udp`: a string pointer is stored in a `char` and an address is passed to
  `htons`; port and destination are what the loader makes of them.
* `14.talk_program`, `mini_project/single_chatting`: do not compile; the README of the second
  calls it abandoned.
* `signal_example`, `13.signal_example`: handlers that print, and a wait; no state is shared
  between handler and main flow.
* `mmap_example`: one process, one pass over a file.
* `11.fork_example`: parent and child increment copies of their own.
* `6`, `7`, `5.getservent`, `time_example`: results of library calls, printed.
* `1.basic`: one connection that carries nothing, a part of `EchoTcp`.
* `file_lock_example`: `main` is empty.
