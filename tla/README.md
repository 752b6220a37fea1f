# A formal model of the antivirus server

TLA+ specifications of the program in this repository: the server
(`src/server/antivirus_server.c`), the protocol and helpers it shares with its
clients (`include/common.h`, `src/common/`), and the clients
(`src/admin_client/`, `src/ordinary_client/`, `src/windows_client/`). TLC checks
them on small instances; TLAPS proves every safety property and every action property
of the passing runs, and the refinement of the scan queue, for every instance.
Paths and line numbers are those of the repository.

## 1. Inventory

### 1.1 Components

| Component | State it keeps | Operations | Module |
|---|---|---|---|
| Shared state, `server_state_t` | `clients[]`, counters, log level, `server_running`, `admin_client_fd`, four mutexes; the process's descriptors | read and written by all threads | `ServerState` |
| Client thread, `client_thread_handler` | poll set, the connection in hand | poll, accept, admit or reject, find the slot of a descriptor, recv, answer, drop | `ClientThread` |
| Admin thread, `admin_thread_handler` | the session's descriptor, time since the last command | accept one administrator, serve the session, end it | `AdminThread` |
| main and `cleanup_server_state` | - | wait for the flag; close everything; join | `MainThread`; with start-up and locks: `ServerThreads` |
| `signal_handler` | - | log, clear the flag | `MainThread`, `ServerThreads` |
| Processor thread | the job in hand | wait on the semaphore, take, scan, complete, count | `ScanQueue`, an implementation of `ScanService` |
| Monitor thread | inotify descriptor | report new files | its life only: `ServerThreads` |
| Logging, `log_message` | `log_mutex`, level | test the level, lock, write | `ServerThreads` |
| Text protocol | - | split a command, level names, responses | `Protocol` |
| Administration client | `connected`, one outstanding command | the five commands, quit | `AdminClient` |
| UNIX and Windows client, joining | socket, key | connect, exchange keys, register | `Handshake` |
| Encryption, `crypto_common.c` | key and IV | encrypt and decrypt a file, a piece of a stream; the key exchange | `FileCipher`, `KeyExchange` |
| UNIX client, session | socket, key, a temporary file, detached threads | upload, download, status, result, quit; watch a scan | `ClientSession` |
| File transfer, `common.c` | the file, how much is still to come | `receive_file`, `send_file` | `ClientSession` |
| Windows client, session | - | unreachable (section 6) | - |

### 1.2 How they interact

The server has five threads. They share `server_state_t`: `clients[]` under
`clients_mutex`, `job_queue` under `jobs_mutex`, the counters under
`stats_mutex`; `server_running`, `current_log_level` and `admin_client_fd` under
no lock. They also share the descriptor table of the process, which nobody
thinks of as shared: `cleanup_server_state` closes descriptors while the client
and admin threads poll and read them, and the kernel hands a closed number out
again. Threads stop by looking at `server_running` between two rounds. The
administration client talks to the admin thread over a UNIX socket, one command
and one answer at a time; the other clients talk to the client thread over TCP,
first a key exchange in binary, then text commands and, between two of them, the
bytes of a file. The UNIX client starts a thread after every upload that asks
for the status of the scan every two seconds, on the same socket and with no
lock between it and the user's commands.

### 1.3 What is hard here

- **Interleaving on descriptors**: between poll, accept, the look-up of a slot,
  recv and close, other threads close descriptors and numbers are reused
  (lines 309-310, 356-370, 396-414, 52-71).
- **Two locks for one fact**: a slot and the counter that counts it (375-380,
  415-418); a verdict and the scan it belongs to (485-497).
- **One thread for all clients**: nobody may block it in recv, and nobody may
  keep the others from being served (393-434).
- **Shutdown** from three sides (signal, command, failed start-up) while
  threads run, under locks that the signal handler takes too (9-14, 48-88,
  574-610).
- **Protocols that do not fit**: the newline of every command, and a key
  exchange that only the clients know.
- **Streams without boundaries**: commands, replies and files share one stream;
  recv returns any part of it, send may take a part of a buffer, and several
  threads read it (`ordinary_client.cpp:105-123, 184-208, 256-328`,
  `common.c:92-105`).
- **A cipher that starts again with every buffer**: both sides must cut a file
  at the same bytes (`crypto_common.c:51-54, 96-99`).
- **Limits**: slots, descriptors, the accept queue of length one, the job queue.

The properties that make each part correct are listed with the runs (section 4).

## 2. Plan

### 2.1 Order

1. *Connection handling*, the part everything else depends on: `Protocol`,
   `ServerState`, `ClientThread`, `AdminThread`, `MainThread`, `Peers`, composed
   in `AntivirusServer`; proofs in `AntivirusServerProofs` and
   `ConnectionProofs`. Done.
2. *Threads and locks*: `ServerThreads`; `ServerThreadsProofs`. Done.
3. *The scan queue*: `ScanQueue`. Done.
4. *The clients' side of the two protocols*: `AdminClient`, `Handshake`;
   `AdminClientProofs`, `HandshakeProofs`. Done.
5. *The promise of the scan queue*: `ScanService`, and the proof that
   `ScanQueue` implements it, `ScanQueueProofs`. Done.
6. *The ordinary client after the handshake*: `FileCipher`, `KeyExchange`,
   `ClientSession`; `SessionInvariants`, `EncryptionProofs`,
   `ClientSessionProofs`. Done.
7. *Left*: replies a peer leaves unread, as a bounded socket buffer in `Send`,
   which would show what section 4.2 assumes away; a connection service for
   `AntivirusServer` to implement.

### 2.2 Composition and abstraction

`AntivirusServer` EXTENDS the modules of the threads, which EXTEND
`ServerState`: one set of variables, one action per step, one disjunct per
thread. `ServerThreads` looks at the same threads for their locks only, and
`AdminClient` and `Handshake` at what the peers see of them. `ScanService` is
what the server owes to whoever has a file scanned; `ScanQueue` implements it
(refinement mapping: the status and the result of each entry of the queue), and
`ClientSession` is composed with it: the jobs its client asks about move as
`ScanService` lets them. `ClientSession` EXTENDS `KeyExchange`, which EXTENDS
`FileCipher`: the files on its streams are encrypted by the operators the
theorems of `EncryptionProofs` are about. Left is a *connection service* (a set
of connections, each waiting, served, or gone, with a bound on the served ones)
that `AntivirusServer` is to implement, with `Handshake`'s server above it.

### 2.3 Theorems

Proved: section 5, which is every property of a passing run that is not
liveness. Left: that `AntivirusServer` implements the connection service of 2.2,
once that is written.

## 3. The modules

### 3.1 Connection handling

**`Protocol`.** A buffer is a sequence of tokens: a word is one token, and so
are the space and the newline, the two characters the code gives a meaning to.
`ParseAdminCommand`, `StringToLogLevel`, `Is` (strcmp) and `StartsWith`
(strncmp) follow `common.c:16-22, 52-64` and the comparisons in the handlers. A
response is its status and, for GET_STATS, two of its numbers.

**`ServerState`.** `clients[]` with stale numbers in its inactive entries;
`fdTable`, from descriptor numbers to what they stand for; the accept queues;
per peer, the text it sent and has not been read (`inbox`), the last response it
got (a peer that hung up keeps none), whether it hung up. The kernel's part (`LowestFree`, `Close`, `Readable`,
`ReceiveData`, ...) is marked external: accept takes the lowest free number,
close of a listener resets its queue, poll wakes on a closed number (POLLNVAL),
recv blocks on an open connection with nothing to read. A peer stands for one
connection; a program that connects twice is two peers. Numbers are counted
from the admin listener.

**`ClientThread`**, **`AdminThread`**, **`MainThread`.** A program counter per
thread (`c_pc`, `a_pc`, `m_pc`) and its locals. A step is as large as what the
code does under one lock, or between two calls that can be interleaved: poll
is one step, the look-up under `clients_mutex` another, recv another again. A
slot is filled or emptied in one step and counted in the next (`ClientAdmit`,
`ClientCountAdmitted`; `ClientDrop`, `ClientCountDropped`): `clients_mutex` is
held across the two, which keeps the sweep of cleanup out, but GET_STATS takes
only `stats_mutex` and may come between them. Where a failed poll ends a session
the position is "failed" rather than "close", so that the close knows its cause. `close(client_fd)` and `admin_client_fd = -1` are
two steps, as are the two reads of that field in cleanup. The dead branch
"Admin already connected" is kept (`AdminCheck`). `usleep`-like waiting is the
timeout branch of poll, possible when nothing is readable. A local is reset
when its scope ends, which changes no behaviour and merges states.

**`Peers`.** Connect, send one of a given set of texts, hang up, at any time.

**`AntivirusServer`** composes them, states the properties, and holds the
inductive invariant `ConnectionInv`; **`MCAntivirusServer`** gives the constants
their values.

### 3.2 `ServerThreads`

main from its first line to its last and the four workers, reduced to what they
do with mutexes, the flag, the log level and each other. A thread is the
sequence of operations it still has to perform; at the top of its loop it takes
one of the paths the code has through the body. `log_message` tests the level
and, in a later step, locks. `SignalArrives` puts the handler's two operations
in front of whatever a thread was about to do. Socket creation, pthread_create,
poll and inotify may fail (`MayFail`); what a failed pthread_create leaves in
its handle is any of zero and junk, and joining junk returns or ends the
process.

### 3.3 `ScanQueue`

`processor_thread_handler` step by step, with each section of `jobs_mutex` and
`stats_mutex`, and `scan_file_with_clamav` by what it returns. Nothing in the
repository queues a job; the producer is external and does what the semaphore
and `docs/ARHITECTURA_TEHNICA.md:109` require of it: append a pending job under
`jobs_mutex`, then post. The properties of this module are about the processor
under that assumption. `scan_file_with_clamav` meets with one of three things
(`Outcome`): popen fails, a line it reads contains FOUND, or none does. What
clamscan found out about the file is not in the model, for none of the three
says it. The outcome is kept with the job (`scan`), so that the stored result
can be compared with it. **`ScanService`** has one
variable, the jobs, and three actions: submit, take up (after all earlier ones
are done), finish. Results are written once.

### 3.4 `AdminClient` and `Handshake`

`AdminClient`: one action per command handler up to its blocking recv, one for
the answer, with the server's side of the session (accept, execute, idle limit,
stop) as the client sees it. A command that arrives between the timeout of the
server's poll and its close is lost with the session (lines 256-309). Every
reply carries the command it answers as a ghost. `Handshake`: both clients' way from connect to "registered" on a stream
without message boundaries, against the client thread's admit, serve and drop.
That no client ever gets to "registered" is not put into the model: it is a
theorem about it (`NobodyEverJoins`).

### 3.5 `FileCipher`, `KeyExchange` and `ClientSession`

**`FileCipher`.** A byte is the set of its one bits, so XOR is the symmetric
difference and any key works; `KeyIndex` says which byte of the key meets the
i-th byte of a file that is processed in buffers. `EncryptFile` puts the IV in
front; `DecryptFile` wants it there and processes what follows, in buffers of
its own. `SendEncryptedData` and `ReceiveEncryptedData` have no caller in the
repository. fopen and malloc succeed.

**`KeyExchange`.** Square and multiply with the code's numbers; every factor is
below 23 for an honest peer, so 32 bits do not overflow. The loop is five
`Round`s: a private key is at most 20, below 32, and a round with a zero
exponent changes nothing. `srand` and `rand` are
a function of the seed that gives different bytes for different seeds, on both
sides the same one: client and server are built with the same C library.

**`ClientSession`.** The UNIX client from the key exchange to quit, its main
thread (`pc`) and the detached threads that watch a scan (`monitors`), over two
streams. The items of a stream are what the code writes with one meaning: a
command, a reply, a public key, one byte of a file. recv takes any number of the
items that are there, which covers every way in which TCP may cut or join the
messages, down to a byte of a file (that a short line of text arrives in two
pieces is left out); a reply that is taken for bytes of a file is a byte of its
own kind (`Text`). A send of file data may take part of the buffer it was given.
When the server is gone, a send seems to succeed, fails, or ends the process:
the client does not ignore SIGPIPE. Locals are reset when their scope ends.
`monitor_scan_async("1")` is called whatever the server's job id was, so the
threads always ask about job 1. `SessionAssumption` says of the bytes that
stay symbolic only what they are: what is derived from a secret is a key and an
IV of the lengths of `FileCipher` (`derive_key_from_secret` fills both), and a
byte of a reply's text is a byte.

The server of this repository refuses all of these commands, beginning with the
key exchange (`key_taken`). The server of `ClientSession` is the one that
`docs/ARHITECTURA_TEHNICA.md:130-163` describes, made of the functions the
repository has for it: `perform_key_exchange`, `receive_file`, `decrypt_file`,
`encrypt_file`, `send_file`, and one recv and one reply per command as in
`client_thread_handler`. `AboutJob`, `Answers` and `ServerCommand` are external; the client,
the transfers and the cipher are the code's. It may refuse an upload and close
the connection at any time. Its queue is `ScanService`.

`overlapped` is a history variable: was a command ever given while a thread was
watching? Half of the properties hold only as long as it was not. What happens
otherwise is what the code does, and a run without that condition finds it: a
thread's recv takes the "OK Ready" of an upload, which then fails; its command
is written into the middle of the file that is being uploaded, and the server
accepts the file, because nothing but its length and the IV is examined; a
download contains the status of a job.

## 4. Runs

Runs that pass:

| Run | Instance | Shows |
|---|---|---|
| `safety` | 2 clients, 2 administrators, 1 slot, 2 descriptors for connections, failing poll | `SlotsLive`: an active slot names its own open connection. `CountMatches`: the counter is the number of active slots, but for the slot whose change is about to be counted. `NoOrphan`: no descriptor is leaked. `RecvNeverBlocks`: poll's answer is still good when recv is called. `StatsReplySane`: no administrator is told an impossible number, though during shutdown the counter goes wrong. `OneAdmin`: one at a time, and the "already connected" test is never true. `ClosedForCause`: a thread closes only its own kind of connection and only the one in its hands, because the peer is gone, the table full, the session silent beyond the limit, its own poll failed, or the server stopping; also when the number was closed, and given out again, in between. Only main closes any, once the flag is cleared |
| `live_clients` | 2 clients, 2 slots | `HangupFreesSlot`, `ConnectAnswered`, even when another client never stops sending |
| `live_admin` | 1 client, 1 administrator, every form of command | `ShutdownCompletes` from every state, by signal or command; `IdleAdminEvicted`; `TypeOK` (the -1 of an unknown level is not stored); `ConnectionInv`, the inductive invariant |
| `locks` | client and processor thread busy, 1 signal at any time | `LocksOrdered`: one order of locks on all paths, also under the handler |
| `joins` | failing start-up, busy admin thread | `DestroyedWhenIdle`: the mutexes are destroyed when no thread is left. `ShutdownEndsThreads`: every thread that was started ends, and main returns |
| `queue` | 2 producers, 3 jobs, failing semaphore | `ServiceKept`: the queue with its locks and posts implements `ScanService`. `FirstInFirstOut`; `NoJobStranded`: the posts suffice; `CountsAddUp`: verdicts and scans are never more than one apart; `VerdictIsItsOwn`: the stored result is what the job's own scan returned, never another job's (not that it is right: see below); `EveryJobScanned`; `QueueInv`, the inductive invariant |
| `session` | 2 commands, 2 watching threads, 2 jobs, 2 private keys per side | `KeysAgree`: the same secret on both sides, for all 400 pairs of private keys. `UploadIntact`, `DownloadIntact`: files arrive as they were sent. `NoIncompleteFile`, `TempRemoved`: whatever breaks, no partial and no temporary file stays. `RepliesAwaited`: no reply reaches the wrong reader, none is left over. `CommandReturns`: a command returns to the prompt except in the two ways of `Starved`. `MonitorReports`: a watching thread comes to its end |
| `admin_client` | 3 commands | `AnswersMatch`: no reply is shown for another command. `HandlerReturns`: the user interface does not hang. `SessionEnds` |
| `handshake` | a UNIX and a Windows client, 1 slot, 2 attempts each | `AttemptEnds`: neither client waits for ever. `SlotReturned`: a failed attempt leaves no slot occupied |

Runs that refute what the repository says of itself; each is a finding:

| Run | Says | Does |
|---|---|---|
| `signal_stop` | graceful shutdown on SIGINT/SIGTERM (`docs/ARHITECTURA_TEHNICA.md:44`) | the handler logs; on top of a thread that is logging it waits for itself |
| `level_refused` | SET_LOG_LEVEL is answered OK (`docs/ARHITECTURA_TEHNICA.md:121,128`) | the client's newline makes the server refuse every command |
| `key_taken` | Diffie-Hellman, "E2E encryption established" (`README.md:95`, `ordinary_client.cpp:65`) | the client takes "ERRO" of an error message for the server's key; registration then always fails |

Smaller disagreements the modelling met, which have no run of their own:

- The check for an administrator already connected (`antivirus_server.c:234`) is
  dead code (`OneAdmin`): the thread that would accept a second one serves the
  first, and the second waits in the queue as long as the first keeps sending.
- `admin_client_fd` is stale between lines 309 and 310. During shutdown cleanup
  can then close a client's connection as the administrator's (line 60).
- A client accepted before the sweep of cleanup and admitted after it stays open
  until the process ends (lines 63-75).
- A signal before `init_server_state` is undone by line 24. Line 87 logs under
  a mutex destroyed at line 83. A failed `pthread_create` leaves an undefined
  handle, which is joined if it is not zero (lines 75, 594).
- The "Connection lost" branch of the administration client
  (`admin_client.cpp:342`) is not reached when the server ends the session: the
  next send raises SIGPIPE.
- "ERROR" is a result of its own in `docs/ARHITECTURA_TEHNICA.md:224`, but the
  -1 of a scan that could not be started is stored and counted as INFECTED
  (`antivirus_server.c:483`); when clamscan itself cannot be run popen succeeds,
  no line with FOUND is read, and the file is CLEAN. FOUND is looked for in
  lines that also hold the file's path (`common.c:149-162`). `SCAN_ERROR` and
  `stats.errors` are never used.
- A download hangs when the recv for its header takes bytes of the file too
  (`ordinary_client.cpp:292`; `send_file` writes them right behind the header),
  and an upload hangs, with the server, when a send takes fewer bytes than were
  read from the file (195-203): these are the two cases of `Starved`.
- A client that dies of SIGPIPE leaves its encrypted copy in `/tmp`
  (`TempRemoved` is about a client that is still there, or left on its own).
  `decrypt_file` has emptied the output file before it finds that the IV is not
  the key's (`crypto_common.c:68-90`).
- The detached threads use the client object after `main` has returned from
  interactive mode, until the process ends (`ordinary_client.cpp:256-281`).
- The Windows client waits for a confirmation no code of the server sends
  (`windows_client.py:157`), so every attempt fails. Had it been sent,
  registration would fail all the same: `send_command` tests `connected`, which
  is set only after it. The UNIX client's default
  host is `"localhost"`, which `inet_pton` (`ordinary_client.cpp:42`) does not
  accept.

### 4.1 Bounds

Clients and administrators meet only in the descriptor table, so `safety` keeps
that table small: two numbers beside the listeners for four peers, so that
numbers are reused at once and by the other kind, and accept fails with EMFILE;
one slot for two clients makes the full server and the reuse of the slot and of
its number while the old one is in the poll set happen. `live_clients` has two
slots, for two clients served in one round and an entry beside its neighbour.
What more slots, peers and descriptors would add to `SlotsLive`, `CountMatches`,
`NoOrphan`, `OneAdmin` and `TypeOK` is covered by the proofs (section 5).
`AdminTimeout` counts one-second poll timeouts; 1 stands for ADMIN_TIMEOUT in `safety` and `live_admin`, so that
a session lives through a timeout and ends with the second, and "longer than" is
told from "as long as". A peer
has one text in flight: the server answers piece by piece and keeps nothing
between two, so more would only repeat it. `Busy` in `ServerThreads` names the
workers that do more than time out: `locks` takes the two that nest locks (the
admin and monitor threads hold one lock at a time, and take it last in the
order), `joins` the one that can stop the server. `MaxSignals` is 1: a second
signal can only repeat the first one's operations; `EarlySignals` lets it come
before `init_server_state`. `Commands`, `MaxAttempts`, `MAX_JOBS` bound how
often the respective program acts; two or three suffice for an answer, an
attempt or a job to be taken for the next one's. In `session` a file has two
bytes and an IV of one, a buffer and a key two, so that a file takes two rounds
to send, its last buffer is not full, and the offset of the IV would show; as in
the source (32 and 4096) a buffer is a multiple of the key. Two commands, two
jobs and two watching threads are enough for a thread to meet a command and for
two threads to meet each other; the safety properties were also run with three
commands. Two private keys with different public keys suffice for the streams;
`KeysAgree` computes all pairs. Deadlock is checked except
where a signal hangs the server (`locks`, `signal_stop`, where that is the
subject) and in `Handshake`, whose clients stop after their attempts. Peers of
one kind are symmetric; symmetry is used in `safety` only, which checks no
liveness.

### 4.2 Fairness

Weak fairness of each server thread in `AntivirusServer`: a thread whose next
step is possible is scheduled in the end. poll with a timeout always lets its
thread go on, which the timeout branch models. It includes that `send` returns:
the sockets are blocking and `send_response` has no timeout
(`common.c:74`), so a peer that asks and never reads its replies would, once the
socket buffers are full, hold the client or the admin thread for ever, and with
it the other clients and the joins of a shutdown. The liveness results are about
peers that read what they asked for. Nothing else is assumed of them: a client
may send for ever, stay silent for ever or hang up at any time. `ServerThreads` adds that
main, waiting for a mutex that is released again and again, gets it, since the
workers sleep in poll or sem_timedwait between rounds; `ScanQueue` that a
waiting thread with a post available is not interrupted by signals for ever,
and that a producer that appended a job posts. In `AdminClient` and `Handshake`
the server serves, sees the end of a connection from which nothing is left to
read, and a client whose recv can return goes on; the idle limit is
not needed for a handler to return, nor the Windows client's timeout for an
attempt to end. In `ClientSession` the client's threads run and the server answers and
finishes its scans; the user may never give another command, nobody has to quit
or close, and recv has no timeout that could help.

## 5. Proofs

`AntivirusServerProofs` proves, for every number of clients, administrators,
slots and descriptors, every set of texts and every limit that satisfies
`PeerAssumption`, `SizeAssumption` and `TextAssumption` of `ServerState`:

| Theorem | States |
|---|---|
| `TypeCorrect` | `SafetySpec => []TypeOK` |
| `ConnectionsConsistent` | `SafetySpec => []ConnectionInv` |
| `SlotsAreLive` | `SafetySpec => []SlotsLive` |
| `AtMostOneAdmin` | `SafetySpec => []OneAdmin` |
| `CountIsExact` | `SafetySpec => []CountMatches` |
| `NothingLeaks` | `SafetySpec => []NoOrphan` |

None of the four properties is inductive. That a slot's number is still its own
connection's depends on who may close a number: the client thread only what is
in its slot (`SlotsDistinct`: no two slots share a number, and the one being
served has not moved), the admin thread only its session's connection
(`HoldersCurrent`), cleanup the listeners first (`ListenersInPlace`) and then a
number that may be stale, which is why `SlotsLive` ends there (`Intact`) while the distinctness of slots holds until the sweep. That
there is one administrator depends on what `admin_client_fd` is at each
position of the admin thread (`AdminFieldCurrent`). Their conjunction
`ConnectionInv`, with `TypeOK`, is inductive: there is one lemma per thread
(`ClientThreadKeeps`, `AdminThreadKeeps`, `MainThreadKeeps`, `PeersKeep`) with
one step per action, and `QuietStep` for the actions that touch neither
descriptors nor slots. `live_admin` checks the same formula with TLC. `CountIsExact`
adds a cardinality argument per action that occupies or frees a slot, and one
step each for the two that count it;
`NothingLeaks` follows the descriptor from accept to whoever closes it.

`ConnectionProofs` goes on from there, with the same constants, to what holds
between two calls of a thread although the others close and reuse numbers:

| Theorem | States |
|---|---|
| `RecvReturns` | `SafetySpec => []RecvNeverBlocks` |
| `EveryCloseHasCause` | `SafetySpec => ClosedForCause` (an action property) |
| `StatsAreSane` | `SafetySpec => []StatsReplySane` |
| `PromisesHold`, `CausesHold` | their inductive invariants `RecvInv` and `CauseInv` |

A step does one of three things to the descriptor table (`DescriptorStep`): it
frees numbers, it gives a free one to an accepted connection, or it queues a
connection. accept succeeds only while the listeners are in place, and then
every number a thread holds is open (`AcceptedIsNew`), so a number in somebody's
hands never comes to name another connection (`HeldSame`). That is not enough
for recv: nobody else may take the data either. Hence `PeersOnce` (a connection
is queued once or open under one number), `NumbersDistinct` (no number is
polled twice, nor waits for another turn while it is served) and `KindsApart`
(the two threads never hold each other's connections, not even when cleanup has
closed them); with these, what poll found stays true (`PromisesKept`). For a
close, `CauseInv` carries the cause from the failed recv, the timeout, the failed
poll or the cleared flag to the close: a peer that is gone stays gone (`GoneStep`), the flag
is never set again (`FlagStep`). For the statistics, `StatsInv` says that a
session still being answered during or after the sweep has lost its connection:
main closed it, or found `admin_client_fd` unset, which it is not in a session.
TLC agreed that the three invariants hold on the instance of `safety` and on one
with two slots before they were proved.

`ScanQueueProofs` proves, for every set of producers and every `MAX_JOBS`,
with or without a semaphore that fails:

| Theorem | States |
|---|---|
| `QueueTyped`, `QueueConsistent` | `SafetySpec => []TypeOK`, `SafetySpec => []QueueInv` |
| `CompletedInOrder` | `SafetySpec => []FirstInFirstOut` |
| `NoneStranded` | `SafetySpec => []NoJobStranded` |
| `CountedOnce` | `SafetySpec => []CountsAddUp` |
| `EndsBetweenJobs` | `SafetySpec => []NothingHalfDone` |
| `VerdictsTheirOwn` | `SafetySpec => []VerdictIsItsOwn` |
| `QueueImplementsService` | `SafetySpec => ServiceKept`: the refinement |

`QueueInv` says what the thread's position means for the queue: the one job that
is marked PROCESSING is the one the local points to (`JobInHand`), the mutex is
held while a finished job is counted (`MutexHeld`), everything before a job that
was begun is completed (`InOrder`). Order is inductive because the thread takes
the first pending job (`OldestIsFirst`) and no entry is PROCESSING when it does,
so everything before it is completed. There is one lemma per action that changes the
queue (`EnqueueKeeps`, `TakeKeeps`, `ScanKeeps`, `CompleteKeeps`) and one for all
others (`QuietKeeps`); `NoneStranded` and `CountedOnce` add an argument about
cardinalities, `VerdictsTheirOwn` the invariant that `is_infected` is what the scan of
the job in hand returned. The refinement maps an entry to its status and result: a scan and
the two counts are stutters, the other actions are one step of `ScanService`
each (`SubmitShown`, `TakeUpShown`, `FinishShown`).

`ServerThreadsProofs` proves, for every number of signals, early or not, with
and without failures, and whoever is busy:

| Theorem | States |
|---|---|
| `ThreadsDisciplined` | `SafetySpec => []ThreadsInv`, the inductive invariant |
| `LocksAlwaysOrdered` | `SafetySpec => []LocksOrdered` |
| `DestroyedOnlyWhenIdle` | `SafetySpec => []DestroyedWhenIdle` |

A thread's future is a sequence of operations, so its discipline is one of
sequences. The *charge* of a thread is what it still has to give back: the
mutexes it holds and, for main, the workers it has to join and the mutexes it
must not destroy twice (`ChargeOf`). A sequence is `Disciplined` for a charge if
it can be annotated with the charge before each operation, such that every
operation is allowed there (`May`: a lock is above those held, nothing is held
when main destroys the mutexes, a worker is not created twice), changes the
charge as `After` says, and leaves at the end no more than it should. The paths
of the source are disciplined (`PathsKept`, `EndsKept`, `MainDisciplined`, with
`CleanupDisciplined` for any set of workers that exist), so are concatenations
(`OneAfterAnother`), and so is what the signal handler or `log_message` puts in
front of a sequence, whatever the thread holds (`OnTop`): the level INFO message
and `log_mutex` are last in the order. `ThreadsInv` says that every living
thread's future is disciplined for its charge, and one lemma per action keeps
it; an operation that is performed is the first of an annotated sequence
(`FirstOfAll`). That a living worker can be joined needs that its handle is a
thread's (a failed `pthread_create` leaves junk, but then nobody lives behind
it).

`AntivirusServer` and `ScanQueue` have their own proofs of what happens inside
those paths; the two do not rest on this one.

`EncryptionProofs` proves, for every buffer, key and IV length and every file,
and for all private keys:

| Theorem | States |
|---|---|
| `DecryptsOnlyItsOwn` | `decrypt_file` succeeds and yields a text exactly when its input is what `encrypt_file` makes of that text with that key: nothing else is accepted, nothing is lost |
| `PiecesAlign` | what `send_encrypted_data` sent decrypts piece by piece when each piece begins at a multiple of the key's length |
| `SharedSecretsAgree` | both sides of `perform_key_exchange` compute the same secret |

XOR with the same key twice is the identity (`XorTwice`), and both directions
meet the same byte of the key at the same place (`BuffersTwice`), because
`decrypt_file` reads the IV away before it fills its first buffer. `PiecesAlign`
rests on `Wrap`: the key's index is the same for positions that differ by a
multiple of its length. For the secrets, `PowerOfG` lists the 22 powers of 5
modulo 23; multiplying two of them adds their exponents (`PowersMultiply`), each
round of square-and-multiply keeps the exponent that is still owed
(`RoundKeeps`), so both sides have the power of `a * b` (`SharedSecretIs`).

`AdminClientProofs` proves, for every number of commands:

| Theorem | States |
|---|---|
| `AnswersAreTheirOwn` | `SafetySpec => [](TypeOK /\ AnswersMatch)` |
| `AdminClientTyped` | `SafetySpec => []TypeOK` |

A handler that shows the wrong reply would have to find an old one in its stream.
`OneOutstanding` rules that out: a command is under way, or its answer, never
both and never two; nothing is under way while the user has the menu. A stopped
server leaves what it did not read unread, and the client it left without an
answer learns of the end of the session instead. There is one lemma for the
client's calls and one for the server's (`ClientKeeps`, `ServerKeeps`).

`HandshakeProofs` proves, for every set of clients and any number of slots and
attempts:

| Theorem | States |
|---|---|
| `SlotsSuffice` | `SafetySpec => []TypeOK`, which includes that no more clients have a slot than there are |
| `NobodyEverJoins` | `SafetySpec => []NobodyJoins`: no client of the repository registers with this server |
| `KeyIsTheRefusal` | `SafetySpec => []KeyIsRefusal`: the key a UNIX client goes on with is the first piece of an error message |

The set of clients may be infinite, so `SlotsSuffice` carries that finitely many
are in a slot (`Slots`). The other two say for all instances what the run
`key_taken` shows on one. `HandshakeInv` follows the stream: a public key is no
command, so the server's answer to it is a refusal (`KeyIsNoCommand`); its first
four bytes become the key, and its rest stays in front of whatever else comes,
to be taken for the answer to REGISTER_CLIENT (`Refused`). A Windows client
never leaves its wait (`Stays`).

`ClientSessionProofs` proves, for every pair of files, every length of buffer,
key and IV, and any number of threads, commands and jobs:

| Theorem | States |
|---|---|
| `SessionTyped` | `Spec => []TypeOK` |
| `SecretsShared` | `Spec => []KeysAgree` |
| `TempFilesRemoved` | `Spec => []TempRemoved` |
| `FilesWhole` | `Spec => []NoIncompleteFile` |
| `UploadsIntact` | `Spec => []UploadIntact` |
| `RepliesHeard` | `Spec => []RepliesAwaited` |
| `DownloadsIntact` | `Spec => DownloadIntact` (an action property) |

`TempInv` names the positions of the client that own a temporary file. The
others rest on three inductive invariants, in the module `SessionInvariants`
so that TLC can evaluate them too, each proved with the ones before it as facts:

- `KeyInv` is the key exchange: what is on its way until the client has the
  server's key, and that both sides are then done with it.
- `TypeInv` says what is in the streams and in the files. Its one deep part is
  that a file being received is never longer than it was announced: recv is
  given no more room than is missing (`ReceiveRound`), and the size announced is
  a number whatever else the stream holds.
- `ConvInv` is the conversation, as long as no command overlaps with a watched
  scan. `Phase` says for each position of the client what is between it and the
  server: nothing (`Silent`), a command or one of the replies to it
  (`Exchange`), or a file. `OneReader` says that at the prompt at most one
  thread has something to read and elsewhere none has. That a file may lack
  bytes is part of the code (section 4: `Starved`), so what was received, is in
  the stream and is still to be sent do not simply add up to the file. They are
  a `Part` of it: no longer than the file and, *if* as long, equal to it. Bytes
  that a send did not take (`PartSent`) or that went with a header leave a part
  that can never become long enough; bytes that move from one place to the next
  (`PartMoved`) leave it as it is. `receive_file` and the download end exactly
  when the length is right, so what they end with is the file, and
  `DecryptsOnlyItsOwn` gives back what was encrypted, since the secrets agree
  (`KeyInv`).

There is one lemma per action. Before the proof TLC checked `KeyInv`, `TypeInv`
and `ConvInv` as invariants of the instance of `session`.

*Only model-checked*: liveness, which is beyond the prover, as ENABLED is:
`HangupFreesSlot`, `ConnectAnswered`, `ShutdownCompletes`, `IdleAdminEvicted`,
`ShutdownEndsThreads`, `EveryJobScanned`, `HandlerReturns`, `SessionEnds`,
`AttemptEnds`, `SlotReturned`, `CommandReturns` and `MonitorReports`; and the
three runs that find a violation. Every other property of a run has its theorem.
The proofs assume the named ASSUMEs of the modules and nothing else; TLC
evaluates each of these in a run.

## 6. Not modelled

- The monitor thread's events: only the first of each read is reported, in a
  DEBUG message, and no state depends on it.
- The Windows client's session after registration: no run of the program reaches
  it (section 4).
- `is_file_infected`, `generate_key`'s randomness, failing fopen and malloc in
  the cipher, files that change while they are sent.
- The text of a command or reply that arrives in two pieces; a command longer
  than the 256 bytes that `admin_thread_handler` has for it and for its argument
  (`antivirus_server.c:275`), which `parse_admin_command` copies without a
  length: no text of the model is that long.
- A write of `receive_file` that fails: the result of fwrite is ignored
  (`common.c:103`), so `NoIncompleteFile` is about streams that break, not about
  a disk that is full.
- The text of log messages, the log file and its descriptor, the curses and Tk
  interfaces, timestamps: no property is about them.
- Data races on `server_running` and `current_log_level` beyond single-step
  reads and writes.
- clamscan, the kernel and the C library, except as sections 3.1 and 3.3 say.
- Makefile, scripts and tests: they hold no state of the running system.
