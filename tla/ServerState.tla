---------------------------- MODULE ServerState ----------------------------
(***************************************************************************)
(* The state that the threads of the antivirus server share                *)
(* (include/common.h: server_state_t; src/server/antivirus_server.c), the  *)
(* descriptor table of its process, and the connections its peers make.    *)
(*                                                                         *)
(* A peer is a model value for one connection: a client program that       *)
(* connects a second time is a second peer.  A descriptor number is reused *)
(* the way the kernel reuses it, lowest free number first, so that a       *)
(* number kept too long can come to name somebody else's connection.       *)
(***************************************************************************)
EXTENDS Protocol, FiniteSets

CONSTANTS
  Client,        \* connections made to the TCP port
  Admin,         \* connections made to the UNIX socket
  MaxClients,    \* MAX_CLIENTS, the length of clients[]
  MaxFd,         \* RLIMIT_NOFILE, counted from the first socket's number
  AdminTimeout,  \* ADMIN_TIMEOUT, in poll timeouts of one second
  AdminBacklog,  \* backlog of the admin listener
  ClientBacklog, \* backlog of the client listener
  ClientTexts,   \* what a client may send in one piece
  AdminTexts,    \* what an admin may send in one piece
  PollMayFail    \* may poll return -1 with an errno other than EINTR?

Peer == Client \cup Admin

(* What a descriptor number stands for.                                    *)
Listener == {"admin_socket", "client_socket"}
Object   == Peer \cup Listener \cup {"free"}

ASSUME PeerAssumption ==
  /\ Client \cap Admin = {}
  /\ Peer \cap (Listener \cup {"free", "none"}) = {}
ASSUME SizeAssumption ==
  /\ MaxClients \in Nat \ {0}
  /\ MaxFd \in Nat \ {0, 1}
  /\ {AdminTimeout, AdminBacklog, ClientBacklog} \subseteq Nat
ASSUME TextAssumption ==
  /\ ClientTexts \subseteq Seq(Token) \ {<<>>}
  /\ AdminTexts \subseteq Seq(Token) \ {<<>>}
  /\ PollMayFail \in BOOLEAN

Slot == 0 .. MaxClients - 1
Fd   == 1 .. MaxFd
NoFd == -1

(* main opens the listeners first and nothing ever resets the two fields:  *)
(* after cleanup has closed them they still hold these numbers.            *)
admin_socket_fd  == 1
client_socket_fd == 2

VARIABLES
  \* --- server_state_t
  server_running, current_log_level, clients, admin_client_fd,
  total_connections, active_connections,
  \* --- the kernel: descriptors, accept queues, sockets
  fdTable, backlog, inbox, reply,
  \* --- the peers
  dialled, hungup,
  \* --- locals of client_thread_handler, admin_thread_handler and main
  c_pc, pollset, ready, c_fd, c_addr, c_slot, c_buf,
  a_pc, a_fd, a_buf, idle,
  m_pc

flagVars   == <<server_running, current_log_level>>
statsVars  == <<total_connections, active_connections>>
peerVars   == <<dialled, hungup>>
clientVars == <<c_pc, pollset, ready, c_fd, c_addr, c_slot, c_buf>>
adminVars  == <<a_pc, a_fd, a_buf, idle>>
vars == <<flagVars, clients, admin_client_fd, statsVars, fdTable, backlog, inbox,
          reply, peerVars, clientVars, adminVars, m_pc>>

-----------------------------------------------------------------------------
(* clients[] holds stale numbers and addresses in its inactive entries.    *)
ClientInfo == [socket_fd : Fd \cup {NoFd}, address : Client \cup {"none"},
               is_active : BOOLEAN]

IsOpen(fd)     == fd \in Fd /\ fdTable[fd] # "free"
IsPeer(fd)     == fd \in Fd /\ fdTable[fd] \in Peer
Connected(p)   == \/ \E l \in Listener : p \in Range(backlog[l])
                  \/ \E fd \in Fd : fdTable[fd] = p

(* POLLIN: a listener with a connection waiting, or a connection with data *)
(* or with the peer gone (recv would return 0).                            *)
Readable(fd) ==
  \/ IsPeer(fd) /\ (inbox[fdTable[fd]] # <<>> \/ hungup[fdTable[fd]])
  \/ fd \in Fd /\ fdTable[fd] \in Listener /\ backlog[fdTable[fd]] # <<>>

(* poll returns a positive number: POLLIN, or POLLNVAL on a closed number. *)
Wakes(fd) == Readable(fd) \/ ~IsOpen(fd)

(* accept hands out the lowest free number; without one it fails (EMFILE)  *)
(* and leaves the connection in the queue.                                 *)
LowestFree(fd) ==
  fdTable[fd] = "free" /\ \A other \in 1 .. fd - 1 : fdTable[other] # "free"
CanAccept(fd, listener) ==
  fdTable[fd] = listener /\ \E other \in Fd : fdTable[other] = "free"

AcceptInto(fd, listener) ==
  /\ LowestFree(fd)
  /\ fdTable' = [fdTable EXCEPT ![fd] = Head(backlog[listener])]
  /\ backlog' = [backlog EXCEPT ![listener] = Tail(@)]

(* close of a number that is not open is an EBADF that nobody looks at.    *)
(* Closing a listener resets the connections in its queue.                 *)
Close(fd) ==
  /\ fdTable' = [n \in Fd |-> IF n = fd THEN "free" ELSE fdTable[n]]
  /\ backlog' = [l \in Listener |->
                   IF fd \in Fd /\ fdTable[fd] = l THEN <<>> ELSE backlog[l]]

(* send_response on a number that is not a connection, or to a peer that   *)
(* has hung up, reaches nobody.                                            *)
Send(fd, response) ==
  reply' = [p \in Peer |->
              IF fd \in Fd /\ fdTable[fd] = p /\ ~hungup[p] THEN response ELSE reply[p]]

ReceiveData(fd) == IsPeer(fd) /\ inbox[fdTable[fd]] # <<>>
(* recv returns 0 (the peer is gone) or -1 (not a connection).  With an    *)
(* open connection and nothing to read, recv blocks.                       *)
ReceiveFails(fd) ==
  \/ ~IsPeer(fd)
  \/ IsPeer(fd) /\ inbox[fdTable[fd]] = <<>> /\ hungup[fdTable[fd]]
TakeData(fd) == inbox' = [inbox EXCEPT ![fdTable[fd]] = <<>>]

-----------------------------------------------------------------------------
(* The state in which main enters its loop: the listeners are open, the    *)
(* threads have been created.                                              *)
Init ==
  /\ server_running = TRUE
  /\ current_log_level = "INFO"
  /\ clients = [s \in Slot |->
                  [socket_fd |-> NoFd, address |-> "none", is_active |-> FALSE]]
  /\ admin_client_fd = NoFd
  /\ total_connections = 0
  /\ active_connections = 0
  /\ fdTable = [fd \in Fd |-> CASE fd = admin_socket_fd  -> "admin_socket"
                                [] fd = client_socket_fd -> "client_socket"
                                [] OTHER                 -> "free"]
  /\ backlog = [l \in Listener |-> <<>>]
  /\ inbox = [p \in Peer |-> <<>>]
  /\ reply = [p \in Peer |-> NoResponse]
  /\ dialled = {}
  /\ hungup = [p \in Peer |-> FALSE]
  /\ c_pc = "top" /\ pollset = [s \in Slot |-> NoFd] /\ ready = {}
  /\ c_fd = NoFd /\ c_addr = "none" /\ c_slot = 0 /\ c_buf = <<>>
  /\ a_pc = "top" /\ a_fd = NoFd /\ a_buf = <<>> /\ idle = 0
  /\ m_pc = "run"
=============================================================================
