-------------------------- MODULE AntivirusServer --------------------------
(***************************************************************************)
(* The server's connection handling: the client thread, the admin thread   *)
(* and main run side by side over the shared state and one descriptor      *)
(* table, with the peers and SIGINT/SIGTERM as their environment.          *)
(***************************************************************************)
EXTENDS ClientThread, AdminThread, MainThread, Peers

(* The process has ended; what its peers still do is of no interest.       *)
Terminated == m_pc = "exit" /\ UNCHANGED vars

Next ==
  \/ ClientThread
  \/ AdminThread
  \/ MainThread
  \/ ShutdownSignal
  \/ Peers
  \/ Terminated

(* Every thread is scheduled again and again, and send returns: a peer may *)
(* send, hang up or fall silent as it likes, but it does not leave so many *)
(* replies unread that the socket buffer fills.  Nothing else is assumed   *)
(* of the peers, and nothing of signals.                                   *)
Fairness ==
  /\ WF_vars(ClientThread)
  /\ WF_vars(AdminThread)
  /\ WF_vars(MainThread)

SafetySpec == Init /\ [][Next]_vars
Spec       == SafetySpec /\ Fairness

-----------------------------------------------------------------------------
ClientPc == {"top", "build", "poll", "accept", "admit", "admitted", "serve", "recv",
             "drop", "dropped", "reply", "done"}
AdminPc  == {"top", "listen", "accept", "check", "session", "wait", "recv", "exec",
             "stop", "close", "failed", "clear", "done"}
MainPc   == {"run", "closeAdminSocket", "closeClientSocket", "checkAdminClient",
             "closeAdminClient", "sweep", "join", "exit"}

(* Every field holds what its C type and its users allow; in particular    *)
(* the -1 of string_to_log_level is never stored as the log level, each    *)
(* queue holds its own kind of peer, and no session outlives the limit.    *)
TypeOK ==
  /\ server_running \in BOOLEAN
  /\ current_log_level \in LogLevel
  /\ clients \in [Slot -> ClientInfo]
  /\ admin_client_fd \in Fd \cup {NoFd}
  /\ total_connections \in Nat
  /\ active_connections \in Int
  /\ fdTable \in [Fd -> Object]
  /\ backlog \in [Listener -> Seq(Peer)]
  /\ backlog["client_socket"] \in Seq(Client)
  /\ backlog["admin_socket"] \in Seq(Admin)
  /\ inbox \in [Peer -> Seq(Token)]
  /\ reply \in [Peer -> ResponseType]
  /\ dialled \subseteq Peer
  /\ hungup \in [Peer -> BOOLEAN]
  /\ c_pc \in ClientPc
  /\ pollset \in [Slot -> Fd \cup {NoFd}]
  /\ ready \subseteq Slot
  /\ c_fd \in Fd \cup {NoFd}
  /\ c_addr \in Client \cup {"none"}
  /\ c_slot \in Slot
  /\ c_buf \in Seq(Token)
  /\ a_pc \in AdminPc
  /\ a_fd \in Fd \cup {NoFd}
  /\ a_buf \in Seq(Token)
  /\ idle \in Nat
  /\ idle <= AdminTimeout \/ a_pc \in {"close", "clear"}
  /\ m_pc \in MainPc

(* Until cleanup starts closing connections, the descriptor in an active   *)
(* entry of clients[] is open and is that very client's connection, and no *)
(* connection has two entries: numbers are reused, entries never go stale. *)
Intact == m_pc \notin {"sweep", "join", "exit"}
SlotsLive ==
  Intact => \A s \in ActiveSlots :
    /\ fdTable[clients[s].socket_fd] = clients[s].address
    /\ \A other \in ActiveSlots \ {s} : clients[other].socket_fd # clients[s].socket_fd

(* Until the sweep of cleanup_server_state, the counter that GET_STATS     *)
(* reports is the number of occupied slots whenever clients_mutex is free, *)
(* and one behind it only between a change of a slot and its counting.     *)
Uncounted == CASE c_pc = "admitted" -> -1 [] c_pc = "dropped" -> 1 [] OTHER -> 0
CountMatches ==
  m_pc \notin {"join", "exit"} =>
    active_connections = Cardinality(ActiveSlots) + Uncounted

(* An accepted connection is always in the hands of somebody who will      *)
(* close it: in a slot, in the client thread between accept and admission, *)
(* or in the admin thread.  A descriptor that is none of these is leaked.  *)
AdminHolds == {"check", "session", "wait", "recv", "exec", "stop", "close", "failed"}
Owned(fd) ==
  \/ \E s \in ActiveSlots : clients[s].socket_fd = fd
  \/ c_pc = "admit" /\ c_fd = fd
  \/ a_pc \in AdminHolds /\ a_fd = fd
NoOrphan == \A fd \in Fd : fdTable[fd] \in Peer => Owned(fd)

(* Neither thread ever blocks in recv, though the sockets are blocking and *)
(* descriptors are closed and reused between poll and recv: the number     *)
(* poll reported still names a readable connection, or none at all.        *)
RecvNeverBlocks ==
  /\ c_pc = "recv" => ReceiveData(c_fd) \/ ReceiveFails(c_fd)
  /\ a_pc = "recv" => ReceiveData(a_fd) \/ ReceiveFails(a_fd)

(* "Only one administrator at a time" (docs/ARHITECTURA_TEHNICA.md:49): at *)
(* most one admin connection is open in the server; and since the thread   *)
(* that would accept a second one is busy with the first, the check for an *)
(* administrator already connected never finds one.                        *)
OneAdmin ==
  /\ \A fd1, fd2 \in Fd : fdTable[fd1] \in Admin /\ fdTable[fd2] \in Admin => fd1 = fd2
  /\ a_pc = "check" => admin_client_fd = NoFd

(* No administrator is ever told that more clients are active than there   *)
(* are slots, fewer than none, or more than ever connected -- not even     *)
(* during shutdown, when the counter itself does go wrong.                 *)
StatsReplySane ==
  \A p \in Admin : reply[p].active \in 0 .. MaxClients /\ reply[p].active <= reply[p].total

(* A connection is closed by nobody but its own thread, and for a cause: a *)
(* client that is gone, or for whom there is no slot; an administrator who *)
(* is gone or silent for too long, whose poll failed, or who is in session *)
(* when the server stops.  Only main may close any connection, and only    *)
(* once the server is to stop.                                             *)
Gone(p) == hungup[p] /\ inbox[p] = <<>>
ClientThreadCloses(fd) ==
  /\ fdTable[fd] \in Client /\ c_fd = fd
  /\ \/ c_pc = "drop" /\ c_pc' = "dropped" /\ Gone(fdTable[fd])
     \/ c_pc = "admit" /\ c_pc' = "serve" /\ ActiveSlots = Slot
AdminThreadCloses(fd) ==
  /\ fdTable[fd] \in Admin /\ a_fd = fd
  /\ a_pc \in {"close", "failed"} /\ a_pc' = "clear"
  /\ Gone(fdTable[fd]) \/ idle > AdminTimeout \/ a_pc = "failed" \/ ~server_running
MainCloses == m_pc' # m_pc /\ ~server_running
ClosedForCause ==
  [][\A fd \in Fd :
       fdTable[fd] \in Peer /\ fdTable'[fd] # fdTable[fd] =>
         ClientThreadCloses(fd) \/ AdminThreadCloses(fd) \/ MainCloses]_vars

-----------------------------------------------------------------------------
HasConnection(p) == \E fd \in Fd : fdTable[fd] = p
Waiting(p)       == \E l \in Listener : p \in Range(backlog[l])

(* Once the flag is cleared, by a signal or by SHUTDOWN_SERVER, the server *)
(* stops: no thread is left behind in poll, recv or pthread_join.          *)
ShutdownCompletes == ~server_running ~> m_pc = "exit"

(* While the server runs, a client that is gone gives its descriptor back, *)
(* whatever the others keep sending.                                       *)
HangupFreesSlot ==
  \A p \in Client :
    (HasConnection(p) /\ hungup[p]) ~> (~HasConnection(p) \/ ~server_running)

(* A client in the accept queue is taken out of it: admitted, turned away, *)
(* or reset by shutdown.                                                   *)
ConnectAnswered == \A p \in Client : Waiting(p) ~> ~Waiting(p)

(* An administrator who falls silent for good does not keep the session.   *)
IdleAdminEvicted ==
  \A p \in Admin : <>[](inbox[p] = <<>>) => []<>~HasConnection(p)

-----------------------------------------------------------------------------
(* What makes these hold: the strengthening that AntivirusServerProofs     *)
(* shows to be inductive.                                                  *)

(* A listener is open under its own number until main closes it, and under *)
(* no other number ever.                                                   *)
ListenersInPlace == \A fd \in Fd :
  /\ fdTable[fd] = "admin_socket" <=>
       fd = admin_socket_fd /\ m_pc \in {"run", "closeAdminSocket"}
  /\ fdTable[fd] = "client_socket" <=>
       fd = client_socket_fd /\ m_pc \in {"run", "closeAdminSocket", "closeClientSocket"}

(* While nobody but its owner closes a connection: a number in a slot, in  *)
(* the client thread between accept and admission, or in the admin thread  *)
(* during a session names the connection it was accepted for.              *)
HoldersCurrent == Intact =>
  /\ \A s \in ActiveSlots : /\ clients[s].socket_fd \in Fd
                           /\ clients[s].address \in Client
                           /\ fdTable[clients[s].socket_fd] = clients[s].address
  /\ c_pc = "admit" => /\ c_fd \in Fd /\ c_addr \in Client
                       /\ fdTable[c_fd] = c_addr
  /\ a_pc \in AdminHolds => a_fd \in Fd /\ fdTable[a_fd] \in Admin

(* Until the sweep: two entries never share a number, the number being     *)
(* admitted is in none, and the client being served is still in its slot.  *)
Unswept == m_pc \notin {"join", "exit"}
SlotsDistinct == Unswept =>
  /\ \A s, other \in ActiveSlots :
       clients[s].socket_fd = clients[other].socket_fd => s = other
  /\ c_pc = "admit" => \A s \in ActiveSlots : clients[s].socket_fd # c_fd
  /\ c_pc \in {"recv", "drop", "reply"} =>
       c_slot \in ActiveSlots /\ clients[c_slot].socket_fd = c_fd

(* admin_client_fd is set during a session only, and an administrator's    *)
(* connection is open nowhere but in the admin thread's hands.             *)
AdminFieldCurrent ==
  /\ admin_client_fd # NoFd => a_pc \in (AdminHolds \ {"check"}) \cup {"clear"}
  /\ \A fd \in Fd : fdTable[fd] \in Admin => fd = a_fd /\ a_pc \in AdminHolds

ConnectionInv ==
  ListenersInPlace /\ HoldersCurrent /\ SlotsDistinct /\ AdminFieldCurrent
=============================================================================
