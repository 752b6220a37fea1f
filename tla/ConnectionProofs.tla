-------------------------- MODULE ConnectionProofs --------------------------
(***************************************************************************)
(* Theorems about what poll, recv and close may rely on in AntivirusServer *)
(* although descriptors are closed and reused between the calls, and about *)
(* the numbers an administrator is told.                                   *)
(***************************************************************************)
EXTENDS AntivirusServerProofs

(* What the client thread goes by: the entries of pfds[] while it polls,   *)
(* the ones found readable afterwards.                                     *)
Watched == IF c_pc = "poll" THEN Polled ELSE ready

ReadyEmpty == c_pc \in {"top", "build", "poll", "done"} => ready = {}

(* An entry is not dropped between the poll and its turn to be served.     *)
ReadyCurrent == Intact =>
  \A s \in Watched : s \in ActiveSlots /\ clients[s].socket_fd = pollset[s]

(* No number is in two slots or twice in the poll set, also after the      *)
(* sweep; the one being served is not waiting for another turn and is      *)
(* still in its entry, active or not.                                      *)
NumbersDistinct ==
  /\ \A s, other \in ActiveSlots :
       clients[s].socket_fd = clients[other].socket_fd => s = other
  /\ c_pc = "admit" => \A s \in ActiveSlots : clients[s].socket_fd # c_fd
  /\ \A s, other \in Watched : pollset[s] = pollset[other] => s = other
  /\ c_pc \in {"recv", "drop"} =>
       /\ \A s \in ready : pollset[s] # c_fd
       /\ clients[c_slot].socket_fd = c_fd

LocalInv == ReadyEmpty /\ ReadyCurrent /\ NumbersDistinct

(* The numbers the client thread has in its hands, open or not.            *)
ClientNumber(fd) ==
  \/ \E s \in ActiveSlots : clients[s].socket_fd = fd
  \/ \E s \in Watched : pollset[s] = fd
  \/ c_pc \in {"admit", "recv", "drop"} /\ c_fd = fd
AdminNumber(fd) == a_pc \in AdminHolds /\ a_fd = fd

(* Neither thread ever holds the number of the other's connection.         *)
KindsApart == \A fd \in Fd :
  /\ ClientNumber(fd) => fdTable[fd] \notin Admin
  /\ AdminNumber(fd) => fdTable[fd] \notin Client

(* A connection is in one queue once or has one number.                    *)
QueueDistinct(queue) ==
  /\ \A i \in 1 .. Len(queue) : queue[i] \in dialled /\ \A fd \in Fd : fdTable[fd] # queue[i]
  /\ \A i, j \in 1 .. Len(queue) : queue[i] = queue[j] => i = j
PeersOnce ==
  /\ \A fd \in Fd : fdTable[fd] \in Peer => fdTable[fd] \in dialled
  /\ \A n, fd \in Fd : fdTable[fd] \in Peer /\ fdTable[n] = fdTable[fd] => n = fd
  /\ \A l \in Listener : QueueDistinct(backlog[l])

(* What poll found of a number stays true until recv is called for it: if  *)
(* it names a connection, that one has data or has lost its peer.          *)
Promise(fd) ==
  fdTable[fd] \in Peer => inbox[fdTable[fd]] # <<>> \/ hungup[fdTable[fd]]
Promised(fd) ==
  \/ \E s \in ready : pollset[s] = fd
  \/ c_pc = "recv" /\ c_fd = fd
  \/ a_pc = "recv" /\ a_fd = fd
PromisesKept == \A fd \in Fd : Promised(fd) => Promise(fd)

RecvInv == LocalInv /\ KindsApart /\ PeersOnce /\ PromisesKept

-----------------------------------------------------------------------------
(* Why a connection is about to be closed.                                 *)
CauseInv ==
  /\ m_pc # "run" => ~server_running
  /\ a_pc \in AdminHolds => a_fd \in Fd /\ (a_pc = "check" \/ admin_client_fd = a_fd)
  /\ c_pc = "drop" => \A fd \in Fd : fd = c_fd /\ fdTable[fd] \in Peer => Gone(fdTable[fd])
  /\ a_pc = "close" =>
       \/ ~server_running
       \/ idle > AdminTimeout
       \/ \A fd \in Fd : fd = a_fd /\ fdTable[fd] \in Peer => Gone(fdTable[fd])

(* A session that outlives the check of admin_client_fd in cleanup has     *)
(* lost its connection, and a change of a slot that is yet to be counted   *)
(* leaves the counter between none and all of them.                        *)
StatsInv ==
  /\ m_pc \in {"sweep", "join", "exit"} /\ a_pc \in {"wait", "recv", "exec"} =>
       fdTable[a_fd] \notin Admin
  /\ active_connections <= total_connections
  /\ c_pc = "admitted" => ActiveSlots # {}
  /\ c_pc = "dropped" => ActiveSlots # Slot

-----------------------------------------------------------------------------
(* What a step may do to the descriptor table: close numbers, give a free  *)
(* one to an accepted connection, or queue a connection.                   *)
Closes ==
  /\ \A fd \in Fd : fdTable'[fd] \in {fdTable[fd], "free"}
  /\ \A l \in Listener : backlog'[l] \in {backlog[l], <<>>}
  /\ dialled' = dialled
Accepts(fd, listener) ==
  /\ Intact
  /\ fdTable[fd] = "free"
  /\ backlog[listener] # <<>>
  /\ fdTable' = [fdTable EXCEPT ![fd] = Head(backlog[listener])]
  /\ backlog' = [backlog EXCEPT ![listener] = Tail(@)]
  /\ UNCHANGED <<peerVars, inbox, clients, pollset, ready, m_pc>>
  /\ \/ /\ listener = "client_socket" /\ c_pc = "accept" /\ c_pc' = "admit" /\ c_fd' = fd
        /\ UNCHANGED <<a_pc, a_fd>>
     \/ /\ listener = "admin_socket" /\ a_pc = "accept" /\ a_pc' = "check" /\ a_fd' = fd
        /\ UNCHANGED <<c_pc, c_fd>>
Dials(p, listener) ==
  /\ p \notin dialled
  /\ dialled' = dialled \cup {p}
  /\ backlog' = [backlog EXCEPT ![listener] = Append(@, p)]
  /\ UNCHANGED <<peersFrame, inbox, hungup>>

(* close only frees numbers and empties queues.                            *)
LEMMA CloseCloses ==
  ASSUME NEW fd, Close(fd), dialled' = dialled
  PROVE  Closes
BY DEF Close, Closes

(* Every step of the server does one of the three to the descriptor table. *)
LEMMA DescriptorStep ==
  ASSUME TypeOK, ConnectionInv, [Next]_vars
  PROVE  \/ Closes
         \/ \E fd \in Fd, l \in Listener : Accepts(fd, l)
         \/ \E p \in Peer, l \in Listener : Dials(p, l)
<1>1. ASSUME UNCHANGED <<fdTable, backlog, dialled>> PROVE Closes
  BY <1>1 DEF Closes
<1>2. ClientThread \/ AdminThread \/ MainThread \/ ShutdownSignal => dialled' = dialled
  BY DEF ClientThread, ClientTop, ClientBuildPollSet, ClientPoll, ClientAccept, ClientAdmit,
         ClientReject, ClientCountAdmitted, ClientCountDropped, ClientServe, ClientRecv,
         ClientDrop, ClientReply, clientFrame,
         AdminThread, AdminTop, AdminListen, AdminAccept, AdminCheck, AdminSession,
         AdminWait, AdminRecv, AdminExec, AdminStop, AdminClose, AdminClear, adminFrame,
         MainThread, MainLeavesLoop, MainCloseAdminSocket, MainCloseClientSocket,
         MainCheckAdminClient, MainCloseAdminClient, MainSweep, MainJoin, ShutdownSignal,
         mainFrame, peerVars
<1>3. CASE ClientThread
  <2>1. CASE ClientAccept
    <3>1. CASE c_pc' = "serve"
      <4>1. UNCHANGED <<fdTable, backlog>>
        BY <2>1, <3>1 DEF ClientAccept
      <4>. QED
        BY <1>1, <1>2, <1>3, <4>1
    <3>2. CASE c_pc' # "serve"
      <4>1. PICK fd \in Fd : AcceptInto(fd, "client_socket") /\ c_fd' = fd
        BY <2>1, <3>2 DEF ClientAccept
      <4>2. /\ fdTable[client_socket_fd] = "client_socket"
            /\ backlog["client_socket"] # <<>>
            /\ c_pc = "accept" /\ c_pc' = "admit"
            /\ UNCHANGED <<a_pc, a_fd, peerVars, inbox, clients, pollset, ready, m_pc>>
        BY <2>1, <3>2 DEF ClientAccept, CanAccept, clientFrame, adminVars
      <4>3. Intact
        BY <4>2, SizeAssumption
           DEF ConnectionInv, ListenersInPlace, client_socket_fd, Fd, Intact
      <4>4. Accepts(fd, "client_socket")
        BY <4>1, <4>2, <4>3 DEF Accepts, AcceptInto, LowestFree
      <4>. QED
        BY <4>4 DEF Listener
    <3>. QED
      BY <3>1, <3>2
  <2>2. CASE ClientReject \/ ClientDrop
    BY <1>2, <1>3, <2>2, CloseCloses DEF ClientReject, ClientDrop
  <2>3. CASE ClientTop \/ ClientBuildPollSet \/ ClientPoll \/ ClientAdmit \/ ClientServe
             \/ ClientRecv \/ ClientReply \/ ClientCountAdmitted \/ ClientCountDropped
    BY <1>1, <1>2, <1>3, <2>3
       DEF ClientTop, ClientBuildPollSet, ClientPoll, ClientAdmit, ClientServe, ClientRecv,
           ClientReply, ClientCountAdmitted, ClientCountDropped
  <2>. QED
    BY <1>3, <2>1, <2>2, <2>3 DEF ClientThread
<1>4. CASE AdminThread
  <2>1. CASE AdminAccept
    <3>1. CASE a_pc' = "top"
      <4>1. UNCHANGED <<fdTable, backlog>>
        BY <2>1, <3>1 DEF AdminAccept
      <4>. QED
        BY <1>1, <1>2, <1>4, <4>1
    <3>2. CASE a_pc' # "top"
      <4>1. PICK fd \in Fd : AcceptInto(fd, "admin_socket") /\ a_fd' = fd
        BY <2>1, <3>2 DEF AdminAccept
      <4>2. /\ fdTable[admin_socket_fd] = "admin_socket"
            /\ backlog["admin_socket"] # <<>>
            /\ a_pc = "accept" /\ a_pc' = "check"
            /\ UNCHANGED <<c_pc, c_fd, peerVars, inbox, clients, pollset, ready, m_pc>>
        BY <2>1, <3>2 DEF AdminAccept, CanAccept, adminFrame, clientVars
      <4>3. Intact
        BY <4>2, SizeAssumption
           DEF ConnectionInv, ListenersInPlace, admin_socket_fd, Fd, Intact
      <4>4. Accepts(fd, "admin_socket")
        BY <4>1, <4>2, <4>3 DEF Accepts, AcceptInto, LowestFree
      <4>. QED
        BY <4>4 DEF Listener
    <3>. QED
      BY <3>1, <3>2
  <2>2. CASE AdminCheck \/ AdminClose
    <3>1. CASE UNCHANGED <<fdTable, backlog>>
      BY <1>1, <1>2, <1>4, <3>1
    <3>2. CASE Close(a_fd)
      BY <1>2, <1>4, <3>2, CloseCloses
    <3>. QED
      BY <2>2, <3>1, <3>2 DEF AdminCheck, AdminClose
  <2>3. CASE AdminTop \/ AdminListen \/ AdminSession \/ AdminWait \/ AdminRecv \/ AdminExec
             \/ AdminStop \/ AdminClear
    BY <1>1, <1>2, <1>4, <2>3
       DEF AdminTop, AdminListen, AdminSession, AdminWait, AdminRecv, AdminExec, AdminStop,
           AdminClear
  <2>. QED
    BY <1>4, <2>1, <2>2, <2>3 DEF AdminThread
<1>5. CASE MainThread \/ ShutdownSignal
  <2>1. CASE MainCloseAdminSocket \/ MainCloseClientSocket \/ MainCloseAdminClient
    BY <1>2, <1>5, <2>1, CloseCloses
       DEF MainCloseAdminSocket, MainCloseClientSocket, MainCloseAdminClient
  <2>2. CASE MainSweep
    BY <1>2, <1>5, <2>2 DEF MainSweep, Closes
  <2>3. CASE MainLeavesLoop \/ MainCheckAdminClient \/ MainJoin \/ ShutdownSignal
    BY <1>1, <1>2, <1>5, <2>3
       DEF MainLeavesLoop, MainCheckAdminClient, MainJoin, ShutdownSignal
  <2>. QED
    BY <1>5, <2>1, <2>2, <2>3 DEF MainThread
<1>6. CASE Peers
  <2>1. CASE \E p \in Client : Dial(p, "client_socket", ClientBacklog)
    BY <2>1 DEF Dial, Dials, Peer, Listener
  <2>2. CASE \E p \in Admin : Dial(p, "admin_socket", AdminBacklog)
    BY <2>2 DEF Dial, Dials, Peer, Listener
  <2>3. ASSUME NEW p, NEW texts, SendText(p, texts) \/ HangUp(p) PROVE Closes
    BY <1>1, <2>3 DEF SendText, HangUp, peersFrame, peerVars
  <2>. QED
    BY <1>6, <2>1, <2>2, <2>3 DEF Peers
<1>7. CASE UNCHANGED vars
  BY <1>1, <1>7 DEF vars, peerVars
<1>. QED
  BY <1>3, <1>4, <1>5, <1>6, <1>7 DEF Next, Terminated

-----------------------------------------------------------------------------
(* The slots and the poll set.                                             *)

(* An open number is not the one accept hands out.                         *)
LEMMA AcceptedIsNew ==
  ASSUME TypeOK, ConnectionInv, LocalInv, NEW fd \in Fd, Intact, fdTable[fd] = "free"
  PROVE  ~ClientNumber(fd) /\ ~AdminNumber(fd)
<1>1. \A s \in ActiveSlots : clients[s].socket_fd # fd
  BY ObjectsDistinct DEF ConnectionInv, HoldersCurrent
<1>2. \A s \in Watched : pollset[s] # fd
  BY <1>1 DEF LocalInv, ReadyCurrent
<1>3. c_pc \in {"admit", "recv", "drop"} => c_fd # fd
  BY <1>1, ObjectsDistinct DEF ConnectionInv, HoldersCurrent, SlotsDistinct, Intact, Unswept
<1>4. a_pc \in AdminHolds => a_fd # fd
  BY ObjectsDistinct DEF ConnectionInv, HoldersCurrent
<1>. QED
  BY <1>1, <1>2, <1>3, <1>4 DEF ClientNumber, AdminNumber

(* Every step keeps the slots and the poll set in agreement.               *)
LEMMA LocalStep ==
  ASSUME TypeOK, ConnectionInv, LocalInv, [Next]_vars
  PROVE  LocalInv'
<1>. USE DEF LocalInv, ReadyEmpty, ReadyCurrent, NumbersDistinct
<1>1. ASSUME UNCHANGED <<clientVars, clients>>, Intact' => Intact
      PROVE  LocalInv'
  BY <1>1 DEF clientVars, Watched, Polled, ActiveSlots
<1>2. CASE ClientThread
  <2>. USE DEF clientFrame, Watched
  <2>1. CASE ClientTop
    BY <2>1 DEF ClientTop, ActiveSlots, Intact
  <2>2. CASE ClientBuildPollSet
    <3>1. /\ c_pc = "build" /\ c_pc' = "poll"
          /\ pollset' = [s \in Slot |-> IF clients[s].is_active THEN clients[s].socket_fd
                                        ELSE NoFd]
          /\ UNCHANGED <<clients, ready>>
      BY <2>2 DEF ClientBuildPollSet
    <3>2. \A s \in Polled' : s \in ActiveSlots /\ pollset'[s] = clients[s].socket_fd
      BY <3>1 DEF Polled, ActiveSlots
    <3>3. Watched' = Polled' /\ ActiveSlots' = ActiveSlots
      BY <3>1 DEF ActiveSlots
    <3>4. ReadyEmpty'
      BY <3>1
    <3>5. ReadyCurrent'
      BY <3>1, <3>2, <3>3
    <3>6. NumbersDistinct'
      BY <3>1, <3>2, <3>3
    <3>. QED
      BY <3>4, <3>5, <3>6
  <2>3. CASE ClientPoll
    <3>1. /\ c_pc = "poll" /\ c_pc' \in {"top", "accept", "serve", "done"}
          /\ ready = {} /\ ready' \subseteq Polled
          /\ UNCHANGED clients
      BY <2>3 DEF ClientPoll, ClientPollWakes, ClientPollTimesOut, ClientPollFails
    <3>2. CASE ClientPollWakes
      <4>1. UNCHANGED <<pollset, m_pc>> /\ c_pc' \in {"accept", "serve"}
        BY <2>3, <3>2 DEF ClientPollWakes, ClientPoll
      <4>. QED
        BY <3>1, <4>1 DEF ActiveSlots, Intact
    <3>3. CASE ClientPollTimesOut \/ ClientPollFails
      <4>1. ready' = {} /\ c_pc' \in {"top", "done"}
        BY <3>1, <3>3 DEF ClientPollTimesOut, ClientPollFails
      <4>. QED
        BY <3>1, <4>1 DEF ActiveSlots
    <3>. QED
      BY <2>3, <3>2, <3>3 DEF ClientPoll
  <2>4. CASE ClientAccept
    <3>1. /\ c_pc = "accept" /\ c_pc' \in {"serve", "admit"}
          /\ UNCHANGED <<clients, pollset, ready, m_pc>>
      BY <2>4 DEF ClientAccept
    <3>2. CASE c_pc' = "serve"
      BY <3>1, <3>2 DEF ActiveSlots, Intact
    <3>3. CASE c_pc' = "admit"
      <4>1. PICK fd \in Fd : AcceptInto(fd, "client_socket") /\ c_fd' = fd
        BY <2>4, <3>3 DEF ClientAccept
      <4>2. fdTable[client_socket_fd] = "client_socket" /\ fdTable[fd] = "free"
        BY <2>4, <3>3, <4>1 DEF ClientAccept, CanAccept, AcceptInto, LowestFree
      <4>3. Intact
        BY <4>2, SizeAssumption
           DEF ConnectionInv, ListenersInPlace, client_socket_fd, Fd, Intact
      <4>4. \A s \in ActiveSlots : clients[s].socket_fd # fd
        BY <4>2, <4>3, AcceptedIsNew DEF ClientNumber
      <4>. QED
        BY <3>1, <3>3, <4>1, <4>4 DEF ActiveSlots, Intact
    <3>. QED
      BY <3>1, <3>2, <3>3
  <2>5. CASE ClientAdmit
    <3>1. PICK s \in Slot \ ActiveSlots :
            clients' = [clients EXCEPT ![s] = [socket_fd |-> c_fd, address |-> c_addr,
                                               is_active |-> TRUE]]
      BY <2>5 DEF ClientAdmit, Lowest
    <3>2. /\ ActiveSlots' = ActiveSlots \cup {s}
          /\ \A other \in ActiveSlots : clients'[other] = clients[other]
          /\ clients'[s].socket_fd = c_fd
      BY <3>1 DEF ActiveSlots, TypeOK
    <3>3. /\ c_pc = "admit" /\ c_pc' = "admitted"
          /\ UNCHANGED <<pollset, ready, m_pc>>
      BY <2>5 DEF ClientAdmit
    <3>4. ReadyCurrent'
      BY <3>2, <3>3 DEF Intact
    <3>5. NumbersDistinct'
      BY <3>2, <3>3
    <3>. QED
      BY <3>3, <3>4, <3>5
  <2>6. CASE ClientReject
    <3>1. /\ c_pc = "admit" /\ c_pc' = "serve"
          /\ UNCHANGED <<clients, pollset, ready, m_pc>>
      BY <2>6 DEF ClientReject
    <3>. QED
      BY <3>1 DEF ActiveSlots, Intact
  <2>7. CASE ClientServe
    <3>1. c_pc = "serve" /\ UNCHANGED <<clients, m_pc>>
      BY <2>7 DEF ClientServe
    <3>2. CASE ready = {}
      <4>1. c_pc' = "top" /\ ready' = {}
        BY <2>7, <3>2 DEF ClientServe
      <4>. QED
        BY <3>1, <4>1 DEF ActiveSlots
    <3>3. CASE ready # {}
      <4>1. PICK s \in ready : /\ ready' = ready \ {s}
                               /\ \/ c_pc' = "serve"
                                  \/ /\ c_pc' = "recv" /\ c_fd' = pollset[s]
                                     /\ clients[c_slot'].socket_fd = c_fd'
                               /\ UNCHANGED pollset
        BY <2>7, <3>1, <3>3 DEF ClientServe, Owner, Lowest
      <4>2. ReadyCurrent'
        BY <3>1, <4>1 DEF ActiveSlots, Intact
      <4>3. NumbersDistinct'
        BY <3>1, <4>1 DEF ActiveSlots
      <4>. QED
        BY <4>1, <4>2, <4>3
    <3>. QED
      BY <3>2, <3>3
  <2>8. CASE ClientRecv
    <3>1. /\ c_pc = "recv" /\ c_pc' \in {"reply", "drop"}
          /\ UNCHANGED <<clients, pollset, ready, c_fd, c_slot, m_pc>>
      BY <2>8 DEF ClientRecv
    <3>. QED
      BY <3>1 DEF ActiveSlots, Intact
  <2>9. CASE ClientDrop
    <3>1. /\ c_pc = "drop" /\ c_pc' = "dropped"
          /\ UNCHANGED <<pollset, ready, m_pc>>
      BY <2>9 DEF ClientDrop
    <3>2. /\ ActiveSlots' = ActiveSlots \ {c_slot}
          /\ \A s \in Slot : clients'[s].socket_fd = clients[s].socket_fd
      BY <2>9 DEF ClientDrop, ActiveSlots, TypeOK, ClientInfo
    <3>3. ReadyCurrent'
      <4>. SUFFICES ASSUME Intact', NEW s \in ready
                    PROVE  s \in ActiveSlots' /\ clients'[s].socket_fd = pollset[s]
        BY <3>1
      <4>1. Intact /\ Unswept
        BY <3>1 DEF Intact, Unswept
      <4>2. s \in ActiveSlots /\ clients[s].socket_fd = pollset[s] /\ pollset[s] # c_fd
        BY <3>1, <4>1
      <4>3. clients[c_slot].socket_fd = c_fd
        BY <3>1
      <4>. QED
        BY <3>2, <4>2, <4>3 DEF ActiveSlots
    <3>4. NumbersDistinct'
      BY <3>1, <3>2 DEF ActiveSlots
    <3>. QED
      BY <3>1, <3>3, <3>4
  <2>10. CASE ClientReply
    <3>1. /\ c_pc = "reply" /\ c_pc' = "serve"
          /\ UNCHANGED <<clients, pollset, ready, m_pc>>
      BY <2>10 DEF ClientReply
    <3>. QED
      BY <3>1 DEF ActiveSlots, Intact
  <2>11. CASE ClientCountAdmitted \/ ClientCountDropped
    <3>1. /\ c_pc \in {"admitted", "dropped"} /\ c_pc' = "serve"
          /\ UNCHANGED <<clients, pollset, ready, m_pc>>
      BY <2>11 DEF ClientCountAdmitted, ClientCountDropped
    <3>. QED
      BY <3>1 DEF ActiveSlots, Intact
  <2>. QED
    BY <1>2, <2>1, <2>2, <2>3, <2>4, <2>5, <2>6, <2>7, <2>8, <2>9, <2>10, <2>11
       DEF ClientThread
<1>3. CASE MainSweep
  <2>1. /\ m_pc' = "join" /\ UNCHANGED clientVars
        /\ ActiveSlots' \subseteq ActiveSlots
        /\ \A s \in Slot : clients'[s].socket_fd = clients[s].socket_fd
    BY <1>3 DEF MainSweep, mainFrame, ActiveSlots, Swept, TypeOK, ClientInfo
  <2>2. Watched' = Watched /\ c_slot \in Slot
    BY <2>1 DEF Watched, Polled, clientVars, TypeOK
  <2>. QED
    BY <2>1, <2>2 DEF clientVars, Intact, ActiveSlots
<1>4. CASE AdminThread
  BY <1>1, <1>4
     DEF AdminThread, AdminTop, AdminListen, AdminAccept, AdminCheck, AdminSession, AdminWait,
         AdminRecv, AdminExec, AdminStop, AdminClose, AdminClear, adminFrame, Intact
<1>5. CASE (MainThread /\ ~MainSweep) \/ ShutdownSignal
  BY <1>1, <1>5
     DEF MainThread, MainLeavesLoop, MainCloseAdminSocket, MainCloseClientSocket,
         MainCheckAdminClient, MainCloseAdminClient, MainJoin, ShutdownSignal, mainFrame,
         Intact
<1>6. CASE Peers \/ UNCHANGED vars
  BY <1>1, <1>6 DEF Peers, Dial, SendText, HangUp, peersFrame, vars, Intact
<1>. QED
  BY <1>2, <1>3, <1>4, <1>5, <1>6 DEF Next, Terminated

-----------------------------------------------------------------------------
(* A connection is queued once or open once.                               *)

LEMMA TailDistinct ==
  ASSUME NEW queue \in Seq(Peer), queue # <<>>, QueueDistinct(queue)
  PROVE  /\ Head(queue) \in Peer /\ Head(queue) \in dialled
         /\ \A fd \in Fd : fdTable[fd] # Head(queue)
         /\ Tail(queue) \in Seq(Peer) /\ Len(Tail(queue)) = Len(queue) - 1
         /\ \A i \in 1 .. Len(Tail(queue)) : Tail(queue)[i] = queue[i + 1]
         /\ \A i \in 1 .. Len(Tail(queue)) : Tail(queue)[i] # Head(queue)
<1>1. /\ Len(queue) \in Nat /\ Len(queue) >= 1
      /\ Head(queue) = queue[1] /\ queue[1] \in Peer
      /\ Tail(queue) \in Seq(Peer) /\ Len(Tail(queue)) = Len(queue) - 1
      /\ \A i \in 1 .. Len(Tail(queue)) : Tail(queue)[i] = queue[i + 1]
  OBVIOUS
<1>2. ASSUME NEW i \in 1 .. Len(Tail(queue))
      PROVE  queue[i + 1] # queue[1]
  <2>1. i + 1 \in 1 .. Len(queue) /\ 1 \in 1 .. Len(queue) /\ i + 1 # 1
    BY <1>1
  <2>. QED
    BY <2>1 DEF QueueDistinct
<1>3. 1 \in 1 .. Len(queue)
  BY <1>1
<1>. QED
  BY <1>1, <1>2, <1>3 DEF QueueDistinct

(* Every step keeps a connection in one place only.                        *)
LEMMA PeersOnceStep ==
  ASSUME TypeOK, ConnectionInv, PeersOnce, [Next]_vars
  PROVE  PeersOnce'
<1>1. CASE Closes
  <2>1. \A fd \in Fd : fdTable'[fd] \in Peer => fdTable'[fd] = fdTable[fd]
    BY <1>1, ObjectsDistinct DEF Closes
  <2>2. ASSUME NEW l \in Listener PROVE QueueDistinct(backlog[l])'
    <3>1. CASE backlog'[l] = <<>>
      BY <3>1 DEF QueueDistinct
    <3>2. CASE backlog'[l] = backlog[l]
      <4>1. \A i \in 1 .. Len(backlog[l]) : backlog[l][i] \in Peer
        BY DEF TypeOK
      <4>. QED
        BY <1>1, <2>1, <3>2, <4>1 DEF QueueDistinct, PeersOnce, Closes
    <3>. QED
      BY <1>1, <3>1, <3>2 DEF Closes
  <2>. QED
    BY <1>1, <2>1, <2>2 DEF PeersOnce, Closes
<1>2. CASE \E fd \in Fd, l \in Listener : Accepts(fd, l)
  <2>1. PICK fd \in Fd, l \in Listener : Accepts(fd, l)
    BY <1>2
  <2>. DEFINE queue == backlog[l]
              p     == Head(queue)
  <2>2. queue \in Seq(Peer) /\ queue # <<>> /\ QueueDistinct(queue)
    BY <2>1 DEF TypeOK, PeersOnce, Accepts
  <2>3. /\ p \in Peer /\ p \in dialled
        /\ \A n \in Fd : fdTable[n] # p
        /\ Tail(queue) \in Seq(Peer) /\ Len(Tail(queue)) = Len(queue) - 1
        /\ \A i \in 1 .. Len(Tail(queue)) : Tail(queue)[i] = queue[i + 1]
        /\ \A i \in 1 .. Len(Tail(queue)) : Tail(queue)[i] # p
    BY <2>2, TailDistinct
  <2>4. /\ dialled' = dialled
        /\ \A n \in Fd : fdTable'[n] = IF n = fd THEN p ELSE fdTable[n]
        /\ backlog'[l] = Tail(queue)
        /\ \A other \in Listener \ {l} : backlog'[other] = backlog[other]
    BY <2>1 DEF Accepts, TypeOK, peerVars
  <2>5. \A n \in Fd : fdTable'[n] \in Peer => fdTable'[n] \in dialled'
    BY <2>3, <2>4 DEF PeersOnce
  <2>6. \A m, n \in Fd : fdTable'[n] \in Peer /\ fdTable'[m] = fdTable'[n] => m = n
    BY <2>3, <2>4 DEF PeersOnce
  <2>7. QueueDistinct(backlog[l])'
    <3>1. ASSUME NEW i \in 1 .. Len(Tail(queue))
          PROVE  /\ i + 1 \in 1 .. Len(queue)
                 /\ Tail(queue)[i] = queue[i + 1] /\ Tail(queue)[i] # p
      <4>1. Len(queue) \in Nat
        BY <2>2
      <4>. QED
        BY <2>3, <4>1
    <3>2. \A i \in 1 .. Len(Tail(queue)) :
            Tail(queue)[i] \in dialled /\ \A n \in Fd : fdTable'[n] # Tail(queue)[i]
      BY <2>2, <2>4, <3>1 DEF QueueDistinct
    <3>3. \A i, j \in 1 .. Len(Tail(queue)) : Tail(queue)[i] = Tail(queue)[j] => i = j
      <4>. SUFFICES ASSUME NEW i \in 1 .. Len(Tail(queue)), NEW j \in 1 .. Len(Tail(queue)),
                           Tail(queue)[i] = Tail(queue)[j]
                    PROVE  i = j
        OBVIOUS
      <4>1. i + 1 = j + 1
        BY <2>2, <3>1 DEF QueueDistinct
      <4>2. i \in Int /\ j \in Int
        OBVIOUS
      <4>. QED
        BY <4>1, <4>2
    <3>. QED
      BY <2>4, <3>2, <3>3 DEF QueueDistinct
  <2>8. ASSUME NEW other \in Listener \ {l} PROVE QueueDistinct(backlog[other])'
    <3>1. QueueDistinct(backlog[other])
      BY DEF PeersOnce
    <3>2. \A i \in 1 .. Len(backlog[other]) : backlog[other][i] # p
      <4>1. \/ l = "client_socket" /\ other = "admin_socket"
            \/ l = "admin_socket" /\ other = "client_socket"
        BY DEF Listener
      <4>2. CASE l = "client_socket" /\ other = "admin_socket"
        <5>1. p \in Client
          <6>1. queue \in Seq(Client) /\ queue # <<>>
            BY <2>2, <4>2 DEF TypeOK
          <6>. QED
            BY <6>1
        <5>2. \A i \in 1 .. Len(backlog[other]) : backlog[other][i] \in Admin
          BY <4>2 DEF TypeOK
        <5>. QED
          BY <5>1, <5>2, ObjectsDistinct
      <4>3. CASE l = "admin_socket" /\ other = "client_socket"
        <5>1. p \in Admin
          <6>1. queue \in Seq(Admin) /\ queue # <<>>
            BY <2>2, <4>3 DEF TypeOK
          <6>. QED
            BY <6>1
        <5>2. \A i \in 1 .. Len(backlog[other]) : backlog[other][i] \in Client
          BY <4>3 DEF TypeOK
        <5>. QED
          BY <5>1, <5>2, ObjectsDistinct
      <4>. QED
        BY <4>1, <4>2, <4>3
    <3>. QED
      BY <2>4, <3>1, <3>2 DEF QueueDistinct
  <2>9. \A other \in Listener : QueueDistinct(backlog[other])'
    BY <2>7, <2>8
  <2>. QED
    BY <2>5, <2>6, <2>9 DEF PeersOnce
<1>3. CASE \E p \in Peer, l \in Listener : Dials(p, l)
  <2>1. PICK p \in Peer, l \in Listener : Dials(p, l)
    BY <1>3
  <2>2. /\ p \notin dialled /\ dialled' = dialled \cup {p} /\ UNCHANGED fdTable
        /\ backlog'[l] = Append(backlog[l], p)
        /\ \A other \in Listener \ {l} : backlog'[other] = backlog[other]
    BY <2>1 DEF Dials, peersFrame, TypeOK
  <2>3. QueueDistinct(backlog[l])'
    <3>1. QueueDistinct(backlog[l]) /\ backlog[l] \in Seq(Peer)
      BY DEF PeersOnce, TypeOK
    <3>. DEFINE queue == backlog[l]
                longer == Append(queue, p)
    <3>2. /\ Len(queue) \in Nat /\ Len(longer) = Len(queue) + 1
          /\ \A i \in 1 .. Len(queue) : longer[i] = queue[i]
          /\ longer[Len(queue) + 1] = p
      BY <3>1
    <3>3. \A i \in 1 .. Len(longer) : i \in 1 .. Len(queue) \/ i = Len(queue) + 1
      BY <3>2
    <3>4. \A fd \in Fd : fdTable[fd] # p
      BY <2>2 DEF PeersOnce
    <3>5. \A i \in 1 .. Len(queue) : queue[i] # p
      BY <2>2, <3>1 DEF QueueDistinct
    <3>. HIDE DEF longer
    <3>6. \A i \in 1 .. Len(longer) :
            longer[i] \in dialled' /\ \A fd \in Fd : fdTable'[fd] # longer[i]
      BY <2>2, <3>1, <3>2, <3>3, <3>4 DEF QueueDistinct
    <3>7. \A i, j \in 1 .. Len(longer) : longer[i] = longer[j] => i = j
      BY <3>1, <3>2, <3>3, <3>5 DEF QueueDistinct
    <3>. QED
      BY <2>2, <3>6, <3>7 DEF QueueDistinct, longer
  <2>4. \A other \in Listener \ {l} : QueueDistinct(backlog[other])'
    BY <2>2 DEF QueueDistinct, PeersOnce
  <2>. QED
    BY <2>2, <2>3, <2>4 DEF PeersOnce
<1>. QED
  BY <1>1, <1>2, <1>3, DescriptorStep

-----------------------------------------------------------------------------
(* The numbers the two threads hold.                                       *)

(* The client thread comes by a number through accept only.                *)
LEMMA ClientNumberStep ==
  ASSUME TypeOK, ConnectionInv, LocalInv, [Next]_vars, NEW fd \in Fd, ClientNumber(fd)'
  PROVE  \/ ClientNumber(fd)
         \/ c_pc = "accept" /\ c_pc' = "admit" /\ c_fd' = fd /\ fdTable'[fd] \in Client
<1>. USE DEF ClientNumber
<1>1. CASE UNCHANGED <<clientVars, clients>>
  BY <1>1 DEF clientVars, Watched, Polled, ActiveSlots
<1>2. CASE ClientThread
  <2>. USE DEF Watched
  <2>1. CASE ClientTop
    BY <2>1 DEF ClientTop, ActiveSlots
  <2>2. CASE ClientBuildPollSet
    BY <2>2 DEF ClientBuildPollSet, ActiveSlots, Polled
  <2>3. CASE ClientPoll
    <3>1. c_pc = "poll" /\ ready = {} /\ UNCHANGED clients
      BY <2>3 DEF ClientPoll, LocalInv, ReadyEmpty
    <3>2. CASE ClientPollWakes
      BY <2>3, <3>1, <3>2 DEF ClientPoll, ClientPollWakes, ActiveSlots
    <3>3. CASE ClientPollTimesOut \/ ClientPollFails
      BY <3>1, <3>3 DEF ClientPollTimesOut, ClientPollFails, ActiveSlots
    <3>. QED
      BY <2>3, <3>2, <3>3 DEF ClientPoll
  <2>4. CASE ClientAccept
    <3>1. c_pc = "accept" /\ UNCHANGED <<clients, pollset, ready>>
      BY <2>4 DEF ClientAccept
    <3>2. CASE c_pc' = "serve"
      BY <3>1, <3>2 DEF ActiveSlots
    <3>3. CASE c_pc' # "serve"
      <4>1. PICK n \in Fd : AcceptInto(n, "client_socket") /\ c_fd' = n
        BY <2>4, <3>3 DEF ClientAccept
      <4>2. backlog["client_socket"] # <<>> /\ c_pc' = "admit"
        BY <2>4, <3>3 DEF ClientAccept
      <4>3. fdTable'[n] \in Client
        BY <4>1, <4>2, AcceptEffect DEF Listener
      <4>. QED
        BY <3>1, <4>1, <4>2, <4>3 DEF ActiveSlots
    <3>. QED
      BY <3>2, <3>3
  <2>5. CASE ClientAdmit
    <3>1. PICK s \in Slot \ ActiveSlots :
            clients' = [clients EXCEPT ![s] = [socket_fd |-> c_fd, address |-> c_addr,
                                               is_active |-> TRUE]]
      BY <2>5 DEF ClientAdmit, Lowest
    <3>2. /\ ActiveSlots' = ActiveSlots \cup {s}
          /\ \A other \in ActiveSlots : clients'[other] = clients[other]
          /\ clients'[s].socket_fd = c_fd
      BY <3>1 DEF ActiveSlots, TypeOK
    <3>. QED
      BY <2>5, <3>2 DEF ClientAdmit
  <2>6. CASE ClientServe
    <3>1. c_pc = "serve" /\ UNCHANGED clients
      BY <2>6 DEF ClientServe
    <3>2. CASE ready = {}
      BY <2>6, <3>1, <3>2 DEF ClientServe, ActiveSlots
    <3>3. CASE ready # {}
      BY <2>6, <3>1, <3>3 DEF ClientServe, ActiveSlots
    <3>. QED
      BY <3>2, <3>3
  <2>7. CASE ClientDrop
    <3>1. /\ ActiveSlots' \subseteq ActiveSlots
          /\ \A s \in Slot : clients'[s].socket_fd = clients[s].socket_fd
      BY <2>7 DEF ClientDrop, ActiveSlots, TypeOK, ClientInfo
    <3>. QED
      BY <2>7, <3>1 DEF ClientDrop, ActiveSlots
  <2>8. CASE ClientReject \/ ClientRecv \/ ClientReply \/ ClientCountAdmitted
             \/ ClientCountDropped
    BY <2>8 DEF ClientReject, ClientCountAdmitted, ClientCountDropped, ClientRecv,
                ClientReply, ActiveSlots
  <2>. QED
    BY <1>2, <2>1, <2>2, <2>3, <2>4, <2>5, <2>6, <2>7, <2>8 DEF ClientThread
<1>3. CASE MainSweep
  <2>1. /\ UNCHANGED clientVars
        /\ ActiveSlots' \subseteq ActiveSlots
        /\ \A s \in Slot : clients'[s].socket_fd = clients[s].socket_fd
    BY <1>3 DEF MainSweep, mainFrame, ActiveSlots, Swept, TypeOK, ClientInfo
  <2>2. Watched' = Watched
    BY <2>1 DEF Watched, Polled, clientVars
  <2>. QED
    BY <2>1, <2>2 DEF clientVars, ActiveSlots
<1>4. CASE AdminThread \/ (MainThread /\ ~MainSweep) \/ ShutdownSignal \/ Peers
           \/ UNCHANGED vars
  BY <1>1, <1>4
     DEF AdminThread, AdminTop, AdminListen, AdminAccept, AdminCheck, AdminSession, AdminWait,
         AdminRecv, AdminExec, AdminStop, AdminClose, AdminClear, adminFrame,
         MainThread, MainLeavesLoop, MainCloseAdminSocket, MainCloseClientSocket,
         MainCheckAdminClient, MainCloseAdminClient, MainJoin, ShutdownSignal, mainFrame,
         Peers, Dial, SendText, HangUp, peersFrame, vars
<1>. QED
  BY <1>2, <1>3, <1>4 DEF Next, Terminated

(* The admin thread comes by a number through accept only.                 *)
LEMMA AdminNumberStep ==
  ASSUME TypeOK, ConnectionInv, [Next]_vars, NEW fd \in Fd, AdminNumber(fd)'
  PROVE  \/ AdminNumber(fd)
         \/ a_pc = "accept" /\ a_pc' = "check" /\ a_fd' = fd /\ fdTable'[fd] \in Admin
<1>. USE DEF AdminNumber, AdminHolds
<1>1. CASE UNCHANGED adminVars
  BY <1>1 DEF adminVars
<1>2. CASE AdminThread
  <2>1. CASE AdminAccept
    <3>1. CASE a_pc' = "top"
      BY <3>1
    <3>2. CASE a_pc' # "top"
      <4>1. PICK n \in Fd : AcceptInto(n, "admin_socket") /\ a_fd' = n
        BY <2>1, <3>2 DEF AdminAccept
      <4>2. a_pc = "accept" /\ a_pc' = "check" /\ backlog["admin_socket"] # <<>>
        BY <2>1, <3>2 DEF AdminAccept
      <4>3. fdTable'[n] \in Admin
        BY <4>1, <4>2, AcceptEffect DEF Listener
      <4>. QED
        BY <4>1, <4>2, <4>3
    <3>. QED
      BY <3>1, <3>2
  <2>2. CASE AdminTop \/ AdminListen \/ AdminCheck \/ AdminSession \/ AdminWait \/ AdminRecv
             \/ AdminExec \/ AdminStop \/ AdminClose \/ AdminClear
    BY <2>2
       DEF AdminTop, AdminListen, AdminCheck, AdminSession, AdminWait, AdminRecv, AdminExec,
           AdminStop, AdminClose, AdminClear
  <2>. QED
    BY <1>2, <2>1, <2>2 DEF AdminThread
<1>3. CASE ClientThread
  BY <1>1, <1>3
     DEF ClientThread, ClientTop, ClientBuildPollSet, ClientPoll, ClientAccept, ClientAdmit,
         ClientReject, ClientCountAdmitted, ClientCountDropped, ClientServe, ClientRecv,
         ClientDrop, ClientReply, clientFrame
<1>4. CASE MainThread \/ ShutdownSignal \/ Peers \/ UNCHANGED vars
  BY <1>1, <1>4
     DEF MainThread, MainLeavesLoop, MainCloseAdminSocket, MainCloseClientSocket,
         MainCheckAdminClient, MainCloseAdminClient, MainSweep, MainJoin, ShutdownSignal,
         mainFrame, Peers, Dial, SendText, HangUp, peersFrame, vars
<1>. QED
  BY <1>2, <1>3, <1>4 DEF Next, Terminated

(* Every step keeps the two threads' numbers apart.                        *)
LEMMA KindsStep ==
  ASSUME TypeOK, ConnectionInv, LocalInv, KindsApart, [Next]_vars
  PROVE  KindsApart'
<1>. SUFFICES ASSUME NEW fd \in Fd
              PROVE  /\ ClientNumber(fd)' => fdTable'[fd] \notin Admin
                     /\ AdminNumber(fd)' => fdTable'[fd] \notin Client
  BY DEF KindsApart
<1>1. /\ ClientNumber(fd)' => ClientNumber(fd) \/ fdTable'[fd] \in Client
      /\ AdminNumber(fd)' => AdminNumber(fd) \/ fdTable'[fd] \in Admin
  BY ClientNumberStep, AdminNumberStep
<1>2. CASE fdTable'[fd] \in {fdTable[fd], "free"}
  BY <1>1, <1>2, ObjectsDistinct DEF KindsApart
<1>3. CASE fdTable'[fd] \notin {fdTable[fd], "free"}
  <2>1. PICK n \in Fd, l \in Listener : Accepts(n, l)
    BY <1>3, DescriptorStep DEF Closes, Dials, peersFrame
  <2>2. n = fd
    BY <1>3, <2>1 DEF Accepts, TypeOK
  <2>3. ~ClientNumber(fd) /\ ~AdminNumber(fd)
    BY <2>1, <2>2, AcceptedIsNew DEF Accepts
  <2>. QED
    BY <1>1, <2>3, ObjectsDistinct
<1>. QED
  BY <1>2, <1>3

(* A number a thread holds does not come to name another connection.       *)
LEMMA HeldSame ==
  ASSUME TypeOK, ConnectionInv, LocalInv, [Next]_vars, NEW fd \in Fd,
         ClientNumber(fd) \/ AdminNumber(fd), fdTable'[fd] \in Peer
  PROVE  fdTable'[fd] = fdTable[fd]
<1>1. CASE \E n \in Fd, l \in Listener : Accepts(n, l)
  <2>1. PICK n \in Fd, l \in Listener : Accepts(n, l)
    BY <1>1
  <2>2. n # fd
    BY <2>1, AcceptedIsNew DEF Accepts
  <2>. QED
    BY <2>1, <2>2 DEF Accepts
<1>2. CASE Closes \/ \E p \in Peer, l \in Listener : Dials(p, l)
  BY <1>2, ObjectsDistinct DEF Closes, Dials, peersFrame
<1>. QED
  BY <1>1, <1>2, DescriptorStep

-----------------------------------------------------------------------------
(* What poll found stays true until recv.                                  *)

(* A number recv may be called with is held by a thread.                   *)
LEMMA PromisedHeld ==
  ASSUME LocalInv, NEW fd \in Fd, Promised(fd)
  PROVE  /\ ClientNumber(fd) \/ AdminNumber(fd)
         /\ (\E s \in ready : pollset[s] = fd) => ClientNumber(fd)
         /\ c_pc = "recv" /\ c_fd = fd => ClientNumber(fd)
<1>1. \A s \in ready : s \in Watched
  BY DEF LocalInv, ReadyEmpty, Watched
<1>. QED
  BY <1>1 DEF Promised, ClientNumber, AdminNumber, AdminHolds

(* A number recv may be called with is one poll has just found readable or *)
(* closed, or was one before the step.                                     *)
LEMMA PromisedStep ==
  ASSUME TypeOK, LocalInv, [Next]_vars, NEW fd \in Fd, Promised(fd)'
  PROVE  Promised(fd) \/ Promise(fd)'
<1>1. ASSUME Readable(fd) \/ ~IsOpen(fd), UNCHANGED <<fdTable, inbox, hungup>>
      PROVE  Promise(fd)'
  BY <1>1, ObjectsDistinct DEF Readable, IsOpen, IsPeer, Promise, Listener
<1>2. ASSUME UNCHANGED <<ready, pollset, c_pc, c_fd, a_pc, a_fd>>
      PROVE  Promised(fd)
  BY <1>2 DEF Promised
<1>3. CASE ClientThread
  <2>0. UNCHANGED <<a_pc, a_fd>>
    BY <1>3
       DEF ClientThread, ClientTop, ClientBuildPollSet, ClientPoll, ClientAccept, ClientAdmit,
           ClientReject, ClientCountAdmitted, ClientCountDropped, ClientServe, ClientRecv,
           ClientDrop, ClientReply, clientFrame,
           adminVars
  <2>1. CASE ClientPoll
    <3>1. c_pc = "poll" /\ c_pc' # "recv" /\ ready = {}
      BY <2>1 DEF ClientPoll, ClientPollWakes, ClientPollTimesOut, ClientPollFails,
                  LocalInv, ReadyEmpty
    <3>2. CASE ClientPollWakes
      <4>1. /\ UNCHANGED <<pollset, fdTable, inbox, hungup>>
            /\ \A s \in ready' : Readable(pollset[s])
        BY <2>1, <3>2 DEF ClientPoll, ClientPollWakes, clientFrame, peerVars
      <4>. QED
        BY <1>1, <2>0, <3>1, <4>1 DEF Promised
    <3>3. CASE ClientPollTimesOut \/ ClientPollFails
      <4>1. ready' = ready
        BY <3>3 DEF ClientPollTimesOut, ClientPollFails
      <4>. QED
        BY <2>0, <3>1, <4>1 DEF Promised
    <3>. QED
      BY <2>1, <3>2, <3>3 DEF ClientPoll
  <2>2. CASE ClientServe
    <3>1. CASE ready = {}
      BY <2>0, <2>2, <3>1 DEF ClientServe, Promised
    <3>2. CASE ready # {}
      <4>1. PICK s \in ready : /\ ready' = ready \ {s} /\ UNCHANGED pollset
                               /\ c_pc' = "recv" => c_fd' = pollset[s]
        BY <2>2, <3>2 DEF ClientServe
      <4>. QED
        BY <2>0, <4>1 DEF Promised
    <3>. QED
      BY <3>1, <3>2
  <2>3. CASE ClientBuildPollSet
    BY <2>0, <2>3 DEF ClientBuildPollSet, LocalInv, ReadyEmpty, Promised
  <2>4. CASE ClientTop \/ ClientAccept \/ ClientAdmit \/ ClientReject \/ ClientRecv
             \/ ClientDrop \/ ClientReply \/ ClientCountAdmitted \/ ClientCountDropped
    <3>1. c_pc' # "recv" /\ UNCHANGED <<ready, pollset>>
      BY <2>4 DEF ClientTop, ClientAccept, ClientAdmit, ClientReject, ClientCountAdmitted,
                  ClientCountDropped, ClientRecv, ClientDrop,
                  ClientReply
    <3>. QED
      BY <2>0, <3>1 DEF Promised
  <2>. QED
    BY <1>3, <2>1, <2>2, <2>3, <2>4 DEF ClientThread
<1>4. CASE AdminThread
  <2>0. UNCHANGED <<ready, pollset, c_pc, c_fd>>
    BY <1>4
       DEF AdminThread, AdminTop, AdminListen, AdminAccept, AdminCheck, AdminSession,
           AdminWait, AdminRecv, AdminExec, AdminStop, AdminClose, AdminClear, adminFrame,
           clientVars
  <2>1. CASE AdminWait
    <3>1. UNCHANGED <<fdTable, inbox, hungup, a_fd>> /\ (a_pc' = "recv" => Wakes(a_fd))
      BY <2>1 DEF AdminWait, adminFrame, peerVars
    <3>. QED
      BY <1>1, <2>0, <3>1 DEF Promised, Wakes
  <2>2. CASE AdminExec
    <3>1. a_pc' # "recv"
      BY <2>2 DEF AdminExec, AdminSetLogLevel, AdminGetStats, AdminShutdownServer,
                  AdminUnknownCommand
    <3>. QED
      BY <2>0, <3>1 DEF Promised
  <2>3. CASE AdminTop \/ AdminListen \/ AdminAccept \/ AdminCheck \/ AdminSession
             \/ AdminRecv \/ AdminStop \/ AdminClose \/ AdminClear
    <3>1. a_pc' # "recv"
      BY <2>3 DEF AdminTop, AdminListen, AdminAccept, AdminCheck, AdminSession, AdminRecv,
                  AdminStop, AdminClose, AdminClear
    <3>. QED
      BY <2>0, <3>1 DEF Promised
  <2>. QED
    BY <1>4, <2>1, <2>2, <2>3 DEF AdminThread
<1>5. CASE MainThread \/ ShutdownSignal \/ Peers \/ UNCHANGED vars
  BY <1>2, <1>5
     DEF MainThread, MainLeavesLoop, MainCloseAdminSocket, MainCloseClientSocket,
         MainCheckAdminClient, MainCloseAdminClient, MainSweep, MainJoin, ShutdownSignal,
         mainFrame, Peers, Dial, SendText, HangUp, peersFrame, vars, clientVars, adminVars
<1>. QED
  BY <1>3, <1>4, <1>5 DEF Next, Terminated

(* Data waits and a peer stays gone until recv takes the data.             *)
LEMMA InboxStep ==
  ASSUME TypeOK, [Next]_vars, NEW p \in Peer, inbox[p] # <<>> \/ hungup[p]
  PROVE  \/ inbox'[p] # <<>> \/ hungup'[p]
         \/ /\ c_pc = "recv" /\ c_pc' = "reply" /\ IsPeer(c_fd) /\ fdTable[c_fd] = p
            /\ UNCHANGED <<fdTable, ready, pollset, a_pc, a_fd>>
         \/ /\ a_pc = "recv" /\ a_pc' = "exec" /\ IsPeer(a_fd) /\ fdTable[a_fd] = p
            /\ UNCHANGED <<fdTable, ready, pollset, c_pc, c_fd>>
<1>1. CASE UNCHANGED <<inbox, hungup>>
  BY <1>1
<1>2. CASE ClientRecv
  <2>1. CASE TakeData(c_fd)
    <3>1. /\ c_pc = "recv"
          /\ UNCHANGED <<fdTable, ready, pollset, a_pc, a_fd>>
      BY <1>2 DEF ClientRecv, clientFrame, adminVars
    <3>2. UNCHANGED <<inbox, hungup>> \/ (c_pc' = "reply" /\ IsPeer(c_fd))
      BY <1>2 DEF ClientRecv, clientFrame, peerVars, ReceiveData
    <3>3. hungup' = hungup
      BY <1>2 DEF ClientRecv, clientFrame, peerVars
    <3>4. p # fdTable[c_fd] => inbox'[p] = inbox[p]
      BY <2>1 DEF TakeData, TypeOK
    <3>. QED
      BY <1>1, <3>1, <3>2, <3>3, <3>4
  <2>2. CASE UNCHANGED inbox
    BY <1>1, <1>2, <2>2 DEF ClientRecv, clientFrame, peerVars
  <2>. QED
    BY <1>2, <2>1, <2>2 DEF ClientRecv
<1>3. CASE AdminRecv
  <2>1. CASE TakeData(a_fd)
    <3>1. /\ a_pc = "recv"
          /\ UNCHANGED <<fdTable, ready, pollset, c_pc, c_fd>>
      BY <1>3 DEF AdminRecv, adminFrame, clientVars
    <3>2. UNCHANGED <<inbox, hungup>> \/ (a_pc' = "exec" /\ IsPeer(a_fd))
      BY <1>3 DEF AdminRecv, adminFrame, peerVars, ReceiveData
    <3>3. hungup' = hungup
      BY <1>3 DEF AdminRecv, adminFrame, peerVars
    <3>4. p # fdTable[a_fd] => inbox'[p] = inbox[p]
      BY <2>1 DEF TakeData, TypeOK
    <3>. QED
      BY <1>1, <3>1, <3>2, <3>3, <3>4
  <2>2. CASE UNCHANGED inbox
    BY <1>1, <1>3, <2>2 DEF AdminRecv, adminFrame, peerVars
  <2>. QED
    BY <1>3, <2>1, <2>2 DEF AdminRecv
<1>4. CASE Peers
  <2>2. ASSUME NEW q \in Peer, NEW l, NEW limit, Dial(q, l, limit)
        PROVE  UNCHANGED <<inbox, hungup>>
    BY <2>2 DEF Dial
  <2>3. ASSUME NEW q \in Peer, NEW texts \in {ClientTexts, AdminTexts}, SendText(q, texts)
        PROVE  inbox'[p] # <<>> \/ hungup'[p]
    <3>1. PICK text \in texts : inbox' = [inbox EXCEPT ![q] = text]
      BY <2>3 DEF SendText
    <3>2. text # <<>> /\ hungup' = hungup
      BY <2>3, <3>1, TextAssumption DEF SendText, peerVars
    <3>. QED
      BY <3>1, <3>2 DEF TypeOK
  <2>4. ASSUME NEW q \in Peer, HangUp(q)
        PROVE  inbox'[p] # <<>> \/ hungup'[p]
    BY <2>4 DEF HangUp, TypeOK
  <2>. QED
    BY <1>1, <1>4, <2>2, <2>3, <2>4 DEF Peers, Peer
<1>5. CASE \/ ClientThread /\ ~ClientRecv
           \/ AdminThread /\ ~AdminRecv
           \/ MainThread \/ ShutdownSignal \/ UNCHANGED vars
  BY <1>1, <1>5
     DEF ClientThread, ClientTop, ClientBuildPollSet, ClientPoll, ClientAccept, ClientAdmit,
         ClientReject, ClientCountAdmitted, ClientCountDropped, ClientServe, ClientDrop,
         ClientReply, clientFrame,
         AdminThread, AdminTop, AdminListen, AdminAccept, AdminCheck, AdminSession, AdminWait,
         AdminExec, AdminStop, AdminClose, AdminClear, adminFrame,
         MainThread, MainLeavesLoop, MainCloseAdminSocket, MainCloseClientSocket,
         MainCheckAdminClient, MainCloseAdminClient, MainSweep, MainJoin, ShutdownSignal,
         mainFrame, vars, peerVars
<1>. QED
  BY <1>2, <1>3, <1>4, <1>5 DEF Next, Terminated

(* Every step leaves what poll found true for the numbers still to be read.*)
LEMMA PromiseStep ==
  ASSUME TypeOK, ConnectionInv, RecvInv, [Next]_vars
  PROVE  PromisesKept'
<1>. USE DEF RecvInv
<1>. SUFFICES ASSUME NEW fd \in Fd, Promised(fd)', Promised(fd), fdTable'[fd] \in Peer
              PROVE  inbox'[fdTable'[fd]] # <<>> \/ hungup'[fdTable'[fd]]
  BY PromisedStep DEF PromisesKept, Promise
<1>1. fdTable'[fd] = fdTable[fd]
  BY PromisedHeld, HeldSame
<1>. DEFINE p == fdTable[fd]
<1>2. p \in Peer /\ (inbox[p] # <<>> \/ hungup[p])
  BY <1>1 DEF PromisesKept, Promise
<1>3. ASSUME c_pc = "recv", c_pc' = "reply", IsPeer(c_fd), fdTable[c_fd] = p,
             UNCHANGED <<fdTable, ready, pollset, a_pc, a_fd>>
      PROVE  FALSE
  <2>1. c_fd = fd
    BY <1>2, <1>3 DEF PeersOnce, IsPeer
  <2>2. ~\E s \in ready : pollset[s] = fd
    BY <1>3, <2>1 DEF LocalInv, NumbersDistinct
  <2>3. AdminNumber(fd) /\ ClientNumber(fd)
    BY <1>3, <2>1, <2>2 DEF Promised, AdminNumber, AdminHolds, ClientNumber
  <2>. QED
    BY <1>2, <2>3 DEF KindsApart, Peer
<1>4. ASSUME a_pc = "recv", a_pc' = "exec", IsPeer(a_fd), fdTable[a_fd] = p,
             UNCHANGED <<fdTable, ready, pollset, c_pc, c_fd>>
      PROVE  FALSE
  <2>1. a_fd = fd
    BY <1>2, <1>4 DEF PeersOnce, IsPeer
  <2>2. AdminNumber(fd)
    BY <1>4, <2>1 DEF AdminNumber, AdminHolds
  <2>3. \/ \E s \in ready : pollset[s] = fd
        \/ c_pc = "recv" /\ c_fd = fd
    BY <1>4 DEF Promised
  <2>4. ClientNumber(fd)
    BY <2>3, PromisedHeld
  <2>. QED
    BY <1>2, <2>2, <2>4 DEF KindsApart, Peer
<1>. QED
  BY <1>1, <1>2, <1>3, <1>4, InboxStep

(* At the start nothing is held and nothing is queued.                     *)
LEMMA InitRecvInv == Init => RecvInv
<1>. SUFFICES ASSUME Init PROVE RecvInv
  OBVIOUS
<1>1. ActiveSlots = {} /\ Polled = {} /\ ready = {} /\ Watched = {}
  BY DEF Init, ActiveSlots, Polled, Watched
<1>2. LocalInv
  BY <1>1 DEF Init, LocalInv, ReadyEmpty, ReadyCurrent, NumbersDistinct
<1>3. KindsApart
  BY <1>1 DEF Init, KindsApart, ClientNumber, AdminNumber, AdminHolds
<1>4. \A fd \in Fd : fdTable[fd] \in {"admin_socket", "client_socket", "free"}
  BY DEF Init
<1>5. PeersOnce
  BY <1>4, ObjectsDistinct DEF Init, PeersOnce, QueueDistinct
<1>6. PromisesKept
  BY <1>1 DEF Init, PromisesKept, Promised
<1>. QED
  BY <1>2, <1>3, <1>5, <1>6 DEF RecvInv

(* In every reachable state the threads' numbers are their own, and what   *)
(* poll found of one stays true until its turn comes.                      *)
THEOREM PromisesHold == SafetySpec => []RecvInv
<1>1. TypeOK /\ ConnectionInv /\ RecvInv /\ [Next]_vars => RecvInv'
  BY LocalStep, KindsStep, PeersOnceStep, PromiseStep DEF RecvInv
<1>. QED
  BY <1>1, InitRecvInv, TypeCorrect, ConnectionsConsistent, PTL DEF SafetySpec

(* Neither thread ever blocks in recv: a number poll reported is not taken *)
(* over by another connection before recv, nor is its data.                *)
THEOREM RecvReturns == SafetySpec => []RecvNeverBlocks
<1>1. TypeOK /\ RecvInv => RecvNeverBlocks
  <2>. SUFFICES ASSUME TypeOK, RecvInv, NEW fd, Promised(fd)
                PROVE  ReceiveData(fd) \/ ReceiveFails(fd)
    BY DEF RecvNeverBlocks, Promised
  <2>. QED
    BY DEF RecvInv, PromisesKept, Promise, ReceiveData, ReceiveFails, IsPeer
<1>. QED
  BY <1>1, PromisesHold, TypeCorrect, PTL

-----------------------------------------------------------------------------
(* Why connections are closed.                                             *)

(* A peer that has hung up does not send again.                            *)
LEMMA GoneStep ==
  ASSUME TypeOK, [Next]_vars, NEW p \in Peer, Gone(p)
  PROVE  Gone(p)'
<1>. USE DEF Gone
<1>1. CASE UNCHANGED <<inbox, hungup>>
  BY <1>1
<1>2. CASE ClientRecv
  BY <1>2 DEF ClientRecv, TakeData, TypeOK, clientFrame, peerVars
<1>3. CASE AdminRecv
  BY <1>3 DEF AdminRecv, TakeData, TypeOK, adminFrame, peerVars
<1>4. CASE Peers
  <2>1. ASSUME NEW q \in Peer, NEW l, NEW limit, Dial(q, l, limit)
        PROVE  UNCHANGED <<inbox, hungup>>
    BY <2>1 DEF Dial
  <2>2. ASSUME NEW q \in Peer, NEW texts, SendText(q, texts)
        PROVE  Gone(p)'
    <3>1. q # p
      BY <2>2 DEF SendText
    <3>. QED
      BY <2>2, <3>1 DEF SendText, TypeOK, peerVars
  <2>3. ASSUME NEW q \in Peer, HangUp(q)
        PROVE  Gone(p)'
    BY <2>3 DEF HangUp, TypeOK
  <2>. QED
    BY <1>1, <1>4, <2>1, <2>2, <2>3 DEF Peers, Peer
<1>5. CASE \/ ClientThread /\ ~ClientRecv
           \/ AdminThread /\ ~AdminRecv
           \/ MainThread \/ ShutdownSignal \/ UNCHANGED vars
  BY <1>1, <1>5
     DEF ClientThread, ClientTop, ClientBuildPollSet, ClientPoll, ClientAccept, ClientAdmit,
         ClientReject, ClientCountAdmitted, ClientCountDropped, ClientServe, ClientDrop,
         ClientReply, clientFrame,
         AdminThread, AdminTop, AdminListen, AdminAccept, AdminCheck, AdminSession, AdminWait,
         AdminExec, AdminStop, AdminClose, AdminClear, adminFrame,
         MainThread, MainLeavesLoop, MainCloseAdminSocket, MainCloseClientSocket,
         MainCheckAdminClient, MainCloseAdminClient, MainSweep, MainJoin, ShutdownSignal,
         mainFrame, vars, peerVars
<1>. QED
  BY <1>2, <1>3, <1>4, <1>5 DEF Next, Terminated

(* The flag is never set again once main has left its loop.                *)
LEMMA FlagStep ==
  ASSUME TypeOK, m_pc # "run" => ~server_running, [Next]_vars
  PROVE  /\ m_pc' # "run" => ~server_running'
         /\ ~server_running => ~server_running'
<1>1. CASE UNCHANGED <<server_running, m_pc>>
  BY <1>1
<1>2. CASE ClientThread \/ Peers \/ UNCHANGED vars
  BY <1>1, <1>2
     DEF ClientThread, ClientTop, ClientBuildPollSet, ClientPoll, ClientAccept, ClientAdmit,
         ClientReject, ClientCountAdmitted, ClientCountDropped, ClientServe, ClientRecv,
         ClientDrop, ClientReply, clientFrame,
         Peers, Dial, SendText, HangUp, peersFrame, vars, flagVars
<1>3. CASE AdminThread
  BY <1>1, <1>3
     DEF AdminThread, AdminTop, AdminListen, AdminAccept, AdminCheck, AdminSession, AdminWait,
         AdminRecv, AdminExec, AdminStop, AdminClose, AdminClear, adminFrame, flagVars
<1>4. CASE MainThread \/ ShutdownSignal
  BY <1>4
     DEF MainThread, MainLeavesLoop, MainCloseAdminSocket, MainCloseClientSocket,
         MainCheckAdminClient, MainCloseAdminClient, MainSweep, MainJoin, ShutdownSignal
<1>. QED
  BY <1>2, <1>3, <1>4 DEF Next, Terminated

(* What a step of the admin thread does to the facts of CauseInv.          *)
LEMMA AdminStep ==
  ASSUME TypeOK, ConnectionInv, CauseInv, [Next]_vars
  PROVE  /\ a_pc' \in AdminHolds =>
              a_fd' \in Fd /\ (a_pc' = "check" \/ admin_client_fd' = a_fd')
         /\ a_pc' = "close" => \/ a_pc = "close" /\ UNCHANGED <<a_fd, idle>>
                               \/ ~server_running'
                               \/ idle' > AdminTimeout
                               \/ /\ a_pc = "recv" /\ ReceiveFails(a_fd)
                                  /\ UNCHANGED <<a_fd, fdTable, inbox, hungup>>
         /\ a_pc' \in {"wait", "recv", "exec"} =>
              a_fd' = a_fd /\ (a_pc \in {"wait", "recv", "exec"} \/ server_running)
<1>. USE DEF CauseInv, AdminHolds
<1>1. CASE UNCHANGED <<adminVars, admin_client_fd>>
  BY <1>1 DEF adminVars
<1>2. CASE ClientThread \/ Peers \/ MainThread \/ ShutdownSignal \/ UNCHANGED vars
  BY <1>1, <1>2
     DEF ClientThread, ClientTop, ClientBuildPollSet, ClientPoll, ClientAccept, ClientAdmit,
         ClientReject, ClientCountAdmitted, ClientCountDropped, ClientServe, ClientRecv,
         ClientDrop, ClientReply, clientFrame,
         MainThread, MainLeavesLoop, MainCloseAdminSocket, MainCloseClientSocket,
         MainCheckAdminClient, MainCloseAdminClient, MainSweep, MainJoin, ShutdownSignal,
         mainFrame, Peers, Dial, SendText, HangUp, peersFrame, vars
<1>3. CASE AdminThread
  <2>1. CASE AdminTop \/ AdminListen
    BY <2>1 DEF AdminTop, AdminListen
  <2>2. CASE AdminAccept
    BY <2>2 DEF AdminAccept
  <2>3. CASE AdminCheck
    BY <2>3 DEF AdminCheck
  <2>4. CASE AdminSession
    <3>1. a_fd # NoFd
      BY <2>4 DEF AdminSession, Fd, NoFd
    <3>. QED
      BY <2>4, <3>1 DEF AdminSession, flagVars
  <2>5. CASE AdminWait
    BY <2>5 DEF AdminWait
  <2>6. CASE AdminRecv
    BY <2>6 DEF AdminRecv, adminFrame, peerVars
  <2>7. CASE AdminExec
    <3>1. a_pc = "exec" /\ a_pc' \in {"session", "stop"} /\ UNCHANGED <<a_fd, admin_client_fd>>
      BY <2>7 DEF AdminExec, AdminSetLogLevel, AdminGetStats, AdminShutdownServer,
                  AdminUnknownCommand
    <3>. QED
      BY <3>1
  <2>8. CASE AdminStop
    BY <2>8 DEF AdminStop
  <2>9. CASE AdminClose \/ AdminClear
    BY <2>9 DEF AdminClose, AdminClear
  <2>. QED
    BY <1>3, <2>1, <2>2, <2>3, <2>4, <2>5, <2>6, <2>7, <2>8, <2>9 DEF AdminThread
<1>. QED
  BY <1>2, <1>3 DEF Next, Terminated

(* The client thread drops a client only after a recv that failed.         *)
LEMMA ClientDropStep ==
  ASSUME [Next]_vars, c_pc' = "drop"
  PROVE  \/ c_pc = "drop" /\ c_fd' = c_fd
         \/ /\ c_pc = "recv" /\ ReceiveFails(c_fd)
            /\ UNCHANGED <<c_fd, fdTable, inbox, hungup>>
<1>1. CASE UNCHANGED clientVars
  BY <1>1 DEF clientVars
<1>2. CASE ClientThread
  <2>1. CASE ClientRecv
    BY <2>1 DEF ClientRecv, clientFrame, peerVars
  <2>2. CASE ClientPoll
    BY <2>2 DEF ClientPoll, ClientPollWakes, ClientPollTimesOut, ClientPollFails
  <2>3. CASE ClientServe
    BY <2>3 DEF ClientServe
  <2>. QED
    BY <1>2, <2>1, <2>2, <2>3
       DEF ClientThread, ClientTop, ClientBuildPollSet, ClientAccept, ClientAdmit,
           ClientReject, ClientCountAdmitted, ClientCountDropped, ClientDrop, ClientReply
<1>3. CASE AdminThread \/ MainThread \/ ShutdownSignal \/ Peers \/ UNCHANGED vars
  BY <1>1, <1>3
     DEF AdminThread, AdminTop, AdminListen, AdminAccept, AdminCheck, AdminSession, AdminWait,
         AdminRecv, AdminExec, AdminStop, AdminClose, AdminClear, adminFrame,
         MainThread, MainLeavesLoop, MainCloseAdminSocket, MainCloseClientSocket,
         MainCheckAdminClient, MainCloseAdminClient, MainSweep, MainJoin, ShutdownSignal,
         mainFrame, Peers, Dial, SendText, HangUp, peersFrame, vars
<1>. QED
  BY <1>2, <1>3 DEF Next, Terminated

(* Every step keeps the cause of the close that is about to happen.        *)
LEMMA CauseStep ==
  ASSUME TypeOK, ConnectionInv, RecvInv, CauseInv, [Next]_vars
  PROVE  CauseInv'
<1>1. m_pc' # "run" => ~server_running'
  BY FlagStep DEF CauseInv
<1>2. a_pc' \in AdminHolds =>
        a_fd' \in Fd /\ (a_pc' = "check" \/ admin_client_fd' = a_fd')
  BY AdminStep
<1>3. ASSUME NEW fd \in Fd, c_pc' = "drop", fd = c_fd', fdTable'[fd] \in Peer
      PROVE  Gone(fdTable[fd])'
  <2>1. CASE c_pc = "drop" /\ c_fd' = c_fd
    <3>1. fdTable'[fd] = fdTable[fd]
      BY <1>3, <2>1, HeldSame DEF ClientNumber, RecvInv
    <3>2. Gone(fdTable[fd])
      BY <1>3, <2>1, <3>1 DEF CauseInv
    <3>3. \A p \in Peer : Gone(p) => Gone(p)'
      BY GoneStep
    <3>. QED
      BY <1>3, <3>1, <3>2, <3>3 DEF Gone
  <2>2. CASE /\ c_pc = "recv" /\ ReceiveFails(c_fd)
             /\ UNCHANGED <<c_fd, fdTable, inbox, hungup>>
    BY <1>3, <2>2 DEF ReceiveFails, IsPeer, Gone
  <2>. QED
    BY <1>3, <2>1, <2>2, ClientDropStep
<1>4. ASSUME a_pc' = "close", server_running', ~(idle' > AdminTimeout),
             NEW fd \in Fd, fd = a_fd', fdTable'[fd] \in Peer
      PROVE  Gone(fdTable[fd])'
  <2>1. CASE a_pc = "close" /\ UNCHANGED <<a_fd, idle>>
    <3>1. fdTable'[fd] = fdTable[fd]
      BY <1>4, <2>1, HeldSame DEF AdminNumber, AdminHolds, RecvInv
    <3>2. server_running
      BY <1>4, FlagStep DEF CauseInv
    <3>3. Gone(fdTable[fd])
      BY <1>4, <2>1, <3>1, <3>2 DEF CauseInv
    <3>4. \A p \in Peer : Gone(p) => Gone(p)'
      BY GoneStep
    <3>. QED
      BY <1>4, <3>1, <3>3, <3>4 DEF Gone
  <2>2. CASE /\ a_pc = "recv" /\ ReceiveFails(a_fd)
             /\ UNCHANGED <<a_fd, fdTable, inbox, hungup>>
    BY <1>4, <2>2 DEF ReceiveFails, IsPeer, Gone
  <2>. QED
    BY <1>4, <2>1, <2>2, AdminStep
<1>. QED
  BY <1>1, <1>2, <1>3, <1>4 DEF CauseInv

(* Whoever is about to close a connection has a cause that stays one until *)
(* the close, and a session has its own number in admin_client_fd.         *)
THEOREM CausesHold == SafetySpec => []CauseInv
<1>1. Init => CauseInv
  BY DEF Init, CauseInv, AdminHolds
<1>. QED
  BY <1>1, CauseStep, PromisesHold, TypeCorrect, ConnectionsConsistent, PTL DEF SafetySpec

(* The steps that close a number, each with its cause.                     *)
LEMMA CloserHasCause ==
  ASSUME TypeOK, ConnectionInv, RecvInv, CauseInv, [Next]_vars,
         NEW fd \in Fd, fdTable[fd] \in Peer, fdTable'[fd] # fdTable[fd]
  PROVE  ClientThreadCloses(fd) \/ AdminThreadCloses(fd) \/ MainCloses
<1>1. ~UNCHANGED fdTable
  OBVIOUS
<1>2. /\ ClientNumber(fd) => fdTable[fd] \in Client
      /\ AdminNumber(fd) => fdTable[fd] \in Admin
  BY DEF RecvInv, KindsApart, Peer
<1>3. CASE ClientThread
  <2>1. CASE ClientAccept
    <3>1. PICK n \in Fd : AcceptInto(n, "client_socket")
      BY <1>1, <2>1 DEF ClientAccept
    <3>2. fdTable[n] = "free" /\ fdTable'[fd] = IF fd = n THEN Head(backlog["client_socket"])
                                                ELSE fdTable[fd]
      BY <3>1 DEF AcceptInto, LowestFree, TypeOK
    <3>. QED
      BY <3>2, ObjectsDistinct
  <2>2. CASE ClientReject
    <3>1. fd = c_fd /\ c_pc = "admit" /\ c_pc' = "serve" /\ ActiveSlots = Slot
      BY <2>2, CloseEffect DEF ClientReject
    <3>2. fdTable[fd] \in Client
      BY <1>2, <3>1 DEF ClientNumber
    <3>. QED
      BY <3>1, <3>2 DEF ClientThreadCloses
  <2>3. CASE ClientDrop
    <3>1. fd = clients[c_slot].socket_fd /\ c_pc = "drop" /\ c_pc' = "dropped"
      BY <2>3, CloseEffect DEF ClientDrop
    <3>2. fd = c_fd
      BY <3>1 DEF RecvInv, LocalInv, NumbersDistinct
    <3>3. fdTable[fd] \in Client
      BY <1>2, <3>1, <3>2 DEF ClientNumber
    <3>4. Gone(fdTable[fd])
      BY <3>1, <3>2 DEF CauseInv
    <3>. QED
      BY <3>1, <3>2, <3>3, <3>4 DEF ClientThreadCloses
  <2>4. CASE ClientTop \/ ClientBuildPollSet \/ ClientPoll \/ ClientAdmit \/ ClientServe
             \/ ClientRecv \/ ClientReply \/ ClientCountAdmitted \/ ClientCountDropped
    BY <1>1, <2>4
       DEF ClientTop, ClientBuildPollSet, ClientPoll, ClientAdmit, ClientServe, ClientRecv,
           ClientReply, ClientCountAdmitted, ClientCountDropped
  <2>. QED
    BY <1>3, <2>1, <2>2, <2>3, <2>4 DEF ClientThread
<1>4. CASE AdminThread
  <2>1. CASE AdminAccept
    <3>1. PICK n \in Fd : AcceptInto(n, "admin_socket")
      BY <1>1, <2>1 DEF AdminAccept
    <3>2. fdTable[n] = "free" /\ fdTable'[fd] = IF fd = n THEN Head(backlog["admin_socket"])
                                                ELSE fdTable[fd]
      BY <3>1 DEF AcceptInto, LowestFree, TypeOK
    <3>. QED
      BY <3>2, ObjectsDistinct
  <2>2. CASE AdminCheck
    <3>1. admin_client_fd = NoFd
      BY <2>2 DEF AdminCheck, ConnectionInv, AdminFieldCurrent
    <3>. QED
      BY <1>1, <2>2, <3>1 DEF AdminCheck
  <2>3. CASE AdminClose
    <3>1. fd = a_fd /\ a_pc \in {"close", "failed"} /\ a_pc' = "clear"
      BY <2>3, CloseEffect DEF AdminClose
    <3>2. fdTable[fd] \in Admin
      BY <1>2, <3>1 DEF AdminNumber, AdminHolds
    <3>3. Gone(fdTable[fd]) \/ idle > AdminTimeout \/ a_pc = "failed" \/ ~server_running
      BY <3>1 DEF CauseInv
    <3>. QED
      BY <3>1, <3>2, <3>3 DEF AdminThreadCloses
  <2>4. CASE AdminTop \/ AdminListen \/ AdminSession \/ AdminWait \/ AdminRecv \/ AdminExec
             \/ AdminStop \/ AdminClear
    BY <1>1, <2>4
       DEF AdminTop, AdminListen, AdminSession, AdminWait, AdminRecv, AdminExec, AdminStop,
           AdminClear
  <2>. QED
    BY <1>4, <2>1, <2>2, <2>3, <2>4 DEF AdminThread
<1>5. CASE MainThread \/ ShutdownSignal
  <2>1. MainCloseAdminSocket \/ MainCloseClientSocket \/ MainCloseAdminClient \/ MainSweep
    BY <1>1, <1>5
       DEF MainThread, MainLeavesLoop, MainCheckAdminClient, MainJoin, ShutdownSignal
  <2>2. m_pc # "run" /\ m_pc' # m_pc
    BY <2>1
       DEF MainCloseAdminSocket, MainCloseClientSocket, MainCloseAdminClient, MainSweep
  <2>. QED
    BY <2>2 DEF CauseInv, MainCloses
<1>6. CASE Peers \/ UNCHANGED vars
  BY <1>1, <1>6 DEF Peers, Dial, SendText, HangUp, peersFrame, vars
<1>. QED
  BY <1>3, <1>4, <1>5, <1>6 DEF Next, Terminated

(* A thread closes the connections it has accepted itself and no others,   *)
(* each for a cause, also while the server stops; what the other one has   *)
(* accepted is closed by main, if at all, and only when the server stops.  *)
THEOREM EveryCloseHasCause == SafetySpec => ClosedForCause
<1>1. TypeOK /\ ConnectionInv /\ RecvInv /\ CauseInv /\ [Next]_vars =>
        [\A fd \in Fd :
           fdTable[fd] \in Peer /\ fdTable'[fd] # fdTable[fd] =>
             ClientThreadCloses(fd) \/ AdminThreadCloses(fd) \/ MainCloses]_vars
  BY CloserHasCause
<1>. QED
  BY <1>1, CausesHold, PromisesHold, TypeCorrect, ConnectionsConsistent, PTL
     DEF SafetySpec, ClosedForCause

-----------------------------------------------------------------------------
(* What an administrator is told.                                          *)

(* Every step keeps a session that outlives the sweep disconnected.        *)
LEMMA StatsStep ==
  ASSUME TypeOK, ConnectionInv, RecvInv, CauseInv, StatsInv, [Next]_vars
  PROVE  StatsInv'
<1>1. active_connections' <= total_connections'
  <2>1. CASE UNCHANGED statsVars
    BY <2>1 DEF StatsInv, statsVars
  <2>2. CASE ClientCountAdmitted \/ ClientCountDropped
    BY <2>2 DEF ClientCountAdmitted, ClientCountDropped, StatsInv, TypeOK
  <2>3. ClientCountAdmitted \/ ClientCountDropped \/ UNCHANGED statsVars
    BY DEF Next, Terminated, vars,
           ClientThread, ClientTop, ClientBuildPollSet, ClientPoll, ClientAccept,
           ClientAdmit, ClientReject, ClientServe, ClientRecv, ClientDrop, ClientReply,
           AdminThread, AdminTop, AdminListen, AdminAccept, AdminCheck, AdminSession,
           AdminWait, AdminRecv, AdminExec, AdminStop, AdminClose, AdminClear, adminFrame,
           MainThread, MainLeavesLoop, MainCloseAdminSocket, MainCloseClientSocket,
           MainCheckAdminClient, MainCloseAdminClient, MainSweep, MainJoin, ShutdownSignal,
           mainFrame, Peers, Dial, SendText, HangUp, peersFrame
  <2>. QED
    BY <2>1, <2>2, <2>3
<1>2. ASSUME m_pc' \in {"sweep", "join", "exit"}, a_pc' \in {"wait", "recv", "exec"},
             fdTable'[a_fd'] \in Admin
      PROVE  FALSE
  <2>1. m_pc # "run" \/ MainLeavesLoop
    BY <1>2
       DEF Next, Terminated, vars,
           ClientThread, ClientTop, ClientBuildPollSet, ClientPoll, ClientAccept, ClientAdmit,
           ClientReject, ClientCountAdmitted, ClientCountDropped, ClientServe, ClientRecv,
           ClientDrop, ClientReply, clientFrame,
           AdminThread, AdminTop, AdminListen, AdminAccept, AdminCheck, AdminSession,
           AdminWait, AdminRecv, AdminExec, AdminStop, AdminClose, AdminClear, adminFrame,
           MainThread, MainCloseAdminSocket, MainCloseClientSocket, MainCheckAdminClient,
           MainCloseAdminClient, MainSweep, MainJoin, ShutdownSignal,
           Peers, Dial, SendText, HangUp, peersFrame
  <2>2. m_pc # "run" /\ ~server_running
    BY <1>2, <2>1 DEF MainLeavesLoop, CauseInv
  <2>3. a_fd' = a_fd /\ a_pc \in {"wait", "recv", "exec"}
    BY <1>2, <2>2, AdminStep
  <2>4. a_fd \in Fd /\ admin_client_fd = a_fd
    BY <2>3 DEF CauseInv, AdminHolds
  <2>5. fdTable[a_fd] = fdTable'[a_fd]
    <3>1. AdminNumber(a_fd) /\ fdTable'[a_fd] \in Peer
      BY <1>2, <2>3 DEF AdminNumber, AdminHolds, Peer
    <3>. QED
      BY <2>4, <3>1, HeldSame DEF RecvInv
  <2>6. m_pc \notin {"sweep", "join", "exit"}
    BY <1>2, <2>3, <2>5 DEF StatsInv
  <2>7. CASE MainThread \/ ShutdownSignal
    <3>1. CASE MainCheckAdminClient
      <4>1. admin_client_fd = NoFd
        BY <1>2, <3>1 DEF MainCheckAdminClient
      <4>. QED
        BY <2>4, <4>1 DEF Fd, NoFd
    <3>2. CASE MainCloseAdminClient
      <4>1. fdTable'[a_fd] = "free"
        BY <2>4, <3>2, CloseEffect DEF MainCloseAdminClient
      <4>. QED
        BY <1>2, <2>3, <4>1, ObjectsDistinct
    <3>. QED
      BY <1>2, <2>6, <2>7, <3>1, <3>2
         DEF MainThread, MainLeavesLoop, MainCloseAdminSocket, MainCloseClientSocket,
             MainSweep, MainJoin, ShutdownSignal
  <2>8. CASE ClientThread \/ AdminThread \/ Peers \/ UNCHANGED vars
    BY <1>2, <2>6, <2>8
       DEF ClientThread, ClientTop, ClientBuildPollSet, ClientPoll, ClientAccept, ClientAdmit,
           ClientReject, ClientCountAdmitted, ClientCountDropped, ClientServe, ClientRecv,
           ClientDrop, ClientReply, clientFrame,
           AdminThread, AdminTop, AdminListen, AdminAccept, AdminCheck, AdminSession,
           AdminWait, AdminRecv, AdminExec, AdminStop, AdminClose, AdminClear, adminFrame,
           Peers, Dial, SendText, HangUp, peersFrame, vars
  <2>. QED
    BY <2>7, <2>8 DEF Next, Terminated
<1>3. /\ c_pc' = "admitted" => ActiveSlots' # {}
      /\ c_pc' = "dropped" => ActiveSlots' # Slot
  <2>1. CASE UNCHANGED <<clients, c_pc>>
    BY <2>1 DEF StatsInv, ActiveSlots
  <2>2. CASE ClientThread
    <3>1. CASE ClientAdmit
      <4>1. PICK s \in Slot :
              clients' = [clients EXCEPT ![s] = [socket_fd |-> c_fd, address |-> c_addr,
                                                 is_active |-> TRUE]]
        BY <3>1 DEF ClientAdmit
      <4>2. s \in ActiveSlots' /\ c_pc' = "admitted"
        BY <3>1, <4>1 DEF ClientAdmit, ActiveSlots, TypeOK
      <4>. QED
        BY <4>2
    <3>2. CASE ClientDrop
      <4>1. c_slot \in Slot /\ c_slot \notin ActiveSlots' /\ c_pc' = "dropped"
        BY <3>2 DEF ClientDrop, ActiveSlots, TypeOK, ClientInfo
      <4>. QED
        BY <4>1
    <3>3. CASE ~ClientAdmit /\ ~ClientDrop
      <4>1. c_pc' \notin {"admitted", "dropped"}
        BY <2>2, <3>3
           DEF ClientThread, ClientTop, ClientBuildPollSet, ClientPoll, ClientPollWakes,
               ClientPollTimesOut, ClientPollFails, ClientAccept, ClientReject,
               ClientCountAdmitted, ClientCountDropped, ClientServe, ClientRecv, ClientReply
      <4>. QED
        BY <4>1
    <3>. QED
      BY <3>1, <3>2, <3>3
  <2>3. CASE MainSweep
    BY <2>3 DEF MainSweep, mainFrame, clientVars
  <2>4. CASE AdminThread \/ (MainThread /\ ~MainSweep) \/ ShutdownSignal \/ Peers
             \/ UNCHANGED vars
    BY <2>1, <2>4
       DEF AdminThread, AdminTop, AdminListen, AdminAccept, AdminCheck, AdminSession,
           AdminWait, AdminRecv, AdminExec, AdminStop, AdminClose, AdminClear, adminFrame,
           MainThread, MainLeavesLoop, MainCloseAdminSocket, MainCloseClientSocket,
           MainCheckAdminClient, MainCloseAdminClient, MainJoin, ShutdownSignal, mainFrame,
           Peers, Dial, SendText, HangUp, peersFrame, vars, clientVars
  <2>. QED
    BY <2>2, <2>3, <2>4 DEF Next, Terminated
<1>. QED
  BY <1>1, <1>2, <1>3 DEF StatsInv

(* Only GET_STATS sends numbers, and it does so in a session; a peer that  *)
(* hangs up forgets them.                                                  *)
LEMMA ReplyStep ==
  ASSUME TypeOK, [Next]_vars, NEW p \in Admin, reply'[p] # reply[p]
  PROVE  \/ reply'[p].active = 0 /\ reply'[p].total = 0
         \/ /\ a_pc = "exec" /\ a_fd \in Fd /\ fdTable[a_fd] = p
            /\ reply'[p].active = active_connections /\ reply'[p].total = total_connections
<1>0. p \in Peer
  BY DEF Peer
<1>1. ASSUME NEW fd, NEW status, Send(fd, Response(status))
      PROVE  reply'[p].active = 0 /\ reply'[p].total = 0
  BY <1>0, <1>1 DEF Send, Response
<1>2. CASE ClientReply
  BY <1>1, <1>2 DEF ClientReply
<1>3. CASE AdminCheck
  BY <1>1, <1>3 DEF AdminCheck
<1>4. CASE AdminExec
  <2>1. CASE AdminGetStats
    BY <1>0, <1>4, <2>1 DEF AdminExec, AdminGetStats, Send, StatsResponse
  <2>2. CASE AdminSetLogLevel \/ AdminShutdownServer \/ AdminUnknownCommand
    BY <1>1, <2>2 DEF AdminSetLogLevel, AdminShutdownServer, AdminUnknownCommand
  <2>. QED
    BY <1>4, <2>1, <2>2 DEF AdminExec
<1>5. CASE \E q \in Peer : HangUp(q)
  <2>1. reply'[p] = NoResponse
    BY <1>0, <1>5 DEF HangUp, TypeOK
  <2>. QED
    BY <2>1 DEF NoResponse, Response
<1>6. CASE \/ ClientThread /\ ~ClientReply
           \/ AdminThread /\ ~AdminCheck /\ ~AdminExec
           \/ MainThread \/ ShutdownSignal \/ UNCHANGED vars
           \/ Peers /\ ~\E q \in Peer : HangUp(q)
  <2>1. UNCHANGED reply
    BY <1>6
       DEF ClientThread, ClientTop, ClientBuildPollSet, ClientPoll, ClientAccept, ClientAdmit,
           ClientReject, ClientCountAdmitted, ClientCountDropped, ClientServe, ClientRecv,
           ClientDrop,
           AdminThread, AdminTop, AdminListen, AdminAccept, AdminSession, AdminWait,
           AdminRecv, AdminStop, AdminClose, AdminClear,
           MainThread, MainLeavesLoop, MainCloseAdminSocket, MainCloseClientSocket,
           MainCheckAdminClient, MainCloseAdminClient, MainSweep, MainJoin, ShutdownSignal,
           mainFrame, Peers, Dial, SendText, vars
  <2>. QED
    BY <2>1
<1>. QED
  BY <1>2, <1>3, <1>4, <1>5, <1>6 DEF Next, Terminated

(* GET_STATS never reports more active clients than slots, fewer than none *)
(* or more than ever connected, although the counter is left wrong by the  *)
(* sweep: a session that is still answered then is no longer connected.    *)
THEOREM StatsAreSane == SafetySpec => []StatsReplySane
<1>1. Init => StatsInv /\ StatsReplySane
  BY SizeAssumption
     DEF Init, StatsInv, StatsReplySane, NoResponse, Response, Peer
<1>2. ASSUME TypeOK, ConnectionInv, CauseInv, StatsInv, CountMatches, StatsReplySane,
             [Next]_vars
      PROVE  StatsReplySane'
  <2>. SUFFICES ASSUME NEW p \in Admin, reply'[p] # reply[p]
                PROVE  reply'[p].active \in 0 .. MaxClients /\ reply'[p].active <= reply'[p].total
    BY <1>2 DEF StatsReplySane
  <2>1. CASE reply'[p].active = 0 /\ reply'[p].total = 0
    BY <2>1, SizeAssumption
  <2>2. CASE /\ a_pc = "exec" /\ a_fd \in Fd /\ fdTable[a_fd] = p
             /\ reply'[p].active = active_connections /\ reply'[p].total = total_connections
    <3>1. m_pc \notin {"join", "exit"}
      BY <1>2, <2>2 DEF StatsInv
    <3>2. active_connections = Cardinality(ActiveSlots) + Uncounted
      BY <1>2, <3>1 DEF CountMatches
    <3>3. Cardinality(ActiveSlots) \in Nat
      BY ActiveSlotsFinite, FS_CardinalityType
    <3>4. IsFiniteSet(Slot) /\ Cardinality(Slot) = MaxClients
      <4>1. 0 \in Int /\ MaxClients - 1 \in Int /\ ~(0 > MaxClients - 1)
              /\ (MaxClients - 1) - 0 + 1 = MaxClients
        BY SizeAssumption
      <4>. QED
        BY <4>1, FS_Interval DEF Slot
    <3>5. /\ Cardinality(ActiveSlots) <= MaxClients
          /\ ActiveSlots # Slot => Cardinality(ActiveSlots) # MaxClients
      <4>1. ActiveSlots \subseteq Slot
        BY DEF ActiveSlots
      <4>. QED
        BY <3>4, <4>1, FS_Subset
    <3>6. ActiveSlots # {} => Cardinality(ActiveSlots) # 0
      BY ActiveSlotsFinite, FS_EmptySet
    <3>7. /\ Uncounted \in {-1, 0, 1}
          /\ Uncounted = -1 => Cardinality(ActiveSlots) # 0
          /\ Uncounted = 1 => Cardinality(ActiveSlots) # MaxClients
      BY <1>2, <3>5, <3>6 DEF Uncounted, StatsInv
    <3>8. active_connections \in 0 .. MaxClients
      BY <3>2, <3>3, <3>5, <3>7, SizeAssumption
    <3>. QED
      BY <1>2, <2>2, <3>8 DEF StatsInv
  <2>. QED
    BY <1>2, <2>1, <2>2, ReplyStep
<1>3. TypeOK /\ ConnectionInv /\ RecvInv /\ CauseInv /\ StatsInv /\ [Next]_vars => StatsInv'
  BY StatsStep
<1>4. TypeOK /\ ConnectionInv /\ CauseInv /\ StatsInv /\ CountMatches /\ StatsReplySane
        /\ [Next]_vars => StatsReplySane'
  BY <1>2
<1>. QED
  BY <1>1, <1>3, <1>4, CountIsExact, CausesHold, PromisesHold, TypeCorrect,
     ConnectionsConsistent, PTL DEF SafetySpec
=============================================================================
