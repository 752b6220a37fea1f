----------------------- MODULE AntivirusServerProofs -----------------------
(***************************************************************************)
(* Theorems about AntivirusServer, for every number of clients,            *)
(* administrators, slots and descriptors, with or without failing polls.   *)
(***************************************************************************)
EXTENDS AntivirusServer, FiniteSetTheorems, TLAPS

(* A parsed log level is the name of a level or INVALID_LEVEL.             *)
LEMMA LogLevelParsed ==
  ASSUME NEW args
  PROVE  StringToLogLevel(args) \in LogLevel \cup {INVALID_LEVEL}
<1>1. CASE \E level \in LogLevel : args = <<level>>
  <2>1. PICK level \in LogLevel : args = <<level>>
    BY <1>1
  <2>2. args[1] = level
    BY <2>1
  <2>. QED
    BY <1>1, <2>2 DEF StringToLogLevel
<1>2. CASE ~\E level \in LogLevel : args = <<level>>
  BY <1>2 DEF StringToLogLevel
<1>. QED
  BY <1>1, <1>2

(* Every record send_response builds is one of the protocol's.             *)
LEMMA ResponsesTyped ==
  /\ \A status \in {"NONE", "OK", "ERROR"} : Response(status) \in ResponseType
  /\ \A total \in Nat, active \in Int : StatsResponse(total, active) \in ResponseType
BY DEF Response, StatsResponse, ResponseType

(* Closing a number leaves the descriptor table and the queues typed.      *)
LEMMA CloseTyped ==
  ASSUME TypeOK, NEW fd, Close(fd)
  PROVE  /\ fdTable' \in [Fd -> Object]
         /\ backlog' \in [Listener -> Seq(Peer)]
         /\ backlog'["client_socket"] \in Seq(Client)
         /\ backlog'["admin_socket"] \in Seq(Admin)
BY DEF TypeOK, Close, Object, Listener

(* Answering leaves the answers typed.                                     *)
LEMMA SendTyped ==
  ASSUME TypeOK, NEW fd, NEW response \in ResponseType, Send(fd, response)
  PROVE  reply' \in [Peer -> ResponseType]
BY DEF TypeOK, Send

(* Data is received from the queue of a peer, which is left empty.         *)
LEMMA DataTyped ==
  ASSUME TypeOK, NEW fd, ReceiveData(fd), TakeData(fd)
  PROVE  inbox[fdTable[fd]] \in Seq(Token) /\ inbox' \in [Peer -> Seq(Token)]
<1>1. fdTable[fd] \in Peer
  BY DEF ReceiveData, IsPeer
<1>2. <<>> \in Seq(Token)
  OBVIOUS
<1>. QED
  BY <1>1, <1>2 DEF TypeOK, TakeData

-----------------------------------------------------------------------------
(* Type correctness, thread by thread.                                     *)

LEMMA InitTyped == Init => TypeOK
<1>. SUFFICES ASSUME Init PROVE TypeOK
  OBVIOUS
<1>1. /\ reply \in [Peer -> ResponseType]
      /\ <<>> \in Seq(Token) /\ <<>> \in Seq(Client) /\ <<>> \in Seq(Admin) /\ <<>> \in Seq(Peer)
  BY ResponsesTyped DEF Init, NoResponse
<1>2. /\ c_slot \in Slot
      /\ fdTable \in [Fd -> Object]
  BY SizeAssumption DEF Init, Slot, Fd, Object, Listener
<1>. QED
  BY <1>1, <1>2, SizeAssumption
     DEF Init, TypeOK, LogLevel, ClientInfo, ClientPc, AdminPc, MainPc, Listener

LEMMA ClientThreadTyped == TypeOK /\ ClientThread => TypeOK'
<1>. SUFFICES ASSUME TypeOK, ClientThread PROVE TypeOK'
  OBVIOUS
<1>. USE SizeAssumption DEF TypeOK, clientFrame, adminVars, peerVars, flagVars, statsVars,
       ClientPc, AdminPc, MainPc
<1>1. CASE ClientTop
  BY <1>1 DEF ClientTop
<1>2. CASE ClientBuildPollSet
  BY <1>2 DEF ClientBuildPollSet, ClientInfo
<1>3. CASE ClientPoll
  BY <1>3 DEF ClientPoll, ClientPollWakes, ClientPollTimesOut, ClientPollFails, Polled
<1>4. CASE ClientAccept
  <2>1. CASE UNCHANGED <<c_fd, c_addr, fdTable, backlog>>
    BY <1>4, <2>1 DEF ClientAccept
  <2>2. CASE ~UNCHANGED <<c_fd, c_addr, fdTable, backlog>>
    <3>1. PICK fd \in Fd : AcceptInto(fd, "client_socket") /\ c_fd' = fd
      BY <1>4, <2>2 DEF ClientAccept
    <3>2. /\ backlog["client_socket"] # <<>>
          /\ c_addr' = Head(backlog["client_socket"])
      BY <1>4, <2>2 DEF ClientAccept
    <3>3. /\ Head(backlog["client_socket"]) \in Client
          /\ Tail(backlog["client_socket"]) \in Seq(Client)
          /\ Tail(backlog["client_socket"]) \in Seq(Peer)
      BY <3>2 DEF Listener
    <3>. QED
      BY <1>4, <3>1, <3>2, <3>3 DEF ClientAccept, AcceptInto, Object, Listener, Peer
  <2>. QED
    BY <2>1, <2>2
<1>5. CASE ClientAdmit
  BY <1>5 DEF ClientAdmit, ClientInfo
<1>6. CASE ClientReject
  BY <1>6, CloseTyped DEF ClientReject
<1>7. CASE ClientServe
  BY <1>7 DEF ClientServe, Owner, Lowest
<1>8. CASE ClientRecv
  <2>1. c_buf' \in Seq(Token) /\ inbox' \in [Peer -> Seq(Token)]
    BY <1>8, DataTyped DEF ClientRecv
  <2>. QED
    BY <1>8, <2>1 DEF ClientRecv
<1>9. CASE ClientDrop
  <2>1. clients' \in [Slot -> ClientInfo]
    BY <1>9 DEF ClientDrop, ClientInfo
  <2>2. /\ fdTable' \in [Fd -> Object]
        /\ backlog' \in [Listener -> Seq(Peer)]
        /\ backlog'["client_socket"] \in Seq(Client)
        /\ backlog'["admin_socket"] \in Seq(Admin)
    BY <1>9, CloseTyped DEF ClientDrop
  <2>3. c_slot' \in Slot
    BY <1>9 DEF ClientDrop, Slot
  <2>4. /\ c_pc' = "dropped" /\ c_fd' = NoFd
        /\ UNCHANGED <<clientFrame, statsVars, inbox, reply, pollset, ready, c_buf, c_addr>>
    BY <1>9 DEF ClientDrop
  <2>. QED
    BY <2>1, <2>2, <2>3, <2>4
<1>10. CASE ClientReply
  <2>1. reply' \in [Peer -> ResponseType]
    BY <1>10, ResponsesTyped, SendTyped DEF ClientReply
  <2>. QED
    BY <1>10, <2>1 DEF ClientReply, Slot
<1>11. CASE ClientCountAdmitted
  BY <1>11 DEF ClientCountAdmitted
<1>12. CASE ClientCountDropped
  BY <1>12 DEF ClientCountDropped
<1>. QED
  BY <1>1, <1>2, <1>3, <1>4, <1>5, <1>6, <1>7, <1>8, <1>9, <1>10, <1>11, <1>12
     DEF ClientThread

LEMMA AdminThreadTyped == TypeOK /\ AdminThread => TypeOK'
<1>. SUFFICES ASSUME TypeOK, AdminThread PROVE TypeOK'
  OBVIOUS
<1>. USE SizeAssumption DEF TypeOK, adminFrame, clientVars, peerVars, flagVars, statsVars,
       ClientPc, AdminPc, MainPc
<1>1. CASE AdminTop
  BY <1>1 DEF AdminTop
<1>2. CASE AdminListen
  BY <1>2 DEF AdminListen
<1>3. CASE AdminAccept
  <2>1. CASE UNCHANGED <<a_fd, fdTable, backlog>>
    BY <1>3, <2>1 DEF AdminAccept
  <2>2. CASE ~UNCHANGED <<a_fd, fdTable, backlog>>
    <3>1. PICK fd \in Fd : AcceptInto(fd, "admin_socket") /\ a_fd' = fd
      BY <1>3, <2>2 DEF AdminAccept
    <3>2. backlog["admin_socket"] # <<>>
      BY <1>3, <2>2 DEF AdminAccept
    <3>3. /\ Head(backlog["admin_socket"]) \in Admin
          /\ Tail(backlog["admin_socket"]) \in Seq(Admin)
          /\ Tail(backlog["admin_socket"]) \in Seq(Peer)
      BY <3>2 DEF Listener
    <3>. QED
      BY <1>3, <3>1, <3>2, <3>3 DEF AdminAccept, AcceptInto, Object, Listener, Peer
  <2>. QED
    BY <2>1, <2>2
<1>4. CASE AdminCheck
  <2>1. CASE admin_client_fd # NoFd
    <3>1. reply' \in [Peer -> ResponseType]
      BY <1>4, <2>1, ResponsesTyped, SendTyped DEF AdminCheck
    <3>. QED
      BY <1>4, <2>1, <3>1, CloseTyped DEF AdminCheck
  <2>2. CASE admin_client_fd = NoFd
    BY <1>4, <2>2 DEF AdminCheck
  <2>. QED
    BY <2>1, <2>2
<1>5. CASE AdminSession
  BY <1>5 DEF AdminSession
<1>6. CASE AdminWait
  BY <1>6 DEF AdminWait
<1>7. CASE AdminRecv
  <2>1. a_buf' \in Seq(Token) /\ inbox' \in [Peer -> Seq(Token)]
    BY <1>7, DataTyped DEF AdminRecv
  <2>. QED
    BY <1>7, <2>1 DEF AdminRecv
<1>8. CASE AdminExec
  <2>1. current_log_level' \in LogLevel
    BY <1>8, LogLevelParsed
       DEF AdminExec, AdminSetLogLevel, AdminGetStats, AdminShutdownServer, AdminUnknownCommand
  <2>2. reply' \in [Peer -> ResponseType]
    BY <1>8, ResponsesTyped, SendTyped
       DEF AdminExec, AdminSetLogLevel, AdminGetStats, AdminShutdownServer, AdminUnknownCommand
  <2>3. a_pc' \in AdminPc
    BY <1>8
       DEF AdminExec, AdminSetLogLevel, AdminGetStats, AdminShutdownServer, AdminUnknownCommand
  <2>. QED
    BY <1>8, <2>1, <2>2, <2>3 DEF AdminExec
<1>9. CASE AdminStop
  BY <1>9 DEF AdminStop
<1>10. CASE AdminClose
  BY <1>10, CloseTyped DEF AdminClose
<1>11. CASE AdminClear
  BY <1>11 DEF AdminClear
<1>. QED
  BY <1>1, <1>2, <1>3, <1>4, <1>5, <1>6, <1>7, <1>8, <1>9, <1>10, <1>11 DEF AdminThread

LEMMA MainThreadTyped == TypeOK /\ (MainThread \/ ShutdownSignal) => TypeOK'
<1>. SUFFICES ASSUME TypeOK, MainThread \/ ShutdownSignal PROVE TypeOK'
  OBVIOUS
<1>. USE SizeAssumption DEF TypeOK, mainFrame, clientVars, adminVars, peerVars, statsVars,
       ClientPc, AdminPc, MainPc
<1>1. CASE ShutdownSignal
  <2>1. server_running' \in BOOLEAN
    BY <1>1 DEF ShutdownSignal
  <2>2. UNCHANGED <<mainFrame, clients, fdTable, backlog, m_pc>>
    BY <1>1 DEF ShutdownSignal
  <2>. QED
    BY <2>1, <2>2
<1>2. CASE MainLeavesLoop
  <2>1. server_running' \in BOOLEAN
    BY <1>2 DEF MainLeavesLoop
  <2>2. m_pc' = "closeAdminSocket" /\ UNCHANGED <<mainFrame, clients, fdTable, backlog>>
    BY <1>2 DEF MainLeavesLoop
  <2>. QED
    BY <2>1, <2>2
<1>3. CASE MainCloseAdminSocket
  BY <1>3, CloseTyped DEF MainCloseAdminSocket
<1>4. CASE MainCloseClientSocket
  BY <1>4, CloseTyped DEF MainCloseClientSocket
<1>5. CASE MainCheckAdminClient
  BY <1>5 DEF MainCheckAdminClient
<1>6. CASE MainCloseAdminClient
  BY <1>6, CloseTyped DEF MainCloseAdminClient
<1>7. CASE MainSweep
  <2>1. fdTable' \in [Fd -> Object]
    BY <1>7 DEF MainSweep, Object
  <2>2. clients' \in [Slot -> ClientInfo]
    BY <1>7 DEF MainSweep, ClientInfo
  <2>. QED
    BY <1>7, <2>1, <2>2 DEF MainSweep
<1>8. CASE MainJoin
  BY <1>8 DEF MainJoin
<1>. QED
  BY <1>1, <1>2, <1>3, <1>4, <1>5, <1>6, <1>7, <1>8 DEF MainThread

LEMMA PeersTyped == TypeOK /\ Peers => TypeOK'
<1>. SUFFICES ASSUME TypeOK, Peers PROVE TypeOK'
  OBVIOUS
<1>. USE DEF TypeOK, peersFrame, peerVars, clientVars, adminVars, flagVars, statsVars,
       ClientPc, AdminPc, MainPc
<1>1. CASE \E p \in Client : Dial(p, "client_socket", ClientBacklog)
  BY <1>1 DEF Dial, Peer, Listener
<1>2. CASE \E p \in Admin : Dial(p, "admin_socket", AdminBacklog)
  BY <1>2 DEF Dial, Peer, Listener
<1>3. CASE \E p \in Client : SendText(p, ClientTexts)
  BY <1>3, TextAssumption DEF SendText, Peer
<1>4. CASE \E p \in Admin : SendText(p, AdminTexts)
  BY <1>4, TextAssumption DEF SendText, Peer
<1>5. CASE \E p \in Peer : HangUp(p)
  <2>1. NoResponse \in ResponseType
    BY ResponsesTyped DEF NoResponse
  <2>. QED
    BY <1>5, <2>1 DEF HangUp
<1>. QED
  BY <1>1, <1>2, <1>3, <1>4, <1>5 DEF Peers

(* Type correctness: in every reachable state each field holds what its    *)
(* type and its users allow.                                               *)
THEOREM TypeCorrect == SafetySpec => []TypeOK
<1>1. Init => TypeOK
  BY InitTyped
<1>2. TypeOK /\ [Next]_vars => TypeOK'
  <2>1. TypeOK /\ UNCHANGED vars => TypeOK'
    BY DEF TypeOK, vars, flagVars, statsVars, peerVars, clientVars, adminVars
  <2>. QED
    BY <2>1, ClientThreadTyped, AdminThreadTyped, MainThreadTyped, PeersTyped
       DEF Next, Terminated
<1>. QED
  BY <1>1, <1>2, PTL DEF SafetySpec

-----------------------------------------------------------------------------
(* The inductive invariant.                                                *)

(* The kinds of object a descriptor can name are told apart.               *)
LEMMA ObjectsDistinct ==
  /\ \A p \in Client : p \notin Admin /\ p \notin Listener /\ p # "free"
  /\ \A p \in Admin : p \notin Client /\ p \notin Listener /\ p # "free"
  /\ "free" \notin Listener
  /\ "admin_socket" \notin Peer /\ "client_socket" \notin Peer /\ "free" \notin Peer
BY PeerAssumption DEF Peer, Listener

LEMMA CloseEffect ==
  ASSUME NEW fd, Close(fd)
  PROVE  \A n \in Fd : fdTable'[n] = IF n = fd THEN "free" ELSE fdTable[n]
BY DEF Close

(* accept succeeds on a listener that is in place only: nothing has been   *)
(* closed by main but, perhaps, the other listener.                        *)
LEMMA AcceptEffect ==
  ASSUME TypeOK, NEW fd \in Fd, NEW listener \in Listener,
         backlog[listener] # <<>>, AcceptInto(fd, listener)
  PROVE  /\ fdTable[fd] = "free"
         /\ fdTable'[fd] = Head(backlog[listener])
         /\ \A n \in Fd : n # fd => fdTable'[n] = fdTable[n]
         /\ listener = "client_socket" => Head(backlog[listener]) \in Client
         /\ listener = "admin_socket" => Head(backlog[listener]) \in Admin
BY DEF AcceptInto, LowestFree, TypeOK

LEMMA InitConnectionInv == Init => ConnectionInv
<1>. SUFFICES ASSUME Init PROVE ConnectionInv
  OBVIOUS
<1>1. /\ ActiveSlots = {}
      /\ \A fd \in Fd : fdTable[fd] = IF fd = 1 THEN "admin_socket"
                                     ELSE IF fd = 2 THEN "client_socket" ELSE "free"
  <2>1. ActiveSlots = {}
    BY DEF Init, ActiveSlots
  <2>2. ASSUME NEW fd \in Fd
        PROVE  fdTable[fd] = IF fd = 1 THEN "admin_socket"
                             ELSE IF fd = 2 THEN "client_socket" ELSE "free"
    BY DEF Init, Fd, admin_socket_fd, client_socket_fd
  <2>. QED
    BY <2>1, <2>2
<1>. QED
  BY <1>1, ObjectsDistinct, SizeAssumption
     DEF Init, ConnectionInv, ListenersInPlace, HoldersCurrent, SlotsDistinct,
         AdminFieldCurrent, AdminHolds, Peer, admin_socket_fd, client_socket_fd

(* A step that changes neither descriptors nor slots, nor a program        *)
(* counter the invariant looks at, preserves it.                           *)
LEMMA QuietStep ==
  ASSUME ConnectionInv,
         UNCHANGED <<fdTable, clients, c_fd, c_addr, c_slot, a_fd, admin_client_fd, m_pc>>,
         c_pc' = c_pc \/ c_pc' \notin {"admit", "recv", "drop", "reply"},
         a_pc' = a_pc \/ (a_pc \in AdminHolds /\ a_pc' \in AdminHolds /\ a_pc' # "check")
           \/ (a_pc \notin AdminHolds \cup {"clear"} /\ a_pc' \notin AdminHolds)
  PROVE  ConnectionInv'
<1>1. ListenersInPlace'
  BY DEF ConnectionInv, ListenersInPlace
<1>2. HoldersCurrent'
  BY DEF ConnectionInv, HoldersCurrent, ActiveSlots, Intact
<1>3. SlotsDistinct'
  BY DEF ConnectionInv, SlotsDistinct, ActiveSlots, Unswept
<1>4. AdminFieldCurrent'
  BY DEF ConnectionInv, AdminFieldCurrent, AdminHolds
<1>. QED
  BY <1>1, <1>2, <1>3, <1>4 DEF ConnectionInv

LEMMA ClientThreadKeeps == TypeOK /\ ConnectionInv /\ ClientThread => ConnectionInv'
<1>. SUFFICES ASSUME TypeOK, ConnectionInv, ClientThread PROVE ConnectionInv'
  OBVIOUS
<1>. USE DEF clientFrame, adminVars, statsVars
<1>1. CASE ClientTop
  BY <1>1, QuietStep DEF ClientTop
<1>2. CASE ClientBuildPollSet
  BY <1>2, QuietStep DEF ClientBuildPollSet
<1>3. CASE ClientPoll
  BY <1>3, QuietStep
     DEF ClientPoll, ClientPollWakes, ClientPollTimesOut, ClientPollFails
<1>4. CASE ClientAccept
  <2>1. CASE UNCHANGED <<c_fd, c_addr, fdTable, backlog>>
    <3>1. c_pc' = "serve" \/ c_pc' = "admit"
      BY <1>4 DEF ClientAccept
    <3>2. CASE c_pc' = "serve"
      BY <1>4, <2>1, <3>2, QuietStep DEF ClientAccept
    <3>3. CASE c_pc' = "admit"
      <4>1. PICK fd \in Fd : AcceptInto(fd, "client_socket") /\ c_fd' = fd
        BY <1>4, <3>3 DEF ClientAccept
      <4>2. fdTable'[fd] # fdTable[fd]
        BY <1>4, <3>3, <4>1, AcceptEffect, ObjectsDistinct DEF ClientAccept, Listener
      <4>. QED
        BY <2>1, <4>2
    <3>. QED
      BY <3>1, <3>2, <3>3
  <2>2. CASE ~UNCHANGED <<c_fd, c_addr, fdTable, backlog>>
    <3>1. PICK fd \in Fd : AcceptInto(fd, "client_socket") /\ c_fd' = fd
      BY <1>4, <2>2 DEF ClientAccept
    <3>2. /\ fdTable[client_socket_fd] = "client_socket"
          /\ backlog["client_socket"] # <<>>
          /\ c_addr' = Head(backlog["client_socket"])
          /\ c_pc' = "admit"
          /\ UNCHANGED <<clients, a_pc, a_fd, admin_client_fd, m_pc>>
      BY <1>4, <2>2 DEF ClientAccept, CanAccept
    <3>3. /\ fdTable[fd] = "free"
          /\ fdTable'[fd] = c_addr'
          /\ \A n \in Fd : n # fd => fdTable'[n] = fdTable[n]
          /\ c_addr' \in Client
      BY <3>1, <3>2, AcceptEffect DEF Listener
    <3>4. Intact /\ Unswept
      BY <3>2, SizeAssumption
         DEF ConnectionInv, ListenersInPlace, client_socket_fd, Fd, Intact, Unswept
    <3>5. ListenersInPlace'
      BY <3>2, <3>3, ObjectsDistinct DEF ConnectionInv, ListenersInPlace, Listener
    <3>6. HoldersCurrent'
      BY <3>1, <3>2, <3>3, <3>4, ObjectsDistinct
         DEF ConnectionInv, HoldersCurrent, ActiveSlots, Intact
    <3>7. SlotsDistinct'
      BY <3>1, <3>2, <3>3, <3>4, ObjectsDistinct
         DEF ConnectionInv, HoldersCurrent, SlotsDistinct, ActiveSlots, Intact, Unswept
    <3>8. AdminFieldCurrent'
      BY <3>2, <3>3, ObjectsDistinct DEF ConnectionInv, AdminFieldCurrent
    <3>. QED
      BY <3>5, <3>6, <3>7, <3>8 DEF ConnectionInv
  <2>. QED
    BY <2>1, <2>2
<1>5. CASE ClientAdmit
  <2>1. PICK s \in Slot \ ActiveSlots :
          clients' = [clients EXCEPT ![s] = [socket_fd |-> c_fd, address |-> c_addr,
                                             is_active |-> TRUE]]
    BY <1>5 DEF ClientAdmit, Lowest
  <2>2. /\ ActiveSlots' = ActiveSlots \cup {s}
        /\ \A other \in ActiveSlots : clients'[other] = clients[other]
        /\ clients'[s].socket_fd = c_fd /\ clients'[s].address = c_addr
    BY <2>1 DEF ActiveSlots, TypeOK
  <2>3. /\ c_pc = "admit" /\ c_pc' = "admitted"
        /\ UNCHANGED <<fdTable, a_pc, a_fd, admin_client_fd, m_pc>>
    BY <1>5 DEF ClientAdmit
  <2>4. ListenersInPlace'
    BY <2>3 DEF ConnectionInv, ListenersInPlace
  <2>5. HoldersCurrent'
    BY <2>2, <2>3 DEF ConnectionInv, HoldersCurrent, Intact
  <2>6. SlotsDistinct'
    BY <2>2, <2>3 DEF ConnectionInv, SlotsDistinct, Unswept
  <2>7. AdminFieldCurrent'
    BY <2>3 DEF ConnectionInv, AdminFieldCurrent
  <2>. QED
    BY <2>4, <2>5, <2>6, <2>7 DEF ConnectionInv
<1>6. CASE ClientReject
  <2>1. /\ c_pc = "admit" /\ c_pc' = "serve"
        /\ \A n \in Fd : fdTable'[n] = IF n = c_fd THEN "free" ELSE fdTable[n]
        /\ UNCHANGED <<clients, a_pc, a_fd, admin_client_fd, m_pc>>
    BY <1>6, CloseEffect DEF ClientReject
  <2>2. ListenersInPlace'
    BY <2>1, ObjectsDistinct
       DEF ConnectionInv, ListenersInPlace, HoldersCurrent, Listener, Intact
  <2>3. HoldersCurrent'
    BY <2>1, ObjectsDistinct
       DEF ConnectionInv, HoldersCurrent, SlotsDistinct, ActiveSlots, Intact, Unswept
  <2>4. SlotsDistinct'
    BY <2>1 DEF ConnectionInv, SlotsDistinct, ActiveSlots, Unswept
  <2>5. AdminFieldCurrent'
    BY <2>1, ObjectsDistinct DEF ConnectionInv, AdminFieldCurrent
  <2>. QED
    BY <2>2, <2>3, <2>4, <2>5 DEF ConnectionInv
<1>7. CASE ClientServe
  <2>1. CASE c_pc' # "recv"
    BY <1>7, <2>1, QuietStep DEF ClientServe
  <2>2. CASE c_pc' = "recv"
    <3>1. /\ c_slot' \in ActiveSlots /\ clients[c_slot'].socket_fd = c_fd'
          /\ UNCHANGED <<clients, fdTable, a_pc, a_fd, admin_client_fd, m_pc>>
      BY <1>7, <2>2 DEF ClientServe, Owner, Lowest
    <3>2. ListenersInPlace'
      BY <3>1 DEF ConnectionInv, ListenersInPlace
    <3>3. HoldersCurrent'
      BY <2>2, <3>1 DEF ConnectionInv, HoldersCurrent, ActiveSlots, Intact
    <3>4. SlotsDistinct'
      BY <2>2, <3>1 DEF ConnectionInv, SlotsDistinct, ActiveSlots, Unswept
    <3>5. AdminFieldCurrent'
      BY <3>1 DEF ConnectionInv, AdminFieldCurrent
    <3>. QED
      BY <3>2, <3>3, <3>4, <3>5 DEF ConnectionInv
  <2>. QED
    BY <2>1, <2>2
<1>8. CASE ClientRecv
  <2>1. /\ c_pc = "recv" /\ c_pc' \in {"reply", "drop"}
        /\ UNCHANGED <<clients, fdTable, c_fd, c_slot, a_pc, a_fd, admin_client_fd, m_pc>>
    BY <1>8 DEF ClientRecv
  <2>2. ListenersInPlace'
    BY <2>1 DEF ConnectionInv, ListenersInPlace
  <2>3. HoldersCurrent'
    BY <2>1 DEF ConnectionInv, HoldersCurrent, ActiveSlots, Intact
  <2>4. SlotsDistinct'
    BY <2>1 DEF ConnectionInv, SlotsDistinct, ActiveSlots, Unswept
  <2>5. AdminFieldCurrent'
    BY <2>1 DEF ConnectionInv, AdminFieldCurrent
  <2>. QED
    BY <2>2, <2>3, <2>4, <2>5 DEF ConnectionInv
<1>9. CASE ClientDrop
  <2>1. /\ c_pc = "drop" /\ c_pc' = "dropped"
        /\ \A n \in Fd : fdTable'[n] =
             IF n = clients[c_slot].socket_fd THEN "free" ELSE fdTable[n]
        /\ UNCHANGED <<a_pc, a_fd, admin_client_fd, m_pc>>
    BY <1>9, CloseEffect DEF ClientDrop
  <2>2. /\ ActiveSlots' = ActiveSlots \ {c_slot}
        /\ \A s \in ActiveSlots' : clients'[s] = clients[s]
    BY <1>9 DEF ClientDrop, ActiveSlots, TypeOK, ClientInfo
  <2>3. ListenersInPlace'
    <3>1. CASE Intact
      <4>1. c_slot \in ActiveSlots
        BY <2>1, <3>1 DEF ConnectionInv, SlotsDistinct, Intact, Unswept
      <4>2. fdTable[clients[c_slot].socket_fd] \in Client
        BY <3>1, <4>1 DEF ConnectionInv, HoldersCurrent
      <4>. QED
        BY <2>1, <4>2, ObjectsDistinct DEF ConnectionInv, ListenersInPlace, Listener
    <3>2. CASE ~Intact
      BY <2>1, <3>2 DEF ConnectionInv, ListenersInPlace, Intact
    <3>. QED
      BY <3>1, <3>2
  <2>4. HoldersCurrent'
    <3>. SUFFICES ASSUME Intact' PROVE HoldersCurrent'
      BY DEF HoldersCurrent
    <3>1. Intact /\ Unswept
      BY <2>1 DEF Intact, Unswept
    <3>2. c_slot \in ActiveSlots /\ fdTable[clients[c_slot].socket_fd] \in Client
      BY <2>1, <3>1 DEF ConnectionInv, SlotsDistinct, HoldersCurrent
    <3>3. \A s \in ActiveSlots' : clients[s].socket_fd # clients[c_slot].socket_fd
      BY <2>2, <3>1, <3>2 DEF ConnectionInv, SlotsDistinct
    <3>. QED
      BY <2>1, <2>2, <3>1, <3>2, <3>3, ObjectsDistinct DEF ConnectionInv, HoldersCurrent
  <2>5. SlotsDistinct'
    BY <2>1, <2>2 DEF ConnectionInv, SlotsDistinct, Unswept
  <2>6. AdminFieldCurrent'
    BY <2>1, ObjectsDistinct DEF ConnectionInv, AdminFieldCurrent
  <2>. QED
    BY <2>3, <2>4, <2>5, <2>6 DEF ConnectionInv
<1>10. CASE ClientReply
  <2>1. /\ c_pc' = "serve"
        /\ UNCHANGED <<clients, fdTable, a_pc, a_fd, admin_client_fd, m_pc>>
    BY <1>10 DEF ClientReply
  <2>2. ListenersInPlace'
    BY <2>1 DEF ConnectionInv, ListenersInPlace
  <2>3. HoldersCurrent'
    BY <2>1 DEF ConnectionInv, HoldersCurrent, ActiveSlots, Intact
  <2>4. SlotsDistinct'
    BY <2>1 DEF ConnectionInv, SlotsDistinct, ActiveSlots, Unswept
  <2>5. AdminFieldCurrent'
    BY <2>1 DEF ConnectionInv, AdminFieldCurrent
  <2>. QED
    BY <2>2, <2>3, <2>4, <2>5 DEF ConnectionInv
<1>11. CASE ClientCountAdmitted \/ ClientCountDropped
  BY <1>11, QuietStep DEF ClientCountAdmitted, ClientCountDropped
<1>. QED
  BY <1>1, <1>2, <1>3, <1>4, <1>5, <1>6, <1>7, <1>8, <1>9, <1>10, <1>11 DEF ClientThread

LEMMA AdminThreadKeeps == TypeOK /\ ConnectionInv /\ AdminThread => ConnectionInv'
<1>. SUFFICES ASSUME TypeOK, ConnectionInv, AdminThread PROVE ConnectionInv'
  OBVIOUS
<1>. USE DEF adminFrame, clientVars, AdminHolds
<1>1. CASE AdminTop
  BY <1>1, QuietStep DEF AdminTop
<1>2. CASE AdminListen
  BY <1>2, QuietStep DEF AdminListen
<1>3. CASE AdminAccept
  <2>1. CASE a_pc' = "top"
    <3>1. UNCHANGED <<a_fd, fdTable>>
      BY <1>3, <2>1 DEF AdminAccept
    <3>. QED
      BY <1>3, <2>1, <3>1, QuietStep DEF AdminAccept
  <2>2. CASE a_pc' # "top"
    <3>1. PICK fd \in Fd : AcceptInto(fd, "admin_socket") /\ a_fd' = fd
      BY <1>3, <2>2 DEF AdminAccept
    <3>2. /\ fdTable[admin_socket_fd] = "admin_socket"
          /\ backlog["admin_socket"] # <<>>
          /\ a_pc = "accept" /\ a_pc' = "check"
          /\ UNCHANGED <<clients, c_pc, c_fd, c_addr, c_slot, admin_client_fd, m_pc>>
      BY <1>3, <2>2 DEF AdminAccept, CanAccept
    <3>3. /\ fdTable[fd] = "free"
          /\ fdTable'[fd] \in Admin
          /\ \A n \in Fd : n # fd => fdTable'[n] = fdTable[n]
      BY <3>1, <3>2, AcceptEffect DEF Listener
    <3>4. Intact
      BY <3>2, SizeAssumption
         DEF ConnectionInv, ListenersInPlace, admin_socket_fd, Fd, Intact
    <3>5. ListenersInPlace'
      BY <3>2, <3>3, ObjectsDistinct DEF ConnectionInv, ListenersInPlace, Listener
    <3>6. HoldersCurrent'
      BY <3>1, <3>2, <3>3, <3>4, ObjectsDistinct
         DEF ConnectionInv, HoldersCurrent, ActiveSlots, Intact
    <3>7. SlotsDistinct'
      BY <3>2 DEF ConnectionInv, SlotsDistinct, ActiveSlots, Unswept
    <3>8. AdminFieldCurrent'
      BY <3>1, <3>2, <3>3 DEF ConnectionInv, AdminFieldCurrent
    <3>. QED
      BY <3>5, <3>6, <3>7, <3>8 DEF ConnectionInv
  <2>. QED
    BY <2>1, <2>2
<1>4. CASE AdminCheck
  <2>1. admin_client_fd = NoFd
    BY <1>4 DEF AdminCheck, ConnectionInv, AdminFieldCurrent
  <2>2. /\ a_pc = "check" /\ a_pc' = "session"
        /\ UNCHANGED <<clients, fdTable, c_pc, c_fd, c_addr, c_slot, a_fd, m_pc>>
    BY <1>4, <2>1 DEF AdminCheck
  <2>3. ListenersInPlace'
    BY <2>2 DEF ConnectionInv, ListenersInPlace
  <2>4. HoldersCurrent'
    BY <2>2 DEF ConnectionInv, HoldersCurrent, ActiveSlots, Intact
  <2>5. SlotsDistinct'
    BY <2>2 DEF ConnectionInv, SlotsDistinct, ActiveSlots, Unswept
  <2>6. AdminFieldCurrent'
    BY <2>2 DEF ConnectionInv, AdminFieldCurrent
  <2>. QED
    BY <2>3, <2>4, <2>5, <2>6 DEF ConnectionInv
<1>5. CASE AdminSession
  BY <1>5, QuietStep DEF AdminSession
<1>6. CASE AdminWait
  BY <1>6, QuietStep DEF AdminWait
<1>7. CASE AdminRecv
  BY <1>7, QuietStep DEF AdminRecv
<1>8. CASE AdminExec
  <2>1. a_pc = "exec" /\ a_pc' \in {"session", "stop"}
    BY <1>8 DEF AdminExec, AdminSetLogLevel, AdminGetStats, AdminShutdownServer,
                AdminUnknownCommand
  <2>. QED
    BY <1>8, <2>1, QuietStep DEF AdminExec
<1>9. CASE AdminStop
  BY <1>9, QuietStep DEF AdminStop
<1>10. CASE AdminClose
  <2>1. /\ a_pc \in {"close", "failed"} /\ a_pc' = "clear"
        /\ \A n \in Fd : fdTable'[n] = IF n = a_fd THEN "free" ELSE fdTable[n]
        /\ UNCHANGED <<clients, c_pc, c_fd, c_addr, c_slot, a_fd, admin_client_fd, m_pc>>
    BY <1>10, CloseEffect DEF AdminClose
  <2>2. ListenersInPlace'
    BY <2>1, ObjectsDistinct
       DEF ConnectionInv, ListenersInPlace, HoldersCurrent, Listener, Intact
  <2>3. HoldersCurrent'
    BY <2>1, ObjectsDistinct DEF ConnectionInv, HoldersCurrent, ActiveSlots, Intact
  <2>4. SlotsDistinct'
    BY <2>1 DEF ConnectionInv, SlotsDistinct, ActiveSlots, Unswept
  <2>5. AdminFieldCurrent'
    BY <2>1, ObjectsDistinct DEF ConnectionInv, AdminFieldCurrent
  <2>. QED
    BY <2>2, <2>3, <2>4, <2>5 DEF ConnectionInv
<1>11. CASE AdminClear
  <2>1. /\ a_pc = "clear" /\ a_pc' = "top" /\ admin_client_fd' = NoFd
        /\ UNCHANGED <<clients, fdTable, c_pc, c_fd, c_addr, c_slot, m_pc>>
    BY <1>11 DEF AdminClear
  <2>2. ListenersInPlace'
    BY <2>1 DEF ConnectionInv, ListenersInPlace
  <2>3. HoldersCurrent'
    BY <2>1 DEF ConnectionInv, HoldersCurrent, ActiveSlots, Intact
  <2>4. SlotsDistinct'
    BY <2>1 DEF ConnectionInv, SlotsDistinct, ActiveSlots, Unswept
  <2>5. AdminFieldCurrent'
    BY <2>1 DEF ConnectionInv, AdminFieldCurrent
  <2>. QED
    BY <2>2, <2>3, <2>4, <2>5 DEF ConnectionInv
<1>. QED
  BY <1>1, <1>2, <1>3, <1>4, <1>5, <1>6, <1>7, <1>8, <1>9, <1>10, <1>11 DEF AdminThread

LEMMA MainThreadKeeps ==
  TypeOK /\ ConnectionInv /\ (MainThread \/ ShutdownSignal) => ConnectionInv'
<1>. SUFFICES ASSUME TypeOK, ConnectionInv, MainThread \/ ShutdownSignal
              PROVE  ConnectionInv'
  OBVIOUS
<1>. USE DEF mainFrame, clientVars, adminVars
<1>1. CASE ShutdownSignal
  BY <1>1, QuietStep DEF ShutdownSignal
(* A step of main that closes nothing and does not reach the sweep.        *)
<1>2. ASSUME UNCHANGED <<fdTable, clients, clientVars, adminVars, admin_client_fd>>,
             \/ m_pc = "run" /\ m_pc' = "closeAdminSocket"
             \/ m_pc = "checkAdminClient" /\ m_pc' \in {"closeAdminClient", "sweep"}
             \/ m_pc = "join" /\ m_pc' = "exit"
      PROVE  ConnectionInv'
  <2>1. ListenersInPlace'
    BY <1>2 DEF ConnectionInv, ListenersInPlace
  <2>2. HoldersCurrent'
    BY <1>2 DEF ConnectionInv, HoldersCurrent, ActiveSlots, Intact
  <2>3. SlotsDistinct'
    BY <1>2 DEF ConnectionInv, SlotsDistinct, ActiveSlots, Unswept
  <2>4. AdminFieldCurrent'
    BY <1>2 DEF ConnectionInv, AdminFieldCurrent
  <2>. QED
    BY <2>1, <2>2, <2>3, <2>4 DEF ConnectionInv
<1>3. CASE MainLeavesLoop
  BY <1>2, <1>3 DEF MainLeavesLoop
<1>4. CASE MainCloseAdminSocket
  <2>1. /\ m_pc = "closeAdminSocket" /\ m_pc' = "closeClientSocket"
        /\ \A n \in Fd : fdTable'[n] = IF n = 1 THEN "free" ELSE fdTable[n]
        /\ UNCHANGED <<clients, clientVars, adminVars, admin_client_fd>>
    BY <1>4, CloseEffect DEF MainCloseAdminSocket, admin_socket_fd
  <2>2. 1 \in Fd /\ fdTable[1] = "admin_socket"
    BY <2>1, SizeAssumption DEF ConnectionInv, ListenersInPlace, admin_socket_fd, Fd
  <2>3. ListenersInPlace'
    BY <2>1, <2>2 DEF ConnectionInv, ListenersInPlace, admin_socket_fd, client_socket_fd
  <2>4. HoldersCurrent'
    BY <2>1, <2>2, ObjectsDistinct
       DEF ConnectionInv, HoldersCurrent, ActiveSlots, Intact, Listener
  <2>5. SlotsDistinct'
    BY <2>1 DEF ConnectionInv, SlotsDistinct, ActiveSlots, Unswept
  <2>6. AdminFieldCurrent'
    BY <2>1, ObjectsDistinct DEF ConnectionInv, AdminFieldCurrent
  <2>. QED
    BY <2>3, <2>4, <2>5, <2>6 DEF ConnectionInv
<1>5. CASE MainCloseClientSocket
  <2>1. /\ m_pc = "closeClientSocket" /\ m_pc' = "checkAdminClient"
        /\ \A n \in Fd : fdTable'[n] = IF n = 2 THEN "free" ELSE fdTable[n]
        /\ UNCHANGED <<clients, clientVars, adminVars, admin_client_fd>>
    BY <1>5, CloseEffect DEF MainCloseClientSocket, client_socket_fd
  <2>2. 2 \in Fd /\ fdTable[2] = "client_socket"
    BY <2>1, SizeAssumption DEF ConnectionInv, ListenersInPlace, client_socket_fd, Fd
  <2>3. ListenersInPlace'
    BY <2>1, <2>2 DEF ConnectionInv, ListenersInPlace, admin_socket_fd, client_socket_fd
  <2>4. HoldersCurrent'
    BY <2>1, <2>2, ObjectsDistinct
       DEF ConnectionInv, HoldersCurrent, ActiveSlots, Intact, Listener
  <2>5. SlotsDistinct'
    BY <2>1 DEF ConnectionInv, SlotsDistinct, ActiveSlots, Unswept
  <2>6. AdminFieldCurrent'
    BY <2>1, ObjectsDistinct DEF ConnectionInv, AdminFieldCurrent
  <2>. QED
    BY <2>3, <2>4, <2>5, <2>6 DEF ConnectionInv
<1>6. CASE MainCheckAdminClient
  BY <1>2, <1>6 DEF MainCheckAdminClient
<1>7. CASE MainCloseAdminClient
  <2>1. /\ m_pc = "closeAdminClient" /\ m_pc' = "sweep"
        /\ \A n \in Fd : fdTable'[n] = IF n = admin_client_fd THEN "free" ELSE fdTable[n]
        /\ UNCHANGED <<clients, clientVars, adminVars, admin_client_fd>>
    BY <1>7, CloseEffect DEF MainCloseAdminClient
  <2>2. ListenersInPlace'
    BY <2>1 DEF ConnectionInv, ListenersInPlace
  <2>3. HoldersCurrent'
    BY <2>1 DEF HoldersCurrent, Intact
  <2>4. SlotsDistinct'
    BY <2>1 DEF ConnectionInv, SlotsDistinct, ActiveSlots, Unswept
  <2>5. AdminFieldCurrent'
    BY <2>1, ObjectsDistinct DEF ConnectionInv, AdminFieldCurrent
  <2>. QED
    BY <2>2, <2>3, <2>4, <2>5 DEF ConnectionInv
<1>8. CASE MainSweep
  <2>1. /\ m_pc = "sweep" /\ m_pc' = "join"
        /\ \A n \in Fd : fdTable'[n] = fdTable[n] \/ fdTable'[n] = "free"
        /\ UNCHANGED <<clientVars, adminVars, admin_client_fd>>
    BY <1>8 DEF MainSweep
  <2>2. ListenersInPlace'
    BY <2>1 DEF ConnectionInv, ListenersInPlace
  <2>3. HoldersCurrent'
    BY <2>1 DEF HoldersCurrent, Intact
  <2>4. SlotsDistinct'
    BY <2>1 DEF SlotsDistinct, Unswept
  <2>5. AdminFieldCurrent'
    BY <2>1, ObjectsDistinct DEF ConnectionInv, AdminFieldCurrent
  <2>. QED
    BY <2>2, <2>3, <2>4, <2>5 DEF ConnectionInv
<1>9. CASE MainJoin
  BY <1>2, <1>9 DEF MainJoin
<1>. QED
  BY <1>1, <1>3, <1>4, <1>5, <1>6, <1>7, <1>8, <1>9 DEF MainThread

LEMMA PeersKeep == ConnectionInv /\ Peers => ConnectionInv'
BY QuietStep DEF Peers, Dial, SendText, HangUp, peersFrame, clientVars, adminVars

(* The connection invariant holds in every reachable state: descriptors    *)
(* and slots agree until cleanup, whatever the threads interleave.         *)
THEOREM ConnectionsConsistent == SafetySpec => []ConnectionInv
<1>1. Init => ConnectionInv
  BY InitConnectionInv
<1>2. TypeOK /\ ConnectionInv /\ [Next]_vars => ConnectionInv'
  <2>1. ConnectionInv /\ UNCHANGED vars => ConnectionInv'
    BY QuietStep DEF vars, clientVars, adminVars
  <2>. QED
    BY <2>1, ClientThreadKeeps, AdminThreadKeeps, MainThreadKeeps, PeersKeep
       DEF Next, Terminated
<1>. QED
  BY <1>1, <1>2, TypeCorrect, PTL DEF SafetySpec

(* An active slot's number is its own client's connection, and no two      *)
(* slots share one, until cleanup starts to close connections.             *)
THEOREM SlotsAreLive == SafetySpec => []SlotsLive
<1>1. ConnectionInv => SlotsLive
  BY DEF ConnectionInv, HoldersCurrent, SlotsDistinct, SlotsLive, Intact, Unswept
<1>. QED
  BY <1>1, ConnectionsConsistent, PTL

(* At most one administrator's connection is ever open, and the branch     *)
(* that refuses a second one is dead code.                                 *)
THEOREM AtMostOneAdmin == SafetySpec => []OneAdmin
<1>1. ConnectionInv => OneAdmin
  BY DEF ConnectionInv, AdminFieldCurrent, OneAdmin, AdminHolds
<1>. QED
  BY <1>1, ConnectionsConsistent, PTL

-----------------------------------------------------------------------------
(* The counter of active clients.                                          *)

LEMMA ActiveSlotsFinite == IsFiniteSet(ActiveSlots)
<1>1. IsFiniteSet(0 .. MaxClients - 1)
  BY SizeAssumption, FS_Interval
<1>2. ActiveSlots \subseteq 0 .. MaxClients - 1
  BY DEF ActiveSlots, Slot
<1>. QED
  BY <1>1, <1>2, FS_Subset

(* Every step keeps the counter in step with the slots: a slot that has    *)
(* changed is counted before clients_mutex is given back, so before the    *)
(* next one changes, and a client is never dropped twice before the sweep. *)
LEMMA CountStep == TypeOK /\ ConnectionInv /\ CountMatches /\ [Next]_vars => CountMatches'
<1>. SUFFICES ASSUME TypeOK, ConnectionInv, CountMatches, [Next]_vars, Unswept'
              PROVE  active_connections' = Cardinality(ActiveSlots') + Uncounted'
  BY DEF CountMatches, Unswept
<1>0. active_connections \in Int /\ Cardinality(ActiveSlots) \in Nat
  BY ActiveSlotsFinite, FS_CardinalityType DEF TypeOK
<1>1. CASE ClientAdmit
  <2>1. PICK s \in Slot \ ActiveSlots :
          clients' = [clients EXCEPT ![s] = [socket_fd |-> c_fd, address |-> c_addr,
                                             is_active |-> TRUE]]
    BY <1>1 DEF ClientAdmit, Lowest
  <2>2. ActiveSlots' = ActiveSlots \cup {s}
    BY <2>1 DEF ActiveSlots, TypeOK
  <2>3. /\ c_pc = "admit" /\ c_pc' = "admitted"
        /\ m_pc' = m_pc /\ active_connections' = active_connections
    BY <1>1 DEF ClientAdmit, clientFrame, statsVars
  <2>4. Uncounted = 0 /\ Uncounted' = -1
    BY <2>3 DEF Uncounted
  <2>5. active_connections = Cardinality(ActiveSlots) + Uncounted
    BY <2>3 DEF CountMatches, Unswept
  <2>6. Cardinality(ActiveSlots \cup {s}) = Cardinality(ActiveSlots) + 1
    BY <2>1, ActiveSlotsFinite, FS_AddElement
  <2>. QED
    BY <1>0, <2>2, <2>3, <2>4, <2>5, <2>6
<1>2. CASE ClientDrop
  <2>1. ActiveSlots' = ActiveSlots \ {c_slot}
    BY <1>2 DEF ClientDrop, ActiveSlots, TypeOK, ClientInfo
  <2>2. /\ c_pc = "drop" /\ c_pc' = "dropped"
        /\ m_pc' = m_pc /\ active_connections' = active_connections
    BY <1>2 DEF ClientDrop, clientFrame, statsVars
  <2>3. Uncounted = 0 /\ Uncounted' = 1
    BY <2>2 DEF Uncounted
  <2>4. Unswept /\ active_connections = Cardinality(ActiveSlots) + Uncounted
    BY <2>2 DEF CountMatches, Unswept
  <2>5. c_slot \in ActiveSlots
    BY <2>2, <2>4 DEF ConnectionInv, SlotsDistinct
  <2>6. Cardinality(ActiveSlots \ {c_slot}) = Cardinality(ActiveSlots) - 1
    BY <2>5, ActiveSlotsFinite, FS_RemoveElement
  <2>. QED
    BY <1>0, <2>1, <2>2, <2>3, <2>4, <2>6
<1>3. CASE ClientCountAdmitted
  <2>1. /\ c_pc = "admitted" /\ c_pc' = "serve" /\ UNCHANGED <<clients, m_pc>>
        /\ active_connections' = active_connections + 1
    BY <1>3 DEF ClientCountAdmitted, clientFrame
  <2>2. Uncounted = -1 /\ Uncounted' = 0
    BY <2>1 DEF Uncounted
  <2>. QED
    BY <1>0, <2>1, <2>2 DEF CountMatches, Unswept, ActiveSlots
<1>4. CASE ClientCountDropped
  <2>1. /\ c_pc = "dropped" /\ c_pc' = "serve" /\ UNCHANGED <<clients, m_pc>>
        /\ active_connections' = active_connections - 1
    BY <1>4 DEF ClientCountDropped, clientFrame
  <2>2. Uncounted = 1 /\ Uncounted' = 0
    BY <2>1 DEF Uncounted
  <2>. QED
    BY <1>0, <2>1, <2>2 DEF CountMatches, Unswept, ActiveSlots
<1>5. CASE MainSweep
  BY <1>5 DEF MainSweep, Unswept
<1>6. ASSUME ~ClientAdmit, ~ClientDrop, ~ClientCountAdmitted, ~ClientCountDropped, ~MainSweep
      PROVE  /\ UNCHANGED <<clients, active_connections>>
             /\ c_pc' = c_pc \/ {c_pc, c_pc'} \cap {"admitted", "dropped"} = {}
             /\ Unswept' => Unswept
  <2>1. CASE ClientThread
    <3>1. UNCHANGED <<clients, active_connections, m_pc>>
      BY <1>6, <2>1
         DEF ClientThread, ClientTop, ClientBuildPollSet, ClientPoll, ClientAccept,
             ClientReject, ClientServe, ClientRecv, ClientReply, clientFrame, statsVars
    <3>2. c_pc' = c_pc \/ {c_pc, c_pc'} \cap {"admitted", "dropped"} = {}
      BY <1>6, <2>1
         DEF ClientThread, ClientTop, ClientBuildPollSet, ClientPoll, ClientPollWakes,
             ClientPollTimesOut, ClientPollFails, ClientAccept, ClientReject, ClientServe,
             ClientRecv, ClientReply
    <3>. QED
      BY <3>1, <3>2 DEF Unswept
  <2>2. CASE AdminThread
    BY <2>2
       DEF AdminThread, AdminTop, AdminListen, AdminAccept, AdminCheck, AdminSession,
           AdminWait, AdminRecv, AdminExec, AdminStop, AdminClose, AdminClear,
           adminFrame, clientVars, statsVars, Unswept
  <2>3. CASE MainThread \/ ShutdownSignal
    BY <1>6, <2>3
       DEF MainThread, MainLeavesLoop, MainCloseAdminSocket, MainCloseClientSocket,
           MainCheckAdminClient, MainCloseAdminClient, MainJoin, ShutdownSignal,
           mainFrame, clientVars, statsVars, Unswept
  <2>4. CASE Peers
    BY <2>4 DEF Peers, Dial, SendText, HangUp, peersFrame, clientVars, statsVars, Unswept
  <2>5. CASE UNCHANGED vars
    BY <2>5 DEF vars, clientVars, statsVars, Unswept
  <2>. QED
    BY <2>1, <2>2, <2>3, <2>4, <2>5 DEF Next, Terminated
<1>7. CASE ~(ClientAdmit \/ ClientDrop \/ ClientCountAdmitted \/ ClientCountDropped \/ MainSweep)
  <2>1. Uncounted' = Uncounted /\ ActiveSlots' = ActiveSlots /\ Unswept
    BY <1>6, <1>7 DEF Uncounted, ActiveSlots
  <2>. QED
    BY <1>6, <1>7, <2>1 DEF CountMatches, Unswept
<1>. QED
  BY <1>1, <1>2, <1>3, <1>4, <1>5, <1>7

(* Until the sweep the counter is the number of occupied slots, but for    *)
(* the one that clients_mutex is still held for.                           *)
THEOREM CountIsExact == SafetySpec => []CountMatches
<1>1. Init => CountMatches
  <2>. SUFFICES ASSUME Init PROVE active_connections = Cardinality(ActiveSlots) + Uncounted
    BY DEF CountMatches
  <2>1. ActiveSlots = {} /\ Uncounted = 0
    BY DEF Init, ActiveSlots, Uncounted
  <2>. QED
    BY <2>1, FS_EmptySet DEF Init
<1>. QED
  BY <1>1, CountStep, TypeCorrect, ConnectionsConsistent, PTL DEF SafetySpec

-----------------------------------------------------------------------------
(* No descriptor is leaked.                                                *)

LEMMA OrphanStep == TypeOK /\ ConnectionInv /\ NoOrphan /\ [Next]_vars => NoOrphan'
<1>. SUFFICES ASSUME TypeOK, ConnectionInv, NoOrphan, [Next]_vars,
                     NEW fd \in Fd, fdTable'[fd] \in Peer
              PROVE  Owned(fd)'
  BY DEF NoOrphan
<1>1. ASSUME fdTable'[fd] = fdTable[fd]
      PROVE  Owned(fd)
  BY <1>1 DEF NoOrphan
<1>2. CASE ClientThread
  <2>. USE DEF clientFrame, adminVars, Owned
  <2>1. CASE ClientAccept
    <3>1. CASE c_pc' = "serve"
      <4>1. UNCHANGED <<c_fd, fdTable>>
        BY <2>1, <3>1 DEF ClientAccept
      <4>. QED
        BY <1>1, <2>1, <4>1 DEF ClientAccept, ActiveSlots
    <3>2. CASE c_pc' # "serve"
      <4>1. PICK n \in Fd : AcceptInto(n, "client_socket") /\ c_fd' = n
        BY <2>1, <3>2 DEF ClientAccept
      <4>2. fd = n \/ fdTable'[fd] = fdTable[fd]
        BY <2>1, <3>2, <4>1, AcceptEffect DEF ClientAccept, Listener
      <4>. QED
        BY <1>1, <2>1, <3>2, <4>1, <4>2 DEF ClientAccept, ActiveSlots
    <3>. QED
      BY <3>1, <3>2
  <2>2. CASE ClientAdmit
    <3>1. PICK s \in Slot \ ActiveSlots :
            clients' = [clients EXCEPT ![s] = [socket_fd |-> c_fd, address |-> c_addr,
                                               is_active |-> TRUE]]
      BY <2>2 DEF ClientAdmit, Lowest
    <3>2. /\ ActiveSlots' = ActiveSlots \cup {s}
          /\ \A other \in ActiveSlots : clients'[other] = clients[other]
          /\ clients'[s].socket_fd = c_fd
      BY <3>1 DEF ActiveSlots, TypeOK
    <3>. QED
      BY <1>1, <2>2, <3>2 DEF ClientAdmit
  <2>3. CASE ClientReject
    <3>1. fd # c_fd /\ fdTable'[fd] = fdTable[fd]
      BY <2>3, CloseEffect, ObjectsDistinct DEF ClientReject
    <3>. QED
      BY <1>1, <2>3, <3>1 DEF ClientReject, ActiveSlots
  <2>4. CASE ClientDrop
    <3>1. fd # clients[c_slot].socket_fd /\ fdTable'[fd] = fdTable[fd]
      BY <2>4, CloseEffect, ObjectsDistinct DEF ClientDrop
    <3>2. /\ ActiveSlots' = ActiveSlots \ {c_slot}
          /\ \A s \in ActiveSlots' : clients'[s] = clients[s]
      BY <2>4 DEF ClientDrop, ActiveSlots, TypeOK, ClientInfo
    <3>. QED
      BY <1>1, <2>4, <3>1, <3>2 DEF ClientDrop
  <2>5. CASE ClientTop \/ ClientBuildPollSet \/ ClientPoll \/ ClientServe \/ ClientRecv
             \/ ClientReply \/ ClientCountAdmitted \/ ClientCountDropped
    <3>1. UNCHANGED <<fdTable, clients, a_pc, a_fd>> /\ c_pc # "admit"
      BY <2>5 DEF ClientTop, ClientBuildPollSet, ClientPoll, ClientServe, ClientRecv,
                  ClientReply, ClientCountAdmitted, ClientCountDropped
    <3>. QED
      BY <1>1, <3>1 DEF ActiveSlots
  <2>. QED
    BY <1>2, <2>1, <2>2, <2>3, <2>4, <2>5 DEF ClientThread
<1>3. CASE AdminThread
  <2>. USE DEF adminFrame, clientVars, Owned, AdminHolds
  <2>1. CASE AdminAccept
    <3>1. CASE a_pc' = "top"
      <4>1. UNCHANGED <<a_fd, fdTable>>
        BY <2>1, <3>1 DEF AdminAccept
      <4>. QED
        BY <1>1, <2>1, <4>1 DEF AdminAccept, ActiveSlots
    <3>2. CASE a_pc' # "top"
      <4>1. PICK n \in Fd : AcceptInto(n, "admin_socket") /\ a_fd' = n
        BY <2>1, <3>2 DEF AdminAccept
      <4>2. fd = n \/ fdTable'[fd] = fdTable[fd]
        BY <2>1, <3>2, <4>1, AcceptEffect DEF AdminAccept, Listener
      <4>. QED
        BY <1>1, <2>1, <3>2, <4>1, <4>2 DEF AdminAccept, ActiveSlots
    <3>. QED
      BY <3>1, <3>2
  <2>2. CASE AdminCheck
    <3>1. admin_client_fd = NoFd
      BY <2>2 DEF AdminCheck, ConnectionInv, AdminFieldCurrent
    <3>. QED
      BY <1>1, <2>2, <3>1 DEF AdminCheck, ActiveSlots
  <2>3. CASE AdminClose
    <3>1. fd # a_fd /\ fdTable'[fd] = fdTable[fd]
      BY <2>3, CloseEffect, ObjectsDistinct DEF AdminClose
    <3>. QED
      BY <1>1, <2>3, <3>1 DEF AdminClose, ActiveSlots
  <2>4. CASE AdminExec
    <3>1. a_pc' \in {"session", "stop"}
      BY <2>4 DEF AdminExec, AdminSetLogLevel, AdminGetStats, AdminShutdownServer,
                  AdminUnknownCommand
    <3>. QED
      BY <1>1, <2>4, <3>1 DEF AdminExec, ActiveSlots
  <2>5. CASE AdminTop \/ AdminListen \/ AdminSession \/ AdminWait \/ AdminRecv
             \/ AdminStop
    <3>1. /\ UNCHANGED <<fdTable, clients, c_pc, c_fd, a_fd>>
          /\ a_pc \in AdminHolds => a_pc' \in AdminHolds
      BY <2>5 DEF AdminTop, AdminListen, AdminSession, AdminWait, AdminRecv, AdminStop
    <3>. QED
      BY <1>1, <3>1 DEF ActiveSlots
  <2>6. CASE AdminClear
    <3>1. UNCHANGED <<fdTable, clients, c_pc, c_fd>> /\ a_pc \notin AdminHolds
      BY <2>6 DEF AdminClear
    <3>. QED
      BY <1>1, <3>1 DEF ActiveSlots
  <2>. QED
    BY <1>3, <2>1, <2>2, <2>3, <2>4, <2>5, <2>6 DEF AdminThread
<1>4. CASE MainSweep
  <2>1. /\ fdTable'[fd] = fdTable[fd]
        /\ \A s \in Swept : clients[s].socket_fd # fd
        /\ \A s \in ActiveSlots \ Swept : clients'[s] = clients[s]
        /\ UNCHANGED <<c_pc, c_fd, a_pc, a_fd>>
    BY <1>4, ObjectsDistinct DEF MainSweep, ActiveSlots, mainFrame, clientVars, adminVars
  <2>. QED
    BY <1>1, <2>1 DEF Owned, ActiveSlots
<1>5. CASE MainCloseAdminSocket \/ MainCloseClientSocket \/ MainCloseAdminClient
  <2>1. /\ fdTable'[fd] = fdTable[fd]
        /\ UNCHANGED <<clients, c_pc, c_fd, a_pc, a_fd>>
    BY <1>5, CloseEffect, ObjectsDistinct
       DEF MainCloseAdminSocket, MainCloseClientSocket, MainCloseAdminClient,
           mainFrame, clientVars, adminVars
  <2>. QED
    BY <1>1, <2>1 DEF Owned, ActiveSlots
<1>6. CASE MainLeavesLoop \/ MainCheckAdminClient \/ MainJoin \/ ShutdownSignal \/ Peers
           \/ UNCHANGED vars
  <2>1. UNCHANGED <<fdTable, clients, c_pc, c_fd, a_pc, a_fd>>
    BY <1>6
       DEF MainLeavesLoop, MainCheckAdminClient, MainJoin, ShutdownSignal, mainFrame,
           Peers, Dial, SendText, HangUp, peersFrame, vars, clientVars, adminVars
  <2>. QED
    BY <1>1, <2>1 DEF Owned, ActiveSlots
<1>. QED
  BY <1>2, <1>3, <1>4, <1>5, <1>6 DEF Next, Terminated, MainThread

(* Every connection the server has open is in somebody's hands, also       *)
(* during and after the sweep of cleanup_server_state.                     *)
THEOREM NothingLeaks == SafetySpec => []NoOrphan
<1>1. Init => NoOrphan
  <2>. SUFFICES ASSUME Init, NEW fd \in Fd PROVE fdTable[fd] \notin Peer
    BY DEF NoOrphan
  <2>1. fdTable[fd] \in {"admin_socket", "client_socket", "free"}
    BY DEF Init
  <2>. QED
    BY <2>1, ObjectsDistinct
<1>. QED
  BY <1>1, OrphanStep, TypeCorrect, ConnectionsConsistent, PTL DEF SafetySpec
=============================================================================
