---------------------------- MODULE ClientThread ----------------------------
(***************************************************************************)
(* client_thread_handler: one thread polls the client listener and every   *)
(* client, accepts at most one connection per round, then serves each      *)
(* readable client once.  It holds clients_mutex only while it builds its  *)
(* poll set, admits, looks a descriptor up and drops a client; everything  *)
(* between these may interleave.  Admitting and dropping change the slot   *)
(* in one action and the counters in another: clients_mutex is held across *)
(* the two, but GET_STATS takes stats_mutex only and may come between.     *)
(* A local is reset after its last use.                                    *)
(***************************************************************************)
EXTENDS ServerState

(* The entries of pfds[] that stand for clients, by the slot they came     *)
(* from; pfds[0] is always the listener.                                   *)
Polled == {s \in Slot : pollset[s] # NoFd}

ActiveSlots == {s \in Slot : clients[s].is_active}

Lowest(s, slots) == s \in slots /\ \A other \in slots : s <= other

clientFrame == <<adminVars, m_pc, peerVars, flagVars, admin_client_fd>>

(* Mutant: while (1).                                                      *)
TopIgnoresFlag ==
  /\ c_pc = "top"
  /\ c_pc' = "build"
  /\ UNCHANGED <<clientFrame, clients, statsVars, fdTable, backlog, inbox, reply,
                 pollset, ready, c_fd, c_slot, c_buf, c_addr>>

(* while (state->server_running)                                           *)
ClientTop ==
  /\ c_pc = "top"
  /\ c_pc' = IF server_running THEN "build" ELSE "done"
  /\ UNCHANGED <<clientFrame, clients, statsVars, fdTable, backlog, inbox, reply,
                 pollset, ready, c_fd, c_slot, c_buf, c_addr>>

ClientBuildPollSet ==
  /\ c_pc = "build"
  /\ pollset' = [s \in Slot |-> IF clients[s].is_active THEN clients[s].socket_fd ELSE NoFd]
  /\ c_pc' = "poll"
  /\ UNCHANGED <<clientFrame, clients, statsVars, fdTable, backlog, inbox, reply,
                 ready, c_fd, c_slot, c_buf, c_addr>>

(* Mutant: the new connection is looked at only when no client is ready.   *)
PollClientsFirst ==
  /\ \E fd \in {client_socket_fd} \cup {pollset[s] : s \in Polled} : Wakes(fd)
  /\ ready' = {s \in Polled : Readable(pollset[s])}
  /\ c_pc' = IF Readable(client_socket_fd) /\ ready' = {} THEN "accept" ELSE "serve"
  /\ UNCHANGED pollset

(* poll: something is readable, or a polled number is not open any more    *)
(* (POLLNVAL wakes the thread but sets no POLLIN); or one second goes by,  *)
(* or a signal interrupts it; or it fails and the thread ends.             *)
ClientPollWakes ==
  /\ \E fd \in {client_socket_fd} \cup {pollset[s] : s \in Polled} : Wakes(fd)
  /\ ready' = {s \in Polled : Readable(pollset[s])}
  /\ c_pc' = IF Readable(client_socket_fd) THEN "accept" ELSE "serve"
  /\ UNCHANGED pollset
ClientPollTimesOut ==
  /\ \/ \A fd \in {client_socket_fd} \cup {pollset[s] : s \in Polled} : ~Readable(fd)
     \/ ~server_running
  /\ c_pc' = "top"
  /\ pollset' = [s \in Slot |-> NoFd]
  /\ UNCHANGED ready
ClientPollFails ==
  /\ PollMayFail
  /\ c_pc' = "done"
  /\ pollset' = [s \in Slot |-> NoFd]
  /\ UNCHANGED ready
ClientPoll ==
  /\ c_pc = "poll"
  /\ ClientPollWakes \/ ClientPollTimesOut \/ ClientPollFails
  /\ UNCHANGED <<clientFrame, clients, statsVars, fdTable, backlog, inbox, reply,
                 c_fd, c_slot, c_buf, c_addr>>

ClientAccept ==
  /\ c_pc = "accept"
  /\ \/ /\ CanAccept(client_socket_fd, "client_socket")
        /\ backlog["client_socket"] # <<>>
        /\ \E fd \in Fd : AcceptInto(fd, "client_socket") /\ c_fd' = fd
        /\ c_addr' = Head(backlog["client_socket"])
        /\ c_pc' = "admit"
     \/ /\ ~CanAccept(client_socket_fd, "client_socket")
        /\ c_pc' = "serve"
        /\ UNCHANGED <<c_fd, c_addr, fdTable, backlog>>
  /\ UNCHANGED <<clientFrame, clients, statsVars, inbox, reply, pollset, ready,
                 c_slot, c_buf>>

(* The lowest inactive slot, filled under clients_mutex.                   *)
ClientAdmit ==
  /\ c_pc = "admit"
  /\ \E s \in Slot :
       /\ Lowest(s, Slot \ ActiveSlots)
       /\ clients' = [clients EXCEPT ![s] = [socket_fd |-> c_fd, address |-> c_addr,
                                             is_active |-> TRUE]]
  /\ c_pc' = "admitted" /\ c_fd' = NoFd /\ c_addr' = "none"
  /\ UNCHANGED <<clientFrame, statsVars, fdTable, backlog, inbox, reply, pollset, ready,
                 c_slot, c_buf>>

(* Both counters in one go, under stats_mutex with clients_mutex still     *)
(* held.                                                                   *)
ClientCountAdmitted ==
  /\ c_pc = "admitted"
  /\ total_connections' = total_connections + 1
  /\ active_connections' = active_connections + 1
  /\ c_pc' = "serve"
  /\ UNCHANGED <<clientFrame, clients, fdTable, backlog, inbox, reply, pollset, ready,
                 c_fd, c_slot, c_buf, c_addr>>

(* Mutant: forgets to close the connection it turns away.                  *)
RejectWithoutClosing ==
  /\ c_pc = "admit"
  /\ ActiveSlots = Slot
  /\ c_pc' = "serve" /\ c_fd' = NoFd /\ c_addr' = "none"
  /\ UNCHANGED <<clientFrame, clients, statsVars, fdTable, backlog, inbox, reply,
                 pollset, ready, c_slot, c_buf>>

(* "Maximum clients reached, rejecting connection"                         *)
ClientReject ==
  /\ c_pc = "admit"
  /\ ActiveSlots = Slot
  /\ Close(c_fd)
  /\ c_pc' = "serve" /\ c_fd' = NoFd /\ c_addr' = "none"
  /\ UNCHANGED <<clientFrame, clients, statsVars, inbox, reply, pollset, ready, c_slot, c_buf>>

(* "Find client by socket fd": the first active slot with that number.     *)
Owner(j, fd) ==
  Lowest(j, {s \in ActiveSlots : clients[s].socket_fd = fd})

(* One turn of the loop over pfds[].  The slot is looked up again, for     *)
(* cleanup may have emptied it since the poll set was built.               *)
ClientServe ==
  /\ c_pc = "serve"
  /\ IF ready = {}
     THEN /\ c_pc' = "top"
          /\ pollset' = [s \in Slot |-> NoFd]
          /\ UNCHANGED <<ready, c_fd, c_slot>>
     ELSE \E s \in ready :
            /\ Lowest(s, ready)
            /\ ready' = ready \ {s}
            /\ UNCHANGED pollset
            /\ \/ \E j \in Slot : /\ Owner(j, pollset[s])
                                  /\ c_slot' = j /\ c_fd' = pollset[s]
                                  /\ c_pc' = "recv"
               \/ /\ ~\E j \in Slot : Owner(j, pollset[s])
                  /\ UNCHANGED <<c_pc, c_fd, c_slot>>
  /\ UNCHANGED <<clientFrame, clients, statsVars, fdTable, backlog, inbox, reply,
                 c_buf, c_addr>>

(* Mutant: a client that has hung up is left in its slot.                  *)
RecvIgnoresHangup ==
  /\ c_pc = "recv"
  /\ \/ /\ ReceiveData(c_fd)
        /\ c_buf' = inbox[fdTable[c_fd]]
        /\ TakeData(c_fd)
        /\ c_pc' = "reply"
     \/ /\ ReceiveFails(c_fd)
        /\ c_pc' = "serve"
        /\ UNCHANGED <<c_buf, inbox>>
  /\ UNCHANGED <<clientFrame, clients, statsVars, fdTable, backlog, reply, pollset,
                 ready, c_fd, c_slot, c_addr>>

ClientRecv ==
  /\ c_pc = "recv"
  /\ \/ /\ ReceiveData(c_fd)
        /\ c_buf' = inbox[fdTable[c_fd]]
        /\ TakeData(c_fd)
        /\ c_pc' = "reply"
     \/ /\ ReceiveFails(c_fd)
        /\ c_pc' = "drop"
        /\ UNCHANGED <<c_buf, inbox>>
  /\ UNCHANGED <<clientFrame, clients, statsVars, fdTable, backlog, reply, pollset,
                 ready, c_fd, c_slot, c_addr>>

(* Mutant: is_active stays set.                                            *)
DropKeepsSlot ==
  /\ c_pc = "drop"
  /\ Close(clients[c_slot].socket_fd)
  /\ c_pc' = "dropped" /\ c_fd' = NoFd /\ c_slot' = 0
  /\ UNCHANGED <<clientFrame, clients, statsVars, inbox, reply, pollset, ready, c_buf, c_addr>>

(* "Client disconnected": under clients_mutex.                             *)
ClientDrop ==
  /\ c_pc = "drop"
  /\ Close(clients[c_slot].socket_fd)
  /\ clients' = [clients EXCEPT ![c_slot].is_active = FALSE]
  /\ c_pc' = "dropped" /\ c_fd' = NoFd /\ c_slot' = 0
  /\ UNCHANGED <<clientFrame, statsVars, inbox, reply, pollset, ready, c_buf, c_addr>>

(* Mutant: the counter is left alone.                                      *)
DropUncounted ==
  /\ c_pc = "dropped"
  /\ c_pc' = "serve"
  /\ UNCHANGED <<clientFrame, clients, statsVars, fdTable, backlog, inbox, reply, pollset,
                 ready, c_fd, c_slot, c_buf, c_addr>>

(* Under stats_mutex, with clients_mutex still held.                       *)
ClientCountDropped ==
  /\ c_pc = "dropped"
  /\ active_connections' = active_connections - 1
  /\ c_pc' = "serve"
  /\ UNCHANGED <<clientFrame, clients, total_connections, fdTable, backlog, inbox, reply,
                 pollset, ready, c_fd, c_slot, c_buf, c_addr>>

ClientReply ==
  /\ c_pc = "reply"
  /\ Send(c_fd, IF StartsWith(c_buf, CMD_REGISTER_CLIENT)
                THEN Response("OK") ELSE Response("ERROR"))
  /\ c_pc' = "serve" /\ c_fd' = NoFd /\ c_slot' = 0 /\ c_buf' = <<>>
  /\ UNCHANGED <<clientFrame, clients, statsVars, fdTable, backlog, inbox, pollset, ready, c_addr>>

ClientThread ==
  \/ ClientTop  \/ ClientBuildPollSet \/ ClientPoll \/ ClientAccept \/ ClientAdmit
  \/ ClientCountAdmitted \/ ClientReject \/ ClientServe \/ ClientRecv
  \/ ClientDrop \/ ClientCountDropped \/ ClientReply
=============================================================================
