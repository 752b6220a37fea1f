----------------------------- MODULE MainThread -----------------------------
(***************************************************************************)
(* main: the loop that waits for server_running to become 0, the signal    *)
(* handler that clears it, and cleanup_server_state, which closes every    *)
(* descriptor while the other threads still run and joins them afterwards. *)
(*                                                                         *)
(* The processor and monitor threads share nothing with this module but    *)
(* the flag; joining them is left out (they have modules of their own).    *)
(***************************************************************************)
EXTENDS ServerState

mainFrame == <<clientVars, adminVars, peerVars, statsVars, current_log_level,
               admin_client_fd, inbox, reply>>

(* signal_handler for SIGINT and SIGTERM.                                  *)
ShutdownSignal ==
  /\ m_pc = "run"
  /\ server_running
  /\ server_running' = FALSE
  /\ UNCHANGED <<mainFrame, clients, fdTable, backlog, m_pc>>

(* The loop ends; cleanup_server_state writes the flag once more.          *)
MainLeavesLoop ==
  /\ m_pc = "run"
  /\ ~server_running
  /\ server_running' = FALSE
  /\ m_pc' = "closeAdminSocket"
  /\ UNCHANGED <<mainFrame, clients, fdTable, backlog>>

MainCloseAdminSocket ==
  /\ m_pc = "closeAdminSocket"
  /\ Close(admin_socket_fd)
  /\ m_pc' = "closeClientSocket"
  /\ UNCHANGED <<mainFrame, server_running, clients>>

MainCloseClientSocket ==
  /\ m_pc = "closeClientSocket"
  /\ Close(client_socket_fd)
  /\ m_pc' = "checkAdminClient"
  /\ UNCHANGED <<mainFrame, server_running, clients>>

(* if (state->admin_client_fd != -1) close(state->admin_client_fd): two    *)
(* reads of a field that the admin thread writes, without a lock.          *)
MainCheckAdminClient ==
  /\ m_pc = "checkAdminClient"
  /\ m_pc' = IF admin_client_fd # NoFd THEN "closeAdminClient" ELSE "sweep"
  /\ UNCHANGED <<mainFrame, server_running, clients, fdTable, backlog>>

MainCloseAdminClient ==
  /\ m_pc = "closeAdminClient"
  /\ Close(admin_client_fd)
  /\ m_pc' = "sweep"
  /\ UNCHANGED <<mainFrame, server_running, clients>>

Swept == {s \in Slot : clients[s].is_active /\ clients[s].socket_fd # NoFd}

(* Under clients_mutex, so not while the client thread is between a slot   *)
(* and its counter.  active_connections is not touched.                    *)
MainSweep ==
  /\ m_pc = "sweep"
  /\ c_pc \notin {"admitted", "dropped"}
  /\ fdTable' = [fd \in Fd |->
                   IF \E s \in Swept : clients[s].socket_fd = fd
                   THEN "free" ELSE fdTable[fd]]
  /\ clients' = [s \in Slot |->
                   IF s \in Swept THEN [clients[s] EXCEPT !.is_active = FALSE]
                   ELSE clients[s]]
  /\ m_pc' = "join"
  /\ UNCHANGED <<mainFrame, server_running, backlog>>

(* pthread_join of the threads, then the mutexes are destroyed.            *)
MainJoin ==
  /\ m_pc = "join"
  /\ a_pc = "done" /\ c_pc = "done"
  /\ m_pc' = "exit"
  /\ UNCHANGED <<mainFrame, server_running, clients, fdTable, backlog>>

MainThread ==
  \/ MainLeavesLoop       \/ MainCloseAdminSocket \/ MainCloseClientSocket
  \/ MainCheckAdminClient \/ MainCloseAdminClient \/ MainSweep \/ MainJoin
=============================================================================
