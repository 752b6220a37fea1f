---------------------------- MODULE AdminThread ----------------------------
(***************************************************************************)
(* admin_thread_handler: accepts one administrator and serves the session  *)
(* itself until the session ends, so that nobody calls accept meanwhile.   *)
(* It takes no lock but stats_mutex, for GET_STATS.  A local is reset when *)
(* the session ends.                                                       *)
(***************************************************************************)
EXTENDS ServerState

adminFrame == <<clientVars, m_pc, peerVars, clients, statsVars>>

(* while (state->server_running)                                           *)
AdminTop ==
  /\ a_pc = "top"
  /\ a_pc' = IF server_running THEN "listen" ELSE "done"
  /\ UNCHANGED <<adminFrame, flagVars, admin_client_fd, fdTable, backlog, inbox,
                 reply, a_fd, a_buf, idle>>

(* poll on the listener for one second.                                    *)
AdminListen ==
  /\ a_pc = "listen"
  /\ \/ Wakes(admin_socket_fd) /\ a_pc' = "accept"
     \/ (~Readable(admin_socket_fd) \/ ~server_running) /\ a_pc' = "top"
     \/ PollMayFail /\ a_pc' = "done"
  /\ UNCHANGED <<adminFrame, flagVars, admin_client_fd, fdTable, backlog, inbox,
                 reply, a_fd, a_buf, idle>>

AdminAccept ==
  /\ a_pc = "accept"
  /\ \/ /\ CanAccept(admin_socket_fd, "admin_socket")
        /\ backlog["admin_socket"] # <<>>
        /\ \E fd \in Fd : AcceptInto(fd, "admin_socket") /\ a_fd' = fd
        /\ a_pc' = "check"
     \/ /\ ~CanAccept(admin_socket_fd, "admin_socket")
        /\ a_pc' = "top"
        /\ UNCHANGED <<a_fd, fdTable, backlog>>
  /\ UNCHANGED <<adminFrame, flagVars, admin_client_fd, inbox, reply, a_buf, idle>>

(* "Check if admin is already connected".                                  *)
AdminCheck ==
  /\ a_pc = "check"
  /\ IF admin_client_fd # NoFd
     THEN /\ Send(a_fd, Response("ERROR"))
          /\ Close(a_fd)
          /\ a_pc' = "top"
          /\ UNCHANGED <<admin_client_fd, idle>>
     ELSE /\ admin_client_fd' = a_fd
          /\ idle' = 0
          /\ a_pc' = "session"
          /\ UNCHANGED <<reply, fdTable, backlog>>
  /\ UNCHANGED <<adminFrame, flagVars, inbox, a_fd, a_buf>>

(* while (state->server_running && state->admin_client_fd != -1)           *)
AdminSession ==
  /\ a_pc = "session"
  /\ a_pc' = IF server_running /\ admin_client_fd # NoFd THEN "wait" ELSE "close"
  /\ UNCHANGED <<adminFrame, flagVars, admin_client_fd, fdTable, backlog, inbox,
                 reply, a_fd, a_buf, idle>>

(* Mutant: the time since the last command is never looked at.             *)
WaitForever ==
  /\ a_pc = "wait"
  /\ \/ Wakes(a_fd) /\ a_pc' = "recv"
     \/ (~Readable(a_fd) \/ ~server_running) /\ a_pc' = "session"
     \/ PollMayFail /\ a_pc' = "failed"
  /\ UNCHANGED <<adminFrame, flagVars, admin_client_fd, fdTable, backlog, inbox,
                 reply, a_fd, a_buf, idle>>

(* Mutant: >= where the code has >.                                        *)
WaitTooShort ==
  /\ a_pc = "wait"
  /\ \/ Wakes(a_fd) /\ a_pc' = "recv" /\ UNCHANGED idle
     \/ /\ ~Readable(a_fd)
        /\ idle' = idle + 1
        /\ a_pc' = IF idle' >= AdminTimeout THEN "close" ELSE "session"
     \/ ~server_running /\ a_pc' = "session" /\ UNCHANGED idle
     \/ PollMayFail /\ a_pc' = "failed" /\ UNCHANGED idle
  /\ UNCHANGED <<adminFrame, flagVars, admin_client_fd, fdTable, backlog, inbox,
                 reply, a_fd, a_buf>>

(* Mutant: the session goes on to recv whatever poll said.                 *)
WaitAnswersAlways ==
  /\ a_pc = "wait"
  /\ a_pc' = "recv"
  /\ UNCHANGED <<adminFrame, flagVars, admin_client_fd, fdTable, backlog, inbox,
                 reply, a_fd, a_buf, idle>>

(* poll on the connection for one second; after a timeout, the time since  *)
(* the last command (idle, in such timeouts) is compared to the limit.  A  *)
(* poll that fails ends the session; the position remembers why.           *)
AdminWait ==
  /\ a_pc = "wait"
  /\ \/ Wakes(a_fd) /\ a_pc' = "recv" /\ UNCHANGED idle
     \/ /\ ~Readable(a_fd)
        /\ idle' = idle + 1
        /\ a_pc' = IF idle' > AdminTimeout THEN "close" ELSE "session"
     \/ ~server_running /\ a_pc' = "session" /\ UNCHANGED idle
     \/ PollMayFail /\ a_pc' = "failed" /\ UNCHANGED idle
  /\ UNCHANGED <<adminFrame, flagVars, admin_client_fd, fdTable, backlog, inbox,
                 reply, a_fd, a_buf>>

AdminRecv ==
  /\ a_pc = "recv"
  /\ \/ /\ ReceiveData(a_fd)
        /\ a_buf' = inbox[fdTable[a_fd]]
        /\ TakeData(a_fd)
        /\ idle' = 0
        /\ a_pc' = "exec"
     \/ /\ ReceiveFails(a_fd)
        /\ a_pc' = "close"
        /\ UNCHANGED <<a_buf, inbox, idle>>
  /\ UNCHANGED <<adminFrame, flagVars, admin_client_fd, fdTable, backlog, reply, a_fd>>

-----------------------------------------------------------------------------
Command == ParseAdminCommand(a_buf)

(* Mutant: the -1 of string_to_log_level is stored too.                    *)
SetAnyLogLevel ==
  /\ Is(Command.cmd, CMD_SET_LOG_LEVEL)
  /\ current_log_level' = StringToLogLevel(Command.args)
  /\ Send(a_fd, Response("OK"))
  /\ a_pc' = "session"

AdminSetLogLevel ==
  /\ Is(Command.cmd, CMD_SET_LOG_LEVEL)
  /\ LET level == StringToLogLevel(Command.args) IN
     \/ /\ level # INVALID_LEVEL
        /\ current_log_level' = level
        /\ Send(a_fd, Response("OK"))
     \/ /\ level = INVALID_LEVEL
        /\ Send(a_fd, Response("ERROR"))
        /\ UNCHANGED current_log_level
  /\ a_pc' = "session"

(* The numbers are read under stats_mutex, in one piece.                   *)
AdminGetStats ==
  /\ Is(Command.cmd, CMD_GET_STATS)
  /\ Send(a_fd, StatsResponse(total_connections, active_connections))
  /\ a_pc' = "session"
  /\ UNCHANGED current_log_level

(* The answer is sent and logged before the flag is cleared (AdminStop).   *)
AdminShutdownServer ==
  /\ Is(Command.cmd, CMD_SHUTDOWN_SERVER)
  /\ Send(a_fd, Response("OK"))
  /\ a_pc' = "stop"
  /\ UNCHANGED current_log_level

AdminUnknownCommand ==
  /\ \A word \in {CMD_SET_LOG_LEVEL, CMD_GET_STATS, CMD_SHUTDOWN_SERVER} :
       ~Is(Command.cmd, word)
  /\ Send(a_fd, Response("ERROR"))
  /\ a_pc' = "session"
  /\ UNCHANGED current_log_level

AdminExec ==
  /\ a_pc = "exec"
  /\ AdminSetLogLevel \/ AdminGetStats \/ AdminShutdownServer \/ AdminUnknownCommand
  /\ a_buf' = <<>>
  /\ UNCHANGED <<adminFrame, server_running, admin_client_fd, fdTable, backlog,
                 inbox, a_fd, idle>>

AdminStop ==
  /\ a_pc = "stop"
  /\ server_running' = FALSE
  /\ a_pc' = "close"
  /\ UNCHANGED <<adminFrame, current_log_level, admin_client_fd, fdTable, backlog,
                 inbox, reply, a_fd, a_buf, idle>>

(* close(client_fd), and only then admin_client_fd = -1.                   *)
AdminClose ==
  /\ a_pc \in {"close", "failed"}
  /\ Close(a_fd)
  /\ a_pc' = "clear"
  /\ UNCHANGED <<adminFrame, flagVars, admin_client_fd, inbox, reply, a_fd, a_buf, idle>>

(* Mutant: the field keeps the closed number.                              *)
ClearForgotten ==
  /\ a_pc = "clear"
  /\ a_pc' = "top" /\ a_fd' = NoFd /\ idle' = 0
  /\ UNCHANGED <<adminFrame, flagVars, admin_client_fd, fdTable, backlog, inbox,
                 reply, a_buf>>

AdminClear ==
  /\ a_pc = "clear"
  /\ admin_client_fd' = NoFd
  /\ a_pc' = "top" /\ a_fd' = NoFd /\ idle' = 0
  /\ UNCHANGED <<adminFrame, flagVars, fdTable, backlog, inbox, reply, a_buf>>

AdminThread ==
  \/ AdminTop  \/ AdminListen \/ AdminAccept \/ AdminCheck \/ AdminSession
  \/ AdminWait \/ AdminRecv   \/ AdminExec   \/ AdminStop  \/ AdminClose
  \/ AdminClear
=============================================================================
