---------------------------- MODULE AdminClient ----------------------------
(***************************************************************************)
(* The administration client (src/admin_client/admin_client.cpp) on its    *)
(* UNIX domain connection to the admin thread of the server.  The server's *)
(* side is reduced to what the client can see of it: a connection that     *)
(* waits to be accepted, is served command by command, and is closed after *)
(* a time without commands, or when the server stops.                      *)
(*                                                                         *)
(* The client is not modelled key by key: one action stands for a command  *)
(* chosen in run's menu, with its dialog, up to the blocking recv.         *)
(***************************************************************************)
EXTENDS Protocol

CONSTANT Commands     \* how many commands the user gives, at most
ASSUME CommandsAssumption == Commands \in Nat

VARIABLES
  pc,          \* "start", "menu", "waiting" (in recv), "leaving", "ended", "killed"
  connected,   \* the field of that name, and whether socket_fd is open
  request,     \* the command of the current handler, as sent
  shown,       \* what was last shown: a request and the reply taken for its answer
  given,       \* how many commands were given
  session,     \* the server's end: "none", "queued", "open", "closed"
  to_server, to_client,   \* what is under way
  level,                  \* current_log_level
  server_running

clientVars == <<pc, connected, request, shown, given>>
serverVars == <<session, to_server, to_client, level, server_running>>
vars       == <<clientVars, serverVars>>

(* A reply carries, as a ghost, the command it answers; "CLOSED" is what   *)
(* receive_response makes of an error or the end of the connection: "".    *)
Reply(text, status) == [answers |-> text, status |-> status]
Nothing             == Reply(<<>>, "CLOSED")

Init ==
  /\ pc = "start" /\ connected = FALSE
  /\ request = <<>> /\ shown = [request |-> <<>>, reply |-> Nothing] /\ given = 0
  /\ session = "none" /\ to_server = <<>> /\ to_client = <<>>
  /\ level = "INFO" /\ server_running = TRUE

-----------------------------------------------------------------------------
(* The client.                                                             *)

Disconnect == connected' = FALSE

(* connect_to_server and the start of run.                                 *)
Connect ==
  /\ pc = "start"
  /\ \/ /\ server_running
        /\ connected' = TRUE
        /\ session' = "queued"
        /\ pc' = "menu"
     \/ /\ Disconnect
        /\ pc' = "ended"
        /\ UNCHANGED session
  /\ UNCHANGED <<request, shown, given, to_server, to_client, level, server_running>>

(* send_command: nothing is sent unless connected; the newline is added    *)
(* here.  SIGPIPE is not ignored: sending to an end that was closed kills  *)
(* the process.  next is where the handler goes on.                        *)
SendCommand(text, next) ==
  /\ request' = text \o <<NL>>
  /\ \/ /\ session # "closed"
        /\ to_server' = Append(to_server, request')
        /\ pc' = next
        /\ UNCHANGED connected
     \/ /\ session = "closed"
        /\ pc' = "killed"
        /\ Disconnect
        /\ UNCHANGED to_server
  /\ given' = given + 1
  /\ UNCHANGED <<shown, session, to_client, level, server_running>>

InMenu == pc = "menu" /\ given < Commands

(* handle_set_log_level, update_stats, handle_get_logs,                    *)
(* handle_disconnect_client, handle_shutdown.                              *)
SetLogLevel ==
  InMenu /\ \E choice \in {"DEBUG", "ERROR"} :
              SendCommand(<<CMD_SET_LOG_LEVEL, SP, choice>>, "waiting")
(* Mutant: the statistics are asked for and shown when they come.          *)
UpdateStatsAsync == InMenu /\ SendCommand(<<CMD_GET_STATS>>, "menu")
UpdateStats      == InMenu /\ SendCommand(<<CMD_GET_STATS>>, "waiting")
GetLogs          == InMenu /\ SendCommand(<<"OTHER">>, "waiting")
DisconnectClient == InMenu /\ SendCommand(<<"OTHER", SP, "OTHER">>, "waiting")
Shutdown         == InMenu /\ SendCommand(<<CMD_SHUTDOWN_SERVER>>, "waiting")

(* receive_response, blocking, and what the handler shows; after           *)
(* SHUTDOWN_SERVER the client disconnects whatever the answer was.         *)
ReceiveResponse ==
  /\ pc = "waiting"
  /\ \/ /\ to_client # <<>>
        /\ shown' = [request |-> request, reply |-> Head(to_client)]
        /\ to_client' = Tail(to_client)
     \/ /\ to_client = <<>> /\ session = "closed"
        /\ shown' = [request |-> request, reply |-> Nothing]
        /\ UNCHANGED to_client
  /\ IF request = <<CMD_SHUTDOWN_SERVER, NL>>
     THEN pc' = "leaving" /\ Disconnect
     ELSE pc' = "menu" /\ UNCHANGED connected
  /\ UNCHANGED <<request, given, session, to_server, level, server_running>>

(* run: "Check if still connected" after every command; and q.             *)
Leave ==
  /\ \/ pc = "leaving"      \* connected is false: "Connection lost to server"
     \/ pc = "menu"
  /\ Disconnect
  /\ pc' = "ended"
  /\ UNCHANGED <<request, shown, given, serverVars>>

Client ==
  \/ Connect \/ SetLogLevel \/ UpdateStats \/ GetLogs \/ DisconnectClient \/ Shutdown
  \/ ReceiveResponse \/ Leave

-----------------------------------------------------------------------------
(* The admin thread.                                                       *)

Accept ==
  /\ session = "queued" /\ server_running
  /\ session' = "open"
  /\ UNCHANGED <<clientVars, to_server, to_client, level, server_running>>

(* Mutant: an unknown command gets no answer.                              *)
AnswerKnown(text, status) ==
  IF status = "OK" THEN Append(to_client, Reply(text, status)) ELSE to_client
Answer(text, status) == Append(to_client, Reply(text, status))

(* Mutant: the -1 of an unknown level counts as a level.                   *)
AnyLevel(new) == TRUE
Valid(new)    == new # INVALID_LEVEL

(* One command: the level is set, the server is stopped, or the command is *)
(* refused.                                                                *)
Execute ==
  /\ session = "open" /\ to_server # <<>>
  /\ LET text  == Head(to_server)
         cmd   == ParseAdminCommand(text).cmd
         new   == StringToLogLevel(ParseAdminCommand(text).args)
         sets  == Is(cmd, CMD_SET_LOG_LEVEL) /\ Valid(new)
         stops == Is(cmd, CMD_SHUTDOWN_SERVER)
     IN
     /\ level' = IF sets THEN new ELSE level
     /\ to_client' = Answer(text, IF sets \/ stops \/ Is(cmd, CMD_GET_STATS)
                                  THEN "OK" ELSE "ERROR")
     /\ server_running' = (server_running /\ ~stops)
     /\ session' = IF stops THEN "closed" ELSE "open"
     /\ to_server' = Tail(to_server)
  /\ UNCHANGED clientVars

(* Mutant: the end of the connection is taken for a lack of commands.      *)
EndIdleSession ==
  /\ session = "open" /\ connected
  /\ session' = "closed"
  /\ UNCHANGED <<clientVars, to_server, to_client, level, server_running>>
(* ADMIN_TIMEOUT without a command, a failed poll, or recv tells that the  *)
(* client is gone: the session is closed.  A command that came after the   *)
(* poll had timed out is lost with it.                                     *)
EndSession ==
  /\ session = "open"
  /\ session' = "closed"
  /\ UNCHANGED <<clientVars, to_server, to_client, level, server_running>>

(* The server is stopped by a signal: what it did not read is lost.        *)
StopServer ==
  /\ server_running
  /\ server_running' = FALSE
  /\ session' = IF session = "none" THEN "none" ELSE "closed"
  /\ UNCHANGED <<clientVars, to_server, to_client, level>>

Server == Accept \/ Execute \/ EndSession \/ StopServer

Finished   == pc \in {"ended", "killed"}
Terminated == Finished /\ UNCHANGED vars
Next       == Client \/ Server \/ Terminated

(* The client goes on once recv returns; the server accepts and serves,    *)
(* and recv tells it of a client that is gone when there is nothing left   *)
(* to read.  The user need not do anything.                                *)
SafetySpec == Init /\ [][Next]_vars
Spec ==
  /\ SafetySpec
  /\ WF_vars(ReceiveResponse) /\ WF_vars(pc = "leaving" /\ Leave)
  /\ WF_vars(Accept) /\ WF_vars(Execute)
  /\ WF_vars(~connected /\ to_server = <<>> /\ EndSession)

-----------------------------------------------------------------------------
TypeOK ==
  /\ pc \in {"start", "menu", "waiting", "leaving", "ended", "killed"}
  /\ {connected, server_running} \subseteq BOOLEAN
  /\ session \in {"none", "queued", "open", "closed"}
  /\ level \in LogLevel

(* What the client shows as the answer to a command is the answer to that  *)
(* command, not a late one to an earlier command: every handler reads the  *)
(* one reply its command produces (lines 190-297).                         *)
AnswersMatch ==
  shown.reply # Nothing => shown.reply.answers = shown.request

(* A handler always gets out of its blocking recv (line 76), by an answer  *)
(* or by the end of the session, and the user gets the menu back.          *)
HandlerReturns == pc = "waiting" ~> pc # "waiting"

(* However the client ends, the server does not keep its session.          *)
SessionEnds == Finished ~> session \in {"none", "closed"}

-----------------------------------------------------------------------------
(* What the documents and comments say.                                    *)

(* "SET_LOG_LEVEL <DEBUG|INFO|WARNING|ERROR>", "OK <message>"              *)
(* (docs/ARHITECTURA_TEHNICA.md:121,128): a level chosen in the client's   *)
(* menu is accepted.                                                       *)
LevelAccepted ==
  (shown.reply # Nothing /\ Is(ParseAdminCommand(shown.request).cmd, CMD_SET_LOG_LEVEL))
    => shown.reply.status = "OK"
=============================================================================
