------------------------------ MODULE Protocol ------------------------------
(***************************************************************************)
(* The text protocol shared by the server and its clients                  *)
(* (include/common.h, src/common/common.c).                                *)
(*                                                                         *)
(* A buffer is a sequence of tokens: a whole command word or argument is   *)
(* one token, and the two characters the code gives a meaning to -- the    *)
(* space that parse_admin_command looks for and the newline that the       *)
(* clients append to every command -- are tokens of their own.             *)
(***************************************************************************)
EXTENDS Integers, SequencesExt

SP == " "
NL == "\n"

CMD_SET_LOG_LEVEL   == "SET_LOG_LEVEL"
CMD_GET_STATS       == "GET_STATS"
CMD_SHUTDOWN_SERVER == "SHUTDOWN_SERVER"
CMD_REGISTER_CLIENT == "REGISTER_CLIENT"

(* log_level_t: the enumeration, by name.  ERROR_LEVEL is the name of the  *)
(* constant LOG_ERROR; INVALID_LEVEL is the -1 of string_to_log_level.     *)
LogLevel      == {"DEBUG", "INFO", "WARNING", "ERROR"}
INVALID_LEVEL == "INVALID"

(* The words and arguments a buffer can be made of; "OTHER" stands for any *)
(* text that is none of the server's own words.                            *)
Token == {SP, NL, "OTHER", CMD_SET_LOG_LEVEL, CMD_GET_STATS,
          CMD_SHUTDOWN_SERVER, CMD_REGISTER_CLIENT} \cup LogLevel

Text == Seq(Token)

(* parse_admin_command: split at the first space.  Without a space the     *)
(* whole buffer is the command -- a trailing newline included.             *)
ParseAdminCommand(text) ==
  LET space == SelectInSeq(text, LAMBDA token : token = SP) IN
  IF space = 0
  THEN [cmd |-> text, args |-> <<>>]
  ELSE [cmd |-> SubSeq(text, 1, space - 1), args |-> SubSeq(text, space + 1, Len(text))]

(* string_to_log_level: the whole argument must be the name of a level.    *)
StringToLogLevel(args) ==
  IF \E level \in LogLevel : args = <<level>>
  THEN args[1]
  ELSE INVALID_LEVEL

(* strcmp(cmd, word) == 0                                                  *)
Is(cmd, word) == cmd = <<word>>

(* strncmp(buffer, word, strlen(word)) == 0                                *)
StartsWith(text, word) == IsPrefix(<<word>>, text)

(* What send_response can have put on a connection.                        *)
ResponseType == [status : {"NONE", "OK", "ERROR"}, total : Nat, active : Int]

(* send_response: a status word and a message.  Only the two numbers of    *)
(* the statistics message are kept of the message text.                    *)
Response(status)          == [status |-> status, total |-> 0, active |-> 0]
StatsResponse(total, act) == [status |-> "OK", total |-> total, active |-> act]
NoResponse                == Response("NONE")
=============================================================================
