------------------------- MODULE AdminClientProofs -------------------------
(***************************************************************************)
(* Theorems about AdminClient, for any number of commands.                 *)
(***************************************************************************)
EXTENDS AdminClient, TLAPS

(* One command is under way, or its answer; none while the user has the    *)
(* menu.  What a stopped server did not read stays unread for good.        *)
OneOutstanding ==
  /\ pc = "start" => session = "none" /\ to_server = <<>>
  /\ session # "closed" =>
       to_server = <<>> \/ (to_server = <<request>> /\ to_client = <<>> /\ pc = "waiting")
  /\ to_client # <<>> => /\ pc = "waiting"
                         /\ \E status \in {"OK", "ERROR"} : to_client = <<Reply(request, status)>>

AnswersInv == TypeOK /\ OneOutstanding /\ AnswersMatch

(* A stream of one item.                                                  *)
LEMMA OneReply ==
  ASSUME NEW reply
  PROVE  <<reply>> # <<>> /\ Head(<<reply>>) = reply /\ Tail(<<reply>>) = <<>>
OBVIOUS

(* What is sent into an empty stream.                                      *)
LEMMA Appended ==
  ASSUME NEW x
  PROVE  Append(<<>>, x) = <<x>>
OBVIOUS

(* A command is sent from the menu only, when nothing is under way.        *)
LEMMA SendKeeps ==
  ASSUME AnswersInv, pc = "menu", NEW text, SendCommand(text, "waiting")
  PROVE  AnswersInv'
<1>. USE DEF AnswersInv, Disconnect
<1>1. TypeOK' /\ AnswersMatch'
  BY DEF SendCommand, TypeOK, AnswersMatch
<1>2. to_client = <<>> /\ to_client' = <<>>
  BY DEF SendCommand, OneOutstanding
<1>3. CASE session # "closed" /\ pc' = "waiting" /\ to_server' = Append(to_server, request')
  <2>1. to_server = <<>>
    BY <1>3 DEF OneOutstanding
  <2>2. to_server' = <<request'>>
    BY <1>3, <2>1, Appended
  <2>. QED
    BY <1>1, <1>2, <1>3, <2>2 DEF OneOutstanding
<1>4. CASE session = "closed" /\ pc' = "killed"
  BY <1>1, <1>2, <1>4 DEF SendCommand, OneOutstanding
<1>. QED
  BY <1>3, <1>4 DEF SendCommand

(* One step per call of the client: connect, send, receive, leave.         *)
LEMMA ClientKeeps == AnswersInv /\ Client => AnswersInv'
<1>. SUFFICES ASSUME AnswersInv, Client PROVE AnswersInv'
  OBVIOUS
<1>. USE DEF AnswersInv, Disconnect
<1>1. CASE Connect
  <2>1. to_client = <<>> /\ to_server = <<>>
    BY <1>1 DEF Connect, OneOutstanding
  <2>. QED
    BY <1>1, <2>1 DEF Connect, TypeOK, AnswersMatch, OneOutstanding
<1>2. CASE SetLogLevel \/ UpdateStats \/ GetLogs \/ DisconnectClient \/ Shutdown
  BY <1>2, SendKeeps
     DEF SetLogLevel, UpdateStats, GetLogs, DisconnectClient, Shutdown, InMenu
<1>3. CASE ReceiveResponse
  <2>1. TypeOK'
    BY <1>3 DEF ReceiveResponse, TypeOK
  <2>2. CASE to_client # <<>>
    <3>1. PICK status \in {"OK", "ERROR"} : to_client = <<Reply(request, status)>>
      BY <2>2 DEF OneOutstanding
    <3>2. /\ shown' = [request |-> request, reply |-> Reply(request, status)]
          /\ to_client' = <<>>
      BY <1>3, <2>2, <3>1, OneReply DEF ReceiveResponse
    <3>3. AnswersMatch'
      BY <3>2 DEF AnswersMatch, Reply
    <3>4. session # "closed" => to_server = <<>>
      BY <2>2 DEF OneOutstanding
    <3>5. UNCHANGED <<session, to_server>> /\ pc' \in {"menu", "leaving"}
      BY <1>3 DEF ReceiveResponse
    <3>. QED
      BY <2>1, <3>2, <3>3, <3>4, <3>5 DEF OneOutstanding
  <2>3. CASE to_client = <<>>
    <3>1. session = "closed" /\ to_client' = <<>> /\ UNCHANGED session
            /\ shown' = [request |-> request, reply |-> Nothing]
            /\ pc' \in {"menu", "leaving"}
      BY <1>3, <2>3 DEF ReceiveResponse
    <3>. QED
      BY <2>1, <3>1 DEF OneOutstanding, AnswersMatch
  <2>. QED
    BY <2>2, <2>3
<1>4. CASE Leave
  <2>1. to_client = <<>> /\ (session # "closed" => to_server = <<>>)
    BY <1>4 DEF Leave, OneOutstanding
  <2>. QED
    BY <1>4, <2>1 DEF Leave, serverVars, TypeOK, AnswersMatch, OneOutstanding
<1>. QED
  BY <1>1, <1>2, <1>3, <1>4 DEF Client

(* One step per action of the session the server keeps.                    *)
LEMMA ServerKeeps == AnswersInv /\ Server => AnswersInv'
<1>. SUFFICES ASSUME AnswersInv, Server PROVE AnswersInv'
  OBVIOUS
<1>. USE DEF AnswersInv, clientVars
<1>1. CASE Accept
  BY <1>1 DEF Accept, TypeOK, AnswersMatch, OneOutstanding
<1>2. CASE Execute
  <2>1. to_server = <<request>> /\ to_client = <<>> /\ pc = "waiting"
    BY <1>2 DEF Execute, OneOutstanding
  <2>2. PICK status \in {"OK", "ERROR"} : to_client' = Append(to_client, Reply(Head(to_server), status))
    BY <1>2 DEF Execute, Answer
  <2>3. to_client' = <<Reply(request, status)>> /\ to_server' = <<>>
    BY <1>2, <2>1, <2>2, OneReply, Appended DEF Execute
  <2>4. level' \in LogLevel
    <3>1. ASSUME NEW args, StringToLogLevel(args) # INVALID_LEVEL
          PROVE  StringToLogLevel(args) \in LogLevel
      <4>1. PICK l \in LogLevel : args = <<l>>
        BY <3>1 DEF StringToLogLevel
      <4>2. args[1] = l
        BY <4>1
      <4>. QED
        BY <4>1, <4>2 DEF StringToLogLevel
    <3>. QED
      BY <1>2, <3>1 DEF Execute, Valid, TypeOK
  <2>5. TypeOK' /\ AnswersMatch'
    BY <1>2, <2>4 DEF Execute, TypeOK, AnswersMatch
  <2>6. request' = request /\ pc' = pc
    BY <1>2 DEF Execute
  <2>. QED
    BY <2>1, <2>3, <2>5, <2>6 DEF OneOutstanding
<1>3. CASE EndSession \/ StopServer
  BY <1>3 DEF EndSession, StopServer, TypeOK, AnswersMatch, OneOutstanding
<1>. QED
  BY <1>1, <1>2, <1>3 DEF Server

(* The reply a handler shows is the answer to the command it sent, never a *)
(* late one to an earlier command -- also when the session ends between    *)
(* the two.                                                                *)
THEOREM AnswersAreTheirOwn == SafetySpec => [](TypeOK /\ AnswersMatch)
<1>1. Init => AnswersInv
  <2>. SUFFICES ASSUME Init PROVE AnswersInv
    OBVIOUS
  <2>1. shown.reply = Nothing
    BY DEF Init
  <2>2. TypeOK
    BY DEF Init, TypeOK, LogLevel
  <2>3. OneOutstanding
    BY DEF Init, OneOutstanding
  <2>. QED
    BY <2>1, <2>2, <2>3 DEF AnswersInv, AnswersMatch
<1>2. AnswersInv /\ [Next]_vars => AnswersInv'
  <2>1. AnswersInv /\ UNCHANGED vars => AnswersInv'
    BY DEF vars, clientVars, serverVars, AnswersInv, TypeOK, AnswersMatch, OneOutstanding
  <2>. QED
    BY <2>1, ClientKeeps, ServerKeeps DEF Next, Terminated
<1>3. AnswersInv => TypeOK /\ AnswersMatch
  BY DEF AnswersInv
<1>. QED
  BY <1>1, <1>2, <1>3, PTL DEF SafetySpec

(* Every variable of the session keeps its type: a handler never goes on   *)
(* with a state the menu does not know.                                    *)
THEOREM AdminClientTyped == SafetySpec => []TypeOK
BY AnswersAreTheirOwn, PTL
=============================================================================
