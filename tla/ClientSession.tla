--------------------------- MODULE ClientSession ---------------------------
(***************************************************************************)
(* A session of the UNIX client (src/ordinary_client/ordinary_client.cpp): *)
(* the key exchange, then the user's commands, with the threads that watch *)
(* for the end of a scan on the same socket.                               *)
(*                                                                         *)
(* The server of src/ refuses all of this.  The one here is the server of  *)
(* docs/ARHITECTURA_TEHNICA.md:130-163, made of what src/common has for    *)
(* it: perform_key_exchange, receive_file, decrypt_file, encrypt_file and  *)
(* send_file.  Like client_thread_handler it answers what one recv brought *)
(* with one reply.  Its scans are those of ScanService.                    *)
(*                                                                         *)
(* A command, a reply and a byte of a file are one item of a stream each;  *)
(* recv takes any number of the items that are there.                      *)
(***************************************************************************)
EXTENDS KeyExchange, FiniteSets

CONSTANTS
  Monitor,         \* the detached threads there may be
  MAX_JOBS,
  MaxCommands,     \* the commands the user gives, at most
  PrivateKey,      \* the private keys that are drawn
  UserFile,        \* the file the user uploads
  ServerFile       \* the file the server has for download

(* Anything in a stream that is no byte of a file.                         *)
Text == {<<"text", 0, 0>>}

ASSUME SessionAssumption ==
  /\ {MAX_JOBS, MaxCommands} \subseteq Nat
  /\ PrivateKey \subseteq PrivateKeys
  /\ {UserFile, ServerFile} \subseteq Seq(Byte)
  /\ \A s \in 0 .. dh_p - 1 : DerivedKey(s) \in CryptoKey
  /\ Text \in Byte

VARIABLES
  to_server, to_client,
  pc,              \* where the main thread of the client is
  private_key,     \* of its dh_key_t
  secret,          \* its shared_secret; 0: none yet
  command,         \* what it waits for the answer to
  temp,            \* its temporary file in /tmp
  total,           \* total_sent, total_received
  read,            \* how far the file it sends is read
  file_size,       \* of the file it receives
  local,           \* the file it downloaded last
  given,           \* commands so far
  monitors,        \* where the detached threads are
  overlapped,      \* was a command given while one of them ran?
  s_pc,            \* where the server is
  s_secret,
  received,        \* the file it receives
  expected_size,
  outgoing,        \* what is left of the file it sends
  jobs, uploads    \* its scans, and the files they are about

transfer == <<temp, total, read, file_size, local>>
exchange == <<private_key, secret>>
user     == <<command, given, overlapped>>
server   == <<s_pc, s_secret, received, expected_size, outgoing, jobs, uploads>>
vars     == <<to_server, to_client, pc, exchange, user, transfer, monitors, server>>

Service == INSTANCE ScanService

NoFile     == [exists |-> FALSE, data |-> <<>>]
File(data) == [exists |-> TRUE, data |-> data]

Command(name, arg)       == [name |-> name, arg |-> arg]
Reply(status, text, arg) == [status |-> status, text |-> text, arg |-> arg]
Bytes(data)              == [i \in DOMAIN data |-> [byte |-> data[i]]]
NoCommand                == Command("none", 0)

(* What the items of a stream are, taken as bytes of a file.               *)
Data(items) == [i \in DOMAIN items |->
                  IF "byte" \in DOMAIN items[i] THEN items[i].byte ELSE Text]

Init ==
  /\ to_server = <<>> /\ to_client = <<>>
  /\ pc = "connected" /\ private_key = 0 /\ secret = 0
  /\ command = NoCommand /\ given = 0 /\ overlapped = FALSE
  /\ temp = NoFile /\ total = 0 /\ read = 0 /\ file_size = 0 /\ local = NoFile
  /\ monitors = [m \in Monitor |-> "off"]
  /\ s_pc = "key" /\ s_secret = 0
  /\ received = NoFile /\ expected_size = 0 /\ outgoing = <<>>
  /\ jobs = <<>> /\ uploads = <<>>

-----------------------------------------------------------------------------
(* The socket.                                                             *)

ClientGone == pc \in {"exited", "killed"}
ServerGone == s_pc = "closed"

(* How many items recv may return; 0 when the other side is gone.          *)
Available(stream, gone, limit) ==
  IF stream = <<>> THEN (IF gone THEN {0} ELSE {})
                   ELSE 1 .. (IF Len(stream) < limit THEN Len(stream) ELSE limit)

First(stream, n) == SubSeq(stream, 1, n)
Rest(stream, n)  == SubSeq(stream, n + 1, Len(stream))

(* What fits into a buffer.                                                *)
Buffer(data) == First(data, IF Len(data) < BUFFER_SIZE THEN Len(data) ELSE BUFFER_SIZE)

(* send by the client.  On a connection the server closed it may seem to   *)
(* succeed, fail, or end the process with SIGPIPE, which is not ignored.   *)
Outcome == {"sent", "failed", "killed"}
ClientSends(items, outcome) ==
  /\ outcome # "sent" => ServerGone
  /\ to_server' = IF ServerGone THEN to_server ELSE to_server \o items

Goes(outcome, sent, failed) ==
  pc' = CASE outcome = "sent"   -> sent
          [] outcome = "failed" -> failed
          [] outcome = "killed" -> "killed"

Hears(n) == n \in Available(to_client, ServerGone, Len(to_client))
Takes(n) == to_client' = Rest(to_client, n)

IsReply(item)    == "status" \in DOMAIN item
BeginsWith(got, status) ==
  got # <<>> /\ IsReply(got[1]) /\ got[1].status = status
Mentions(got, text) ==
  \E i \in DOMAIN got : IsReply(got[i]) /\ text \in {got[i].status, got[i].text}

-----------------------------------------------------------------------------
(* connect_to_server.                                                      *)

(* perform_key_exchange: the client sends its public key first.            *)
KeySend ==
  /\ pc = "connected"
  /\ \E k \in PrivateKey, outcome \in Outcome :
       /\ private_key' = k
       /\ ClientSends(<<[public |-> PublicKey(k)]>>, outcome)
       /\ Goes(outcome, "key", "exited")
  /\ UNCHANGED <<to_client, secret, user, transfer, monitors, server>>

(* recv must bring all four bytes of the server's.                         *)
KeyReceive ==
  /\ pc = "key"
  /\ private_key' = 0
  /\ \E n \in Available(to_client, ServerGone, 1) :
       /\ Takes(n)
       /\ \/ n = 1 /\ pc' = "register"
                   /\ secret' = SharedSecret(private_key, to_client[1].public)
          \/ pc' = "exited" /\ UNCHANGED secret
  /\ UNCHANGED <<to_server, user, transfer, monitors, server>>

Register ==
  /\ pc = "register"
  /\ \E outcome \in Outcome :
       /\ ClientSends(<<Command("REGISTER_CLIENT", 0)>>, outcome)
       /\ Goes(outcome, "registering", "exited")
  /\ UNCHANGED <<to_client, exchange, user, transfer, monitors, server>>

Registered ==
  /\ pc = "registering"
  /\ \E n \in 0 .. Len(to_client) :
       /\ Hears(n) /\ Takes(n)
       /\ pc' = IF BeginsWith(First(to_client, n), "OK") THEN "prompt" ELSE "exited"
  /\ UNCHANGED <<to_server, exchange, user, transfer, monitors, server>>

Connect == KeySend \/ KeyReceive \/ Register \/ Registered

-----------------------------------------------------------------------------
(* interactive_mode: the commands of the user.                             *)

Off     == {m \in Monitor : monitors[m] = "off"}
Running == {m \in Monitor : monitors[m] \notin {"off", "ended"}}

Ask(c, waits, outcome) ==
  /\ pc = "prompt" /\ given < MaxCommands
  /\ given' = given + 1
  /\ overlapped' = (overlapped \/ Running # {})
  /\ ClientSends(<<c>>, outcome)
  /\ Goes(outcome, waits, "prompt")
  /\ command' = IF outcome = "sent" THEN c ELSE NoCommand

Return == pc' = "prompt" /\ command' = NoCommand

Quit ==
  /\ pc = "prompt"
  /\ pc' = "exited"
  /\ UNCHANGED <<to_server, to_client, exchange, user, transfer, monitors, server>>

(* check_scan_status, get_scan_result.                                     *)
AskAboutJob ==
  /\ \E name \in {"GET_SCAN_STATUS", "GET_SCAN_RESULT"}, job \in 1 .. MAX_JOBS,
        outcome \in Outcome :
       Ask(Command(name, job), "answer", outcome)
  /\ UNCHANGED <<to_client, exchange, transfer, monitors, server>>

HearAnswer ==
  /\ pc = "answer"
  /\ \E n \in 0 .. Len(to_client) : Hears(n) /\ Takes(n)
  /\ Return
  /\ UNCHANGED <<to_server, exchange, given, overlapped, transfer, monitors, server>>

-----------------------------------------------------------------------------
(* upload_file.  A thread is free for the monitor it will start.           *)

Encrypted(file) == EncryptFile(file, DerivedKey(secret))

UploadCommand ==
  /\ Off # {}
  /\ \E outcome \in Outcome :
       /\ Ask(Command("UPLOAD_FILE", Len(Encrypted(UserFile))), "ready", outcome)
       /\ temp' = IF outcome = "failed" THEN NoFile ELSE File(Encrypted(UserFile))
  /\ UNCHANGED <<to_client, exchange, total, read, file_size, local, monitors, server>>

UploadReady(ready, refused) ==
  /\ pc = "ready"
  /\ \E n \in 0 .. Len(to_client) :
       /\ Hears(n) /\ Takes(n)
       /\ IF First(to_client, n) \in ready
          THEN pc' = "upload" /\ UNCHANGED <<command, temp>>
          ELSE Return /\ temp' = refused
  /\ UNCHANGED <<to_server, exchange, given, overlapped, total, read, file_size, local,
                 monitors, server>>
Ready   == Reply("OK", "READY", 0)
Refused == Reply("ERROR", "REFUSED", 0)
(* Mutants: the file is left behind when the server refuses; the refusal   *)
(* is not noticed.                                                         *)
HearReadyKeeping == UploadReady({<<Ready>>}, temp)
HearAnything     == UploadReady({<<Ready>>, <<Refused>>}, NoFile)
HearReady        == UploadReady({<<Ready>>}, NoFile)

(* One round of the loop.  A send may take fewer bytes than were read: the *)
(* rest of the buffer is not sent again.                                   *)
UploadData ==
  /\ pc = "upload"
  /\ LET size  == Len(temp.data)
         chunk == Buffer(Rest(temp.data, read))
     IN  \E outcome \in Outcome, n \in 1 .. Len(chunk) :
           /\ ClientSends(Bytes(First(chunk, n)), outcome)
           /\ IF outcome = "sent" /\ total + n < size /\ read + Len(chunk) < size
              THEN /\ total' = total + n /\ read' = read + Len(chunk)
                   /\ UNCHANGED <<pc, command, temp>>
              ELSE /\ total' = 0 /\ read' = 0
                   /\ Goes(outcome, "confirm", "prompt")
                   /\ command' = IF outcome = "failed" THEN NoCommand ELSE command
                   /\ temp' = IF outcome = "killed" THEN temp ELSE NoFile
  /\ UNCHANGED <<to_client, exchange, given, overlapped, file_size, local, monitors, server>>

HearConfirmation ==
  /\ pc = "confirm"
  /\ Return
  /\ \E n \in 0 .. Len(to_client) :
       /\ Hears(n) /\ Takes(n)
       /\ LET got == First(to_client, n) IN
          IF BeginsWith(got, "OK") /\ Mentions(got, "JOB")
          THEN monitors' = [monitors EXCEPT ![CHOOSE m \in Off : TRUE] = "status"]
          ELSE UNCHANGED monitors
  /\ UNCHANGED <<to_server, exchange, given, overlapped, transfer, server>>

-----------------------------------------------------------------------------
(* download_file.                                                          *)

DownloadCommand ==
  /\ \E outcome \in Outcome : Ask(Command("DOWNLOAD_FILE", 0), "header", outcome)
  /\ UNCHANGED <<to_client, exchange, transfer, monitors, server>>

(* receive_response takes more than the header if more is there, and what  *)
(* follows the header is lost.                                             *)
HearHeader ==
  /\ pc = "header"
  /\ \E n \in 0 .. Len(to_client) :
       /\ Hears(n) /\ Takes(n)
       /\ IF BeginsWith(First(to_client, n), "SIZE")
          THEN /\ pc' = "download" /\ file_size' = to_client[1].arg
               /\ temp' = File(<<>>)
               /\ UNCHANGED command
          ELSE Return /\ UNCHANGED <<file_size, temp>>
  /\ UNCHANGED <<to_server, exchange, given, overlapped, total, read, local, monitors, server>>

DownloadUntil(size) ==
  /\ pc = "download"
  /\ \E n \in Available(to_client, ServerGone,
                       IF size - total < BUFFER_SIZE THEN size - total ELSE BUFFER_SIZE) :
       /\ Takes(n)
       /\ IF n = 0
          THEN Return /\ temp' = NoFile /\ total' = 0 /\ file_size' = 0
          ELSE /\ temp' = File(temp.data \o Data(First(to_client, n)))
               /\ IF total + n < size
                  THEN total' = total + n /\ UNCHANGED <<pc, file_size>>
                  ELSE total' = 0 /\ file_size' = 0 /\ pc' = "decrypt"
               /\ UNCHANGED command
  /\ UNCHANGED <<to_server, exchange, given, overlapped, read, local, monitors, server>>
(* Mutant: one byte too many is waited for.                                *)
DownloadOneMore == DownloadUntil(file_size + 1)
DownloadData    == DownloadUntil(file_size)

DownloadDecrypt ==
  /\ pc = "decrypt"
  /\ Return
  /\ local' = File(DecryptFile(temp.data, DerivedKey(secret)))
  /\ temp' = NoFile
  /\ UNCHANGED <<to_server, to_client, exchange, given, overlapped, total, read, file_size,
                 monitors, server>>

ClientWaits ==
  \/ HearAnswer \/ HearReady \/ UploadData \/ HearConfirmation
  \/ HearHeader \/ DownloadData \/ DownloadDecrypt
UserGives == Quit \/ AskAboutJob \/ UploadCommand \/ DownloadCommand

-----------------------------------------------------------------------------
(* monitor_scan_async: whatever was uploaded, job 1 is watched.            *)

MonitorAsk(m) ==
  /\ ~ClientGone /\ monitors[m] \in {"status", "result"}
  /\ LET name == IF monitors[m] = "status" THEN "GET_SCAN_STATUS" ELSE "GET_SCAN_RESULT" IN
     \E outcome \in Outcome :
       /\ ClientSends(<<Command(name, 1)>>, outcome)
       /\ Goes(outcome, pc, pc)
       /\ monitors' = [monitors EXCEPT ![m] =
            CASE outcome = "sent" -> name
              [] outcome # "sent" -> IF @ = "status" THEN "status" ELSE "ended"]
  /\ UNCHANGED <<to_client, exchange, user, transfer, server>>

MonitorHearThen(m, completed) ==
  /\ ~ClientGone /\ monitors[m] \in {"GET_SCAN_STATUS", "GET_SCAN_RESULT"}
  /\ \E n \in 0 .. Len(to_client) :
       /\ Hears(n) /\ Takes(n)
       /\ LET got == First(to_client, n) IN
          monitors' = [monitors EXCEPT ![m] =
            IF @ = "GET_SCAN_RESULT"           THEN "ended"
            ELSE IF Mentions(got, "COMPLETED") THEN completed
            ELSE IF Mentions(got, "ERROR")     THEN "ended"
            ELSE "status"]
  /\ UNCHANGED <<to_server, pc, exchange, user, transfer, server>>
(* Mutant: the loop is not left.                                           *)
MonitorHearAgain(m) == MonitorHearThen(m, "status")
MonitorHear(m)      == MonitorHearThen(m, "result")

-----------------------------------------------------------------------------
(* The server.                                                             *)

(* perform_key_exchange: recv the client's key, send one, compute.         *)
ServerKey ==
  /\ s_pc = "key"
  /\ \E n \in Available(to_server, ClientGone, 1), k \in PrivateKey :
       /\ to_server' = Rest(to_server, n)
       /\ \/ /\ n = 1 /\ s_pc' = "idle"
             /\ to_client' = Append(to_client, [public |-> PublicKey(k)])
             /\ s_secret' = SharedSecret(k, to_server[1].public)
          \/ s_pc' = "closed" /\ UNCHANGED <<to_client, s_secret>>
  /\ UNCHANGED <<pc, exchange, user, transfer, monitors,
                 received, expected_size, outgoing, jobs, uploads>>

(* What may be replied to the first item of what a recv brought.           *)
AboutJob(name, job) ==
  IF job \notin DOMAIN jobs THEN Reply("ERROR", "NOT_FOUND", job)
  ELSE IF name = "GET_SCAN_STATUS" THEN Reply("OK", jobs[job].status, job)
  ELSE Reply(IF jobs[job].result = "CLEAN" THEN "OK" ELSE "ERROR", jobs[job].result, job)

Answers(item) ==
  IF "name" \notin DOMAIN item THEN {Reply("ERROR", "UNKNOWN", 0)}
  ELSE CASE item.name = "REGISTER_CLIENT" -> {Reply("OK", "REGISTERED", 0)}
         [] item.name = "UPLOAD_FILE"     ->
              {Refused} \cup (IF Len(jobs) < MAX_JOBS THEN {Ready} ELSE {})
         [] item.name = "DOWNLOAD_FILE"   ->
              {Reply("SIZE", "BYTES", Len(EncryptFile(ServerFile, DerivedKey(s_secret))))}
         [] OTHER -> {AboutJob(item.name, item.arg)}

ServerCommand ==
  /\ s_pc = "idle"
  /\ \E n \in Available(to_server, ClientGone, Len(to_server)) :
       /\ to_server' = Rest(to_server, n)
       /\ IF n = 0
          THEN s_pc' = "closed" /\ UNCHANGED <<to_client, received, expected_size, outgoing>>
          ELSE \E reply \in Answers(to_server[1]) :
               /\ to_client' = Append(to_client, reply)
               /\ CASE reply.text = "READY" ->
                         /\ s_pc' = "receive" /\ received' = File(<<>>)
                         /\ expected_size' = to_server[1].arg /\ UNCHANGED outgoing
                    [] reply.status = "SIZE" ->
                         /\ s_pc' = "send"
                         /\ outgoing' = EncryptFile(ServerFile, DerivedKey(s_secret))
                         /\ UNCHANGED <<received, expected_size>>
                    [] OTHER -> UNCHANGED <<s_pc, received, expected_size, outgoing>>
  /\ UNCHANGED <<pc, exchange, user, transfer, monitors, s_secret, jobs, uploads>>

(* receive_file, then decrypt_file and a new job.  recv may fail at any    *)
(* time: the connection is reset, or cleanup closes it.  incomplete is     *)
(* what that leaves of the file.                                           *)
ReceiveFile(remaining, incomplete) ==
  /\ s_pc = "receive"
  /\ \E n \in {0} \cup Available(to_server, ClientGone,
                       IF remaining < BUFFER_SIZE THEN remaining ELSE BUFFER_SIZE) :
       LET whole == received.data \o Data(First(to_server, n))
           k     == DerivedKey(s_secret)
       IN  /\ to_server' = Rest(to_server, n)
           /\ received' = IF n = 0 THEN incomplete ELSE File(whole)
           /\ CASE n = 0 ->
                     s_pc' = "closed" /\ UNCHANGED <<to_client, jobs, uploads>>
                [] n > 0 /\ Len(whole) < expected_size ->
                     UNCHANGED <<s_pc, to_client, jobs, uploads>>
                [] n > 0 /\ Len(whole) = expected_size /\ Decrypts(whole, k) ->
                     /\ s_pc' = "idle" /\ Service!Submit
                     /\ uploads' = Append(uploads, DecryptFile(whole, k))
                     /\ to_client' = Append(to_client, Reply("OK", "JOB", Len(jobs')))
                [] OTHER ->
                     /\ s_pc' = "idle" /\ UNCHANGED <<jobs, uploads>>
                     /\ to_client' = Append(to_client, Reply("ERROR", "DECRYPT", 0))
  /\ UNCHANGED <<pc, exchange, user, transfer, monitors, s_secret, expected_size, outgoing>>
Remaining == expected_size - Len(received.data)
(* Mutants: the file is not unlinked; the last recv takes a whole buffer.  *)
ServerReceiveKeeping == ReceiveFile(Remaining, received)
ServerReceiveMore    == ReceiveFile(BUFFER_SIZE, NoFile)
ServerReceive        == ReceiveFile(Remaining, NoFile)

(* One send of send_file, which takes no notice of how much was sent.      *)
ServerSend ==
  /\ s_pc = "send"
  /\ LET chunk == Buffer(outgoing) IN
     /\ \E n \in 1 .. Len(chunk) :
          to_client' = IF ClientGone THEN to_client
                       ELSE to_client \o Bytes(First(chunk, n))
     /\ outgoing' = Rest(outgoing, Len(chunk))
     /\ s_pc' = IF outgoing' = <<>> THEN "idle" ELSE "send"
  /\ UNCHANGED <<to_server, pc, exchange, user, transfer, monitors, s_secret,
                 received, expected_size, jobs, uploads>>

ServerWorks ==
  /\ Service!Work
  /\ UNCHANGED <<to_server, to_client, pc, exchange, user, transfer, monitors,
                 s_pc, s_secret, received, expected_size, outgoing, uploads>>

(* The server ends: cleanup closes the socket under whatever uses it, and  *)
(* what the client has not read may be lost.                               *)
ServerCloses ==
  /\ s_pc \notin {"receive", "closed"}
  /\ s_pc' = "closed" /\ outgoing' = <<>>
  /\ to_client' \in {to_client, <<>>}
  /\ UNCHANGED <<to_server, pc, exchange, user, transfer, monitors, s_secret, received,
                 expected_size, jobs, uploads>>

Server == ServerKey \/ ServerCommand \/ ServerReceive \/ ServerSend

-----------------------------------------------------------------------------
Terminated == ClientGone /\ ServerGone /\ UNCHANGED vars

Next ==
  \/ Connect \/ UserGives \/ ClientWaits
  \/ \E m \in Monitor : MonitorAsk(m) \/ MonitorHear(m)
  \/ Server \/ ServerWorks \/ ServerCloses
  \/ Terminated

(* The threads run and the server answers; the user may never give a       *)
(* command, and nothing has to close.                                      *)
Fairness ==
  /\ WF_vars(Connect) /\ WF_vars(ClientWaits)
  /\ WF_vars(Server) /\ WF_vars(ServerWorks)
  /\ \A m \in Monitor : WF_vars(MonitorAsk(m) \/ MonitorHear(m))

Spec == Init /\ [][Next]_vars /\ Fairness
-----------------------------------------------------------------------------
FileState == [exists : BOOLEAN, data : Seq(Byte)]

TypeOK ==
  /\ pc \in {"connected", "key", "register", "registering", "prompt", "answer", "ready",
             "upload", "confirm", "header", "download", "decrypt", "exited", "killed"}
  /\ {temp, local, received} \subseteq FileState
  /\ {secret, s_secret} \subseteq 0 .. dh_p - 1
  /\ {total, read, file_size, expected_size} \subseteq Nat
  /\ monitors \in [Monitor -> {"off", "status", "GET_SCAN_STATUS", "result",
                               "GET_SCAN_RESULT", "ended"}]
  /\ s_pc \in {"key", "idle", "receive", "send", "closed"}
  /\ outgoing \in Seq(Byte) /\ Len(received.data) <= expected_size
  /\ Service!TypeOK /\ Len(uploads) = Len(jobs)

(* Both sides compute the same secret, whatever keys they draw, and a      *)
(* client that goes on has the secret its server has                       *)
(* (crypto_common.c:165-211).                                              *)
KeysAgree ==
  /\ pc = "connected" => SecretsAgree
  /\ secret # 0 => s_secret = secret

(* Whatever way a command ends, its temporary file is gone when the user   *)
(* is asked for the next one (ordinary_client.cpp:167-212, 306-337).       *)
TempRemoved == pc \in {"prompt", "exited"} => ~temp.exists

(* receive_file leaves a whole file or none (common.c:82-109).             *)
NoIncompleteFile ==
  s_pc # "receive" /\ received.exists => Len(received.data) = expected_size

(* As long as no command was given while a monitor ran, what is scanned is *)
(* the user's file: however the streams were cut, and also when a send     *)
(* took less than it was given (ordinary_client.cpp:184-208).              *)
UploadIntact == ~overlapped => \A i \in DOMAIN uploads : uploads[i] = UserFile

(* And what is downloaded is the server's file, although nothing but the   *)
(* IV is verified (crypto_common.c:85).                                    *)
DownloadIntact ==
  [][pc = "decrypt" /\ pc' = "prompt" /\ ~overlapped => local' = File(ServerFile)]_vars

(* Under the same condition nobody takes another's reply: only what the    *)
(* one reader there is waits for is ever on its way to it, and nothing is  *)
(* left over when a command has returned (ordinary_client.cpp:105-123).    *)
Awaited(item) ==
  /\ IsReply(item)
  /\ CASE pc = "registering" -> item.text = "REGISTERED"
       [] pc = "ready"       -> item.text \in {"READY", "REFUSED"}
       [] pc = "confirm"     -> item.text = "JOB"
       [] pc = "answer"      -> item.arg = command.arg
       [] pc = "prompt"      -> item.arg = 1 /\ Running # {}
       [] OTHER              -> FALSE
RepliesAwaited ==
  ~overlapped /\ pc \notin {"key", "header", "download", "exited", "killed"}
    => /\ Len(to_client) <= 1
       /\ \A i \in DOMAIN to_client : Awaited(to_client[i])

(* The two ways to wait for ever that the code has: bytes that receive_-   *)
(* response took with the header of a download (ordinary_client.cpp:292),  *)
(* and bytes a send did not take.                                          *)
Starved ==
  \/ /\ pc = "download"
     /\ total + Len(to_client) + Len(outgoing) < file_size
  \/ /\ pc = "confirm" /\ s_pc = "receive"
     /\ Len(received.data) + Len(to_server) < expected_size

(* Otherwise every command returns to the prompt, whatever breaks; there   *)
(* is no timeout that would make it.                                       *)
CommandReturns ==
  (pc \notin {"prompt", "exited", "killed"})
    ~> (pc \in {"prompt", "exited", "killed"} \/ Starved \/ overlapped)

(* A monitor that is left alone comes to report the result                 *)
(* (ordinary_client.cpp:259-278).                                          *)
MonitorReports ==
  \A m \in Monitor :
    (m \in Running) ~> (monitors[m] = "ended" \/ overlapped \/ ClientGone \/ ServerGone)
=============================================================================
