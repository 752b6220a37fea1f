----------------------------- MODULE Handshake -----------------------------
(***************************************************************************)
(* How the clients join the server: connect, exchange keys, register.      *)
(*   - the UNIX client: connect_to_server of                               *)
(*     src/ordinary_client/ordinary_client.cpp with perform_key_exchange   *)
(*     of src/common/crypto_common.c;                                      *)
(*   - the Windows client: connect_to_server and perform_key_exchange of   *)
(*     src/windows_client/windows_client.py;                               *)
(*   - the server: what client_thread_handler does with a connection.      *)
(* TCP keeps no message boundaries: a client's recv takes what is there    *)
(* and fits.  A reply is kept as two pieces, its first four bytes and the  *)
(* rest, because four bytes are what perform_key_exchange reads.           *)
(***************************************************************************)
EXTENDS Protocol, FiniteSets

CONSTANTS
  UnixClient, WindowsClient,
  MaxClients,
  MaxAttempts       \* how often a client connects, at most

ASSUME HandshakeAssumption ==
  /\ UnixClient \cap WindowsClient = {}
  /\ {MaxClients, MaxAttempts} \subseteq Nat

Client == UnixClient \cup WindowsClient

VARIABLES
  pc,         \* "idle", "key" (waiting for the server's key), "register",
              \* "reply" (waiting for the answer), "joined", "failed"
  attempts,
  key,        \* what the client took for the server's key or confirmation
  sock,       \* the client's end: "closed", "open"
  conn,       \* the server's end: "none", "queued", "slot", "closed"
  to_server,  \* per client, what was sent and not yet received
  to_client,
  running

clientVars == <<pc, attempts, key, sock>>
vars       == <<clientVars, conn, to_server, to_client, running>>

PublicKey    == "PUBLIC KEY"      \* four bytes from 1 .. 22
SharedSecret == "SECRET"          \* the Windows client's constant
Piece        == [status : {"OK", "ERROR"}, part : {"first", "rest"}]
Pieces(status) ==
  <<[status |-> status, part |-> "first"], [status |-> status, part |-> "rest"]>>

Init ==
  /\ pc = [c \in Client |-> "idle"]
  /\ attempts = [c \in Client |-> 0]
  /\ key = [c \in Client |-> <<>>]
  /\ sock = [c \in Client |-> "closed"]
  /\ conn = [c \in Client |-> "none"]
  /\ to_server = [c \in Client |-> <<>>]
  /\ to_client = [c \in Client |-> <<>>]
  /\ running = TRUE

-----------------------------------------------------------------------------
(* Both clients.                                                           *)

(* connect, and the first message of the key exchange.  A connection that  *)
(* is left over on the server's side is another one than the new one: the  *)
(* client starts again when the server is done with the last.              *)
Connect(c) ==
  /\ pc[c] \in {"idle", "failed"} /\ attempts[c] < MaxAttempts
  /\ conn[c] \in {"none", "closed"}
  /\ attempts' = [attempts EXCEPT ![c] = @ + 1]
  /\ key' = [key EXCEPT ![c] = <<>>]
  /\ to_client' = [to_client EXCEPT ![c] = <<>>]
  /\ \/ /\ running
        /\ sock' = [sock EXCEPT ![c] = "open"]
        /\ conn' = [conn EXCEPT ![c] = "queued"]
        /\ to_server' = [to_server EXCEPT ![c] =
                           <<IF c \in UnixClient THEN PublicKey ELSE SharedSecret>>]
        /\ pc' = [pc EXCEPT ![c] = "key"]
     \/ /\ ~running
        /\ pc' = [pc EXCEPT ![c] = "failed"]
        /\ UNCHANGED <<sock, conn, to_server>>
  /\ UNCHANGED running

(* Mutant: the error path forgets to disconnect.                           *)
FailStillOpen(c) ==
  pc' = [pc EXCEPT ![c] = "failed"] /\ UNCHANGED sock
(* disconnect; the except clause: the socket is closed on every error.     *)
Fail(c) ==
  pc' = [pc EXCEPT ![c] = "failed"] /\ sock' = [sock EXCEPT ![c] = "closed"]

Go(c, next) == pc' = [pc EXCEPT ![c] = next] /\ UNCHANGED sock

(* recv returns 0 or an error: the server closed the connection.           *)
LoseConnection(c) ==
  /\ pc[c] \in {"key", "reply"}
  /\ to_client[c] = <<>> /\ conn[c] = "closed"
  /\ Fail(c)
  /\ UNCHANGED <<attempts, key, conn, to_server, to_client, running>>

-----------------------------------------------------------------------------
(* The UNIX client.                                                        *)

(* perform_key_exchange: the next four bytes are the server's public key.  *)
UnixTakeKey(c) ==
  /\ pc[c] = "key" /\ to_client[c] # <<>>
  /\ key' = [key EXCEPT ![c] = <<Head(to_client[c])>>]
  /\ to_client' = [to_client EXCEPT ![c] = Tail(@)]
  /\ Go(c, "register")
  /\ UNCHANGED <<attempts, conn, to_server, running>>

(* "E2E encryption established"; send_command("REGISTER_CLIENT").          *)
UnixRegister(c) ==
  /\ pc[c] = "register"
  /\ to_server' = [to_server EXCEPT ![c] = @ \o <<CMD_REGISTER_CLIENT, NL>>]
  /\ Go(c, "reply")
  /\ UNCHANGED <<attempts, key, conn, to_client, running>>

(* receive_response: one piece or more, as many as came; then              *)
(* response.find("OK") == 0.                                               *)
UnixTakeReply(c) ==
  /\ pc[c] = "reply" /\ to_client[c] # <<>>
  /\ \E n \in 1 .. Len(to_client[c]) :
       to_client' = [to_client EXCEPT ![c] = SubSeq(@, n + 1, Len(@))]
  /\ IF Head(to_client[c]) = Head(Pieces("OK")) THEN Go(c, "joined") ELSE Fail(c)
  /\ UNCHANGED <<attempts, key, conn, to_server, running>>

-----------------------------------------------------------------------------
(* The Windows client: whatever came must be the confirmation              *)
(* KEY_EXCHANGE_OK, which is no reply of the server.  What follows it in   *)
(* the source, the registration, is never reached.                         *)
WindowsConfirm(c) ==
  /\ pc[c] = "key" /\ to_client[c] # <<>>
  /\ \E n \in 1 .. Len(to_client[c]) :
       key' = [key EXCEPT ![c] = SubSeq(to_client[c], 1, n)]
  /\ to_client' = [to_client EXCEPT ![c] = <<>>]
  /\ Fail(c)
  /\ UNCHANGED <<attempts, conn, to_server, running>>

(* settimeout(10)                                                          *)
WindowsTimeout(c) ==
  /\ pc[c] = "key" /\ to_client[c] = <<>>
  /\ Fail(c)
  /\ UNCHANGED <<attempts, key, conn, to_server, to_client, running>>

UnixStep(c)    == UnixTakeKey(c) \/ UnixRegister(c) \/ UnixTakeReply(c)
WindowsStep(c) == WindowsConfirm(c) \/ WindowsTimeout(c)

-----------------------------------------------------------------------------
(* The server.                                                             *)
InSlot == {c \in Client : conn[c] = "slot"}

(* Mutant: the slots are not looked at.                                    *)
AcceptAlways(c) ==
  /\ conn[c] = "queued" /\ running
  /\ conn' = [conn EXCEPT ![c] = "slot"]
  /\ UNCHANGED <<clientVars, to_server, to_client, running>>
Accept(c) ==
  /\ conn[c] = "queued" /\ running
  /\ conn' = [conn EXCEPT ![c] = IF Cardinality(InSlot) < MaxClients
                                 THEN "slot" ELSE "closed"]
  /\ UNCHANGED <<clientVars, to_server, to_client, running>>

(* Mutant: only commands the server knows are answered.                    *)
AnswerKnown(text) ==
  IF StartsWith(text, CMD_REGISTER_CLIENT) THEN Pieces("OK") ELSE <<>>
Answer(text) ==
  IF StartsWith(text, CMD_REGISTER_CLIENT) THEN Pieces("OK") ELSE Pieces("ERROR")

(* One recv takes everything that came, and gets one answer.               *)
Serve(c) ==
  /\ conn[c] = "slot" /\ to_server[c] # <<>>
  /\ to_client' = [to_client EXCEPT ![c] =
                     IF sock[c] = "open" THEN @ \o Answer(to_server[c]) ELSE @]
  /\ to_server' = [to_server EXCEPT ![c] = <<>>]
  /\ UNCHANGED <<clientVars, conn, running>>

(* recv returns 0 or an error, perhaps before all that was sent was read.  *)
Drop(c) ==
  /\ conn[c] = "slot" /\ sock[c] = "closed"
  /\ conn' = [conn EXCEPT ![c] = "none"]
  /\ to_server' = [to_server EXCEPT ![c] = <<>>]
  /\ UNCHANGED <<clientVars, to_client, running>>

StopServer ==
  /\ running
  /\ running' = FALSE
  /\ conn' = [c \in Client |-> IF conn[c] = "none" THEN "none" ELSE "closed"]
  /\ UNCHANGED <<clientVars, to_server, to_client>>

Server(c) == Accept(c) \/ Serve(c) \/ Drop(c)

-----------------------------------------------------------------------------
Step(c) ==
  \/ Connect(c) \/ LoseConnection(c) \/ Server(c)
  \/ c \in UnixClient /\ UnixStep(c)
  \/ c \in WindowsClient /\ WindowsStep(c)

Next == (\E c \in Client : Step(c)) \/ StopServer

SafetySpec == Init /\ [][Next]_vars
Spec ==
  /\ SafetySpec
  /\ \A c \in Client :
       /\ WF_vars(Server(c)) /\ WF_vars(LoseConnection(c))
       /\ WF_vars(c \in UnixClient /\ UnixStep(c))
       /\ WF_vars(c \in WindowsClient /\ WindowsConfirm(c))

-----------------------------------------------------------------------------
TypeOK ==
  /\ pc \in [Client -> {"idle", "key", "register", "reply", "joined", "failed"}]
  /\ key \in [Client -> Seq(Piece)]
  /\ sock \in [Client -> {"open", "closed"}]
  /\ conn \in [Client -> {"none", "queued", "slot", "closed"}]
  /\ to_server \in [Client -> Seq({PublicKey, SharedSecret, CMD_REGISTER_CLIENT, NL})]
  /\ to_client \in [Client -> Seq(Piece)]
  /\ Cardinality(InSlot) <= MaxClients

(* Every attempt comes to an end: neither client waits for ever in recv,   *)
(* although the two sides do not follow the same protocol and the UNIX     *)
(* client has no timeout (crypto_common.c:205, ordinary_client.cpp:109).   *)
AttemptEnds ==
  \A c \in Client :
    (pc[c] \in {"key", "register", "reply"}) ~> (pc[c] \in {"joined", "failed"})

(* A failed attempt leaves nothing behind: the server gets its slot back.  *)
SlotReturned ==
  \A c \in Client : (pc[c] = "failed") ~> (conn[c] # "slot")

-----------------------------------------------------------------------------
(* What the documents and comments say.                                    *)

(* "Key exchange: simplified Diffie-Hellman" (README.md:95), "Receive      *)
(* server's public key" (crypto_common.c:204), "E2E encryption             *)
(* established" (ordinary_client.cpp:65): when the client says so, what it *)
(* holds is not a piece of an error message.                               *)
KeyFromServer ==
  \A c \in UnixClient :
    pc[c] \in {"register", "reply", "joined"} => \A i \in DOMAIN key[c] : key[c][i].status # "ERROR"
=============================================================================
