------------------------- MODULE SessionInvariants -------------------------
(***************************************************************************)
(* The inductive invariants of ClientSession that ClientSessionProofs is   *)
(* about: what the types, the key exchange and the conversation between    *)
(* client and server are in every state.                                   *)
(***************************************************************************)
EXTENDS ClientSession

-----------------------------------------------------------------------------
(* What is in the streams: a public key, a command, a reply, a byte.       *)
CommandName == {"REGISTER_CLIENT", "GET_SCAN_STATUS", "GET_SCAN_RESULT",
                "UPLOAD_FILE", "DOWNLOAD_FILE"}
ReplyText   == {"REGISTERED", "READY", "REFUSED", "NOT_FOUND", "UNKNOWN", "BYTES", "JOB",
                "DECRYPT"}
                 \cup UNION {{job.status, job.result} : job \in Service!JobState}

KeyItem     == [public : 1 .. dh_p - 1]
CommandItem == [name : CommandName, arg : Nat]
ReplyItem   == [status : {"OK", "ERROR", "SIZE"}, text : ReplyText, arg : Nat]
ByteItem    == [byte : Byte]
Item        == KeyItem \cup CommandItem \cup ReplyItem \cup ByteItem

-----------------------------------------------------------------------------
(* The key exchange.                                                       *)

(* What is on its way until the client has the server's key, and then that *)
(* the exchange is over on both sides.                                     *)
KeySays(k) == <<[public |-> PublicKey(k)]>>
KeyInv ==
  /\ pc \in {"connected", "key"} => secret = 0 /\ \A m \in Monitor : monitors[m] = "off"
  /\ pc = "connected" =>
       s_pc \in {"key", "closed"} /\ to_server = <<>> /\ to_client = <<>>
  /\ pc = "key" =>
       /\ private_key \in PrivateKey
       /\ \/ s_pc = "key" /\ to_server = KeySays(private_key) /\ to_client = <<>>
          \/ /\ s_pc \in {"idle", "closed"} /\ (s_pc = "idle" => to_server = <<>>)
             /\ \E k \in PrivateKey :
                  to_client = KeySays(k) /\ s_secret = SharedSecret(k, PublicKey(private_key))
          \/ s_pc = "closed" /\ to_client = <<>>
  /\ pc \notin {"connected", "key"} => s_pc # "key" /\ (secret # 0 => s_secret = secret)
  /\ pc \notin {"connected", "key", "exited", "killed"} => secret # 0

-----------------------------------------------------------------------------
(* Types.                                                                  *)

ClientTyped ==
  /\ pc \in {"connected", "key", "register", "registering", "prompt", "answer", "ready",
             "upload", "confirm", "header", "download", "decrypt", "exited", "killed"}
  /\ temp \in FileState /\ local \in FileState
  /\ secret \in 0 .. dh_p - 1
  /\ total \in Nat /\ read \in Nat /\ file_size \in Nat
  /\ monitors \in [Monitor -> {"off", "status", "GET_SCAN_STATUS", "result",
                               "GET_SCAN_RESULT", "ended"}]

(* No file is longer than it was announced, and only a transfer is shorter.*)
ServerTyped ==
  /\ received \in FileState /\ expected_size \in Nat
  /\ s_secret \in 0 .. dh_p - 1
  /\ s_pc \in {"key", "idle", "receive", "send", "closed"}
  /\ outgoing \in Seq(Byte) /\ Len(received.data) <= expected_size
  /\ (s_pc = "receive" => received.exists) /\ NoIncompleteFile
  /\ uploads \in Seq(Seq(Byte)) /\ Len(uploads) = Len(jobs)

StreamsTyped == to_server \in Seq(Item) /\ to_client \in Seq(Item)

TypeInv == ClientTyped /\ ServerTyped /\ StreamsTyped /\ Service!TypeOK

-----------------------------------------------------------------------------
(* What the server answers about a scan, and to a download.                *)
ScanQuery  == {"GET_SCAN_STATUS", "GET_SCAN_RESULT"}
About(job) == [status : {"OK", "ERROR"}, text : ReplyText \ {"READY"}, arg : {job}]
SizeReply  == Reply("SIZE", "BYTES", Len(EncryptFile(ServerFile, DerivedKey(s_secret))))

(* One round of receive_file: recv never takes more than is still missing, *)
(* and an error unlinks the file.                                          *)
TakesPart(n, whole) ==
  /\ n \in Nat \ {0} /\ n <= Len(to_server)
  /\ whole \in Seq(Byte) /\ whole = received.data \o Data(First(to_server, n))
  /\ Len(whole) = Len(received.data) + n /\ Len(whole) <= expected_size
  /\ to_server' = Rest(to_server, n) /\ received' = File(whole)
  /\ LET k == DerivedKey(s_secret) IN
     \/ /\ Len(whole) < expected_size /\ UNCHANGED <<s_pc, to_client, jobs, uploads>>
     \/ /\ Len(whole) = expected_size /\ Decrypts(whole, k)
        /\ s_pc' = "idle" /\ Service!Submit
        /\ uploads' = Append(uploads, DecryptFile(whole, k))
        /\ to_client' = Append(to_client, Reply("OK", "JOB", Len(jobs')))
     \/ /\ Len(whole) = expected_size /\ ~Decrypts(whole, k)
        /\ s_pc' = "idle" /\ UNCHANGED <<jobs, uploads>>
        /\ to_client' = Append(to_client, Reply("ERROR", "DECRYPT", 0))

(* What is left of a file may lack some of it, but when its length is      *)
(* right, so is every byte.                                                *)
Part(piece, whole) ==
  Len(piece) <= Len(whole) /\ (Len(piece) = Len(whole) => piece = whole)

-----------------------------------------------------------------------------
(* The conversation, as long as no command overlaps with a watched scan:   *)
(* at any time there is one reader, and one of three things between it and *)
(* the server -- its request, the reply to it, or the file that follows.   *)

(* The files as they are sent: encrypted.                                  *)
UsersCopy   == Encrypted(UserFile)
ServersCopy == Encrypted(ServerFile)

(* Nothing is under way.                                                   *)
Silent ==
  /\ to_client = <<>> /\ outgoing = <<>>
  /\ \/ s_pc = "closed"
     \/ s_pc = "idle" /\ to_server = <<>>

(* A command that waits for one of these replies.                          *)
Exchange(c, replies) ==
  \/ s_pc = "idle" /\ to_server = <<c>> /\ to_client = <<>>
  \/ s_pc = "idle" /\ to_server = <<>> /\ \E r \in replies : to_client = <<r>>
  \/ s_pc = "closed" /\ (to_client = <<>> \/ \E r \in replies : to_client = <<r>>)

Registering == Exchange(Command("REGISTER_CLIENT", 0), {Reply("OK", "REGISTERED", 0)})

(* The user thinks, and at most one detached thread asks about its scan.   *)
AtPrompt ==
  \/ Silent
  \/ \E m \in Running :
       monitors[m] \in ScanQuery /\ Exchange(Command(monitors[m], 1), About(1))

Answering ==
  \E name \in ScanQuery, job \in 1 .. MAX_JOBS :
    command = Command(name, job) /\ Exchange(command, About(job))

(* The upload was announced: it is refused, or the server is ready.        *)
Announced ==
  /\ temp = File(UsersCopy)
  /\ \/ Exchange(Command("UPLOAD_FILE", Len(UsersCopy)), {Refused})
     \/ /\ s_pc = "receive" /\ received.data = <<>> /\ expected_size = Len(UsersCopy)
        /\ to_server = <<>> /\ to_client = <<Ready>>
     \/ s_pc = "closed" /\ to_client = <<Ready>>

(* The upload so far, with what is still to be sent.                       *)
Incoming(rest) ==
  /\ s_pc = "receive" /\ expected_size = Len(UsersCopy)
  /\ Part((received.data \o Data(to_server)) \o rest, UsersCopy)

Uploading ==
  /\ temp = File(UsersCopy) /\ total <= read /\ read < Len(UsersCopy) /\ to_client = <<>>
  /\ s_pc = "closed" \/ Incoming(Rest(UsersCopy, read))

(* All was sent: the rest of the file or the confirmation is on its way.   *)
Confirming ==
  \/ Incoming(<<>>) /\ to_client = <<>>
  \/ /\ s_pc = "closed" \/ (s_pc = "idle" /\ to_server = <<>>)
     /\ \E n \in 0 .. MAX_JOBS : to_client = <<Reply("OK", "JOB", n)>>
  \/ s_pc = "closed" /\ to_client = <<>>

(* The download, with its header and without.                              *)
Sending == s_pc = "closed" \/ (s_pc \in {"idle", "send"} /\ to_server = <<>>)

(* The header stands before the bytes that were sent with it.              *)
Announcing ==
  \/ s_pc = "idle" /\ to_server = <<Command("DOWNLOAD_FILE", 0)>> /\ to_client = <<>>
  \/ s_pc = "closed" /\ to_client = <<>>
  \/ /\ Sending /\ to_client # <<>>
     /\ to_client[1] = Reply("SIZE", "BYTES", Len(ServersCopy))
     /\ Part(Data(Rest(to_client, 1)) \o outgoing, ServersCopy)

(* What was written, what was sent and what is still to be sent.           *)
Downloading ==
  /\ Sending
  /\ file_size = Len(ServersCopy) /\ total = Len(temp.data) /\ total < file_size
  /\ Part((temp.data \o Data(to_client)) \o outgoing, ServersCopy)

(* Where the client is tells how far the conversation is.                 *)
Phase ==
  /\ pc = "register"    => Silent
  /\ pc = "registering" => Registering
  /\ pc \in {"prompt", "exited", "killed"} => AtPrompt
  /\ pc = "answer"      => Answering
  /\ pc = "ready"       => Announced
  /\ pc = "upload"      => Uploading
  /\ pc = "confirm"     => Confirming
  /\ pc = "header"      => Announcing
  /\ pc = "download"    => Downloading
  /\ pc = "decrypt"     => Silent /\ temp = File(ServersCopy)

(* Two threads never read at the same time.                                *)
OneReader ==
  /\ \A m1, m2 \in Running : m1 = m2
  /\ Running # {} => pc \in {"prompt", "exited", "killed"}

Counters ==
  /\ pc \notin {"upload", "download"} => total = 0
  /\ pc # "upload" => read = 0
  /\ s_pc = "send" <=> outgoing # <<>>

Conversation == Phase /\ OneReader /\ Counters /\ UploadIntact

(* All that the conversation speaks about.                                 *)
talk == <<to_server, to_client, pc, secret, command, temp, total, read, file_size, monitors,
          overlapped, s_pc, received, expected_size, outgoing, uploads>>

ConvInv == ~overlapped => Conversation
=============================================================================
