------------------------ MODULE ClientSessionProofs ------------------------
(***************************************************************************)
(* Theorems about ClientSession, for every file, key, buffer length and    *)
(* number of threads, commands and jobs: the temporary files, the key      *)
(* exchange, the types, and -- as long as no command overlaps with a       *)
(* watched scan -- who hears which reply and what becomes of the files.    *)
(*                                                                         *)
(* Four invariants of SessionInvariants carry them, one after the other:   *)
(* KeyInv needs only that powers of g commute, TypeInv that the exchange   *)
(* is over when the server reads commands, ConvInv both of them; TempInv   *)
(* stands alone.                                                           *)
(***************************************************************************)
EXTENDS SessionInvariants, EncryptionProofs

(* The temporary file belongs to a transfer, or to a process that died.    *)
TempInv == pc \notin {"ready", "upload", "download", "decrypt", "killed"} => ~temp.exists

-----------------------------------------------------------------------------
(* The temporary file.                                                     *)

(* Every call of the main thread: only an upload or a download makes the   *)
(* file, and it leaves its loop without it.                                *)
LEMMA ClientRemoves ==
  ASSUME TempInv, Connect \/ UserGives \/ ClientWaits
  PROVE  TempInv'
<1>. USE DEF TempInv, Goes, Outcome
<1>1. CASE Connect
  BY <1>1 DEF Connect, KeySend, KeyReceive, Register, Registered, transfer
<1>2. CASE Quit \/ AskAboutJob \/ DownloadCommand
  BY <1>2 DEF Quit, AskAboutJob, DownloadCommand, Ask, transfer
<1>3. CASE UploadCommand
  BY <1>3 DEF UploadCommand, Ask, NoFile
<1>4. CASE HearAnswer \/ HearConfirmation
  BY <1>4 DEF HearAnswer, HearConfirmation, Return, transfer
<1>5. CASE HearReady
  BY <1>5 DEF HearReady, UploadReady, Return, NoFile
<1>6. CASE UploadData
  BY <1>6 DEF UploadData, NoFile
<1>7. CASE HearHeader
  BY <1>7 DEF HearHeader, Return
<1>8. CASE DownloadData
  BY <1>8 DEF DownloadData, DownloadUntil, Return, NoFile
<1>9. CASE DownloadDecrypt
  BY <1>9 DEF DownloadDecrypt, Return, NoFile
<1>. QED
  BY <1>1, <1>2, <1>3, <1>4, <1>5, <1>6, <1>7, <1>8, <1>9 DEF UserGives, ClientWaits

(* The detached threads and the server have nothing to do with it.         *)
LEMMA OthersLeaveTemp ==
  ASSUME TempInv,
         \/ \E m \in Monitor : MonitorAsk(m) \/ MonitorHear(m)
         \/ Server \/ ServerWorks \/ ServerCloses \/ UNCHANGED vars
  PROVE  TempInv'
<1>. USE DEF TempInv, transfer
<1>1. ASSUME NEW m \in Monitor, MonitorAsk(m) PROVE TempInv'
  BY <1>1 DEF MonitorAsk, Goes, Outcome
<1>2. ASSUME NEW m \in Monitor, MonitorHear(m) PROVE TempInv'
  BY <1>2 DEF MonitorHear, MonitorHearThen
<1>3. CASE Server
  BY <1>3 DEF Server, ServerKey, ServerCommand, ServerReceive, ReceiveFile, ServerSend
<1>4. CASE ServerWorks \/ ServerCloses
  BY <1>4 DEF ServerWorks, ServerCloses
<1>5. CASE UNCHANGED vars
  BY <1>5 DEF vars
<1>. QED
  BY <1>1, <1>2, <1>3, <1>4, <1>5

(* Whatever way a command ends -- refused, failed, cut off, or done -- its *)
(* temporary file is gone when the user is asked for the next one.         *)
THEOREM TempFilesRemoved == Spec => []TempRemoved
<1>1. Init => TempInv
  BY DEF Init, TempInv, NoFile
<1>2. TempInv /\ [Next]_vars => TempInv'
  BY ClientRemoves, OthersLeaveTemp DEF Next, Terminated
<1>3. TempInv => TempRemoved
  BY DEF TempInv, TempRemoved
<1>. QED
  BY <1>1, <1>2, <1>3, PTL DEF Spec

-----------------------------------------------------------------------------
(* What is in the streams.                                                 *)

(* Which kind of item it is, its fields tell.                              *)
LEMMA ItemKinds ==
  ASSUME NEW item \in Item
  PROVE  /\ "public" \in DOMAIN item => item \in KeyItem
         /\ "name" \in DOMAIN item => item \in CommandItem
         /\ IsReply(item) => item \in ReplyItem
         /\ "byte" \in DOMAIN item => item \in ByteItem
<1>1. CASE item \in KeyItem
  BY <1>1 DEF KeyItem, IsReply
<1>2. CASE item \in CommandItem
  BY <1>2 DEF CommandItem, IsReply
<1>3. CASE item \in ReplyItem
  BY <1>3 DEF ReplyItem, IsReply
<1>4. CASE item \in ByteItem
  BY <1>4 DEF ByteItem, IsReply
<1>. QED
  BY <1>1, <1>2, <1>3, <1>4 DEF Item

(* A command is an item of a stream.                                       *)
LEMMA CommandTyped ==
  ASSUME NEW name \in CommandName, NEW arg \in Nat
  PROVE  Command(name, arg) \in Item
BY DEF Command, CommandItem, Item

(* And so is a reply.                                                      *)
LEMMA ReplyTyped ==
  ASSUME NEW status \in {"OK", "ERROR", "SIZE"}, NEW text \in ReplyText, NEW arg \in Nat
  PROVE  Reply(status, text, arg) \in Item /\ IsReply(Reply(status, text, arg))
BY DEF Reply, ReplyItem, Item, IsReply

-----------------------------------------------------------------------------
(* Sequences.                                                              *)

(* What a recv takes of a stream, and what it leaves.                      *)
LEMMA FirstAndRest ==
  ASSUME NEW S, NEW s \in Seq(S), NEW n \in Nat, n <= Len(s)
  PROVE  /\ First(s, n) \in Seq(S) /\ Len(First(s, n)) = n
         /\ Rest(s, n) \in Seq(S) /\ Len(Rest(s, n)) = Len(s) - n
         /\ First(s, n) \o Rest(s, n) = s
         /\ \A i \in 1 .. n : First(s, n)[i] = s[i]
<1>1. Len(s) \in Nat /\ \A i \in 1 .. Len(s) : s[i] \in S
  BY LenProperties, ElementOfSeq
<1>2. /\ First(s, n) \in Seq(S) /\ Len(First(s, n)) = n
      /\ \A i \in 1 .. n : First(s, n)[i] = s[i]
  BY <1>1, SubSeqProperties DEF First
<1>3. Rest(s, n) \in Seq(S) /\ Len(Rest(s, n)) = Len(s) - n
  <2>1. /\ SubSeq(s, n + 1, Len(s)) \in Seq(S)
        /\ Len(SubSeq(s, n + 1, Len(s))) = Len(s) - (n + 1) + 1
    BY <1>1, SubSeqProperties
  <2>. QED
    BY <1>1, <2>1 DEF Rest
<1>4. First(s, n) \o Rest(s, n) = s
  <2>1. /\ 1 \in 1 .. Len(s) + 1 /\ n \in 1 - 1 .. Len(s) /\ Len(s) \in n .. Len(s)
    BY <1>1
  <2>2. SubSeq(s, 1, n) \o SubSeq(s, n + 1, Len(s)) = SubSeq(s, 1, Len(s))
    BY <2>1, ConcatAdjacentSubSeq
  <2>. QED
    BY <2>2, SubSeqFull DEF First, Rest
<1>. QED
  BY <1>2, <1>3, <1>4

(* Nothing is left of a stream that is read to its end.                    *)
LEMMA RestEnds ==
  ASSUME NEW S, NEW s \in Seq(S)
  PROVE  Rest(s, 0) = s /\ Rest(s, Len(s)) = <<>>
<1>1. Len(s) \in Nat
  BY LenProperties
<1>2. Rest(s, Len(s)) \in Seq(S) /\ Len(Rest(s, Len(s))) = 0
  BY <1>1, FirstAndRest
<1>3. Rest(s, Len(s)) = <<>>
  BY <1>2, EmptySeq
<1>. QED
  BY <1>3, SubSeqFull DEF Rest

(* A stream of one item: all of it is taken, or nothing.                   *)
LEMMA RestOfOne == \A x : Rest(<<x>>, 1) = <<>> /\ Rest(<<x>>, 0) = <<x>>
<1>. SUFFICES ASSUME NEW x PROVE Rest(<<x>>, 1) = <<>> /\ Rest(<<x>>, 0) = <<x>>
  OBVIOUS
<1>1. <<x>> \in Seq({x}) /\ Len(<<x>>) = 1
  OBVIOUS
<1>. QED
  BY <1>1, RestEnds

(* An item is appended to a stream.                                        *)
LEMMA Appended ==
  ASSUME NEW S, NEW s \in Seq(S), NEW x \in S
  PROVE  Append(s, x) \in Seq(S) /\ Append(s, x) # <<>> /\ (s = <<>> => Append(s, x) = <<x>>)
<1>1. Append(s, x) \in Seq(S) /\ Append(s, x) # <<>>
  BY AppendProperties
<1>2. Append(s, x) = s \o <<x>> /\ <<x>> \in Seq(S)
  BY AppendIsConcat
<1>. QED
  BY <1>1, <1>2, ConcatEmptySeq

(* A byte per item.                                                        *)
LEMMA DataTyped ==
  ASSUME NEW s \in Seq(Item)
  PROVE  /\ Data(s) \in Seq(Byte) /\ Len(Data(s)) = Len(s)
         /\ \A i \in 1 .. Len(s) :
              Data(s)[i] = IF "byte" \in DOMAIN s[i] THEN s[i].byte ELSE Text
<1>. DEFINE at(i) == IF "byte" \in DOMAIN s[i] THEN s[i].byte ELSE Text
            d == [i \in 1 .. Len(s) |-> at(i)]
<1>1. Len(s) \in Nat /\ DOMAIN s = 1 .. Len(s)
  BY LenProperties
<1>2. ASSUME NEW i \in 1 .. Len(s) PROVE at(i) \in Byte
  <2>1. s[i] \in Item
    BY ElementOfSeq
  <2>. QED
    BY <2>1, ItemKinds, SessionAssumption DEF ByteItem
<1>. HIDE DEF at
<1>3. d \in Seq(Byte) /\ DOMAIN d = 1 .. Len(s)
  BY <1>1, <1>2
<1>4. Data(s) = d
  BY <1>1 DEF Data, at
<1>5. Len(d) = Len(s)
  <2>. HIDE DEF d
  <2>. QED
    BY <1>1, <1>3, LenProperties
<1>6. \A i \in 1 .. Len(s) : d[i] = at(i)
  OBVIOUS
<1>. QED
  BY <1>3, <1>4, <1>5, <1>6 DEF at

(* Items taken one after the other give the bytes one after the other.     *)
LEMMA DataConcat ==
  ASSUME NEW s \in Seq(Item), NEW t \in Seq(Item)
  PROVE  Data(s \o t) = Data(s) \o Data(t)
<1>. DEFINE u == s \o t
            a == Data(s)
            b == Data(t)
<1>1. /\ u \in Seq(Item) /\ Len(u) = Len(s) + Len(t)
      /\ \A i \in 1 .. Len(s) + Len(t) : u[i] = IF i <= Len(s) THEN s[i] ELSE t[i - Len(s)]
      /\ Len(s) \in Nat /\ Len(t) \in Nat
  BY ConcatProperties, LenProperties
<1>. HIDE DEF u
<1>2. /\ Data(u) \in Seq(Byte) /\ Len(Data(u)) = Len(s) + Len(t)
      /\ \A i \in 1 .. Len(s) + Len(t) :
           Data(u)[i] = IF "byte" \in DOMAIN u[i] THEN u[i].byte ELSE Text
  BY <1>1, DataTyped
<1>3. /\ a \in Seq(Byte) /\ Len(a) = Len(s)
      /\ \A i \in 1 .. Len(s) : a[i] = IF "byte" \in DOMAIN s[i] THEN s[i].byte ELSE Text
  BY DataTyped
<1>4. /\ b \in Seq(Byte) /\ Len(b) = Len(t)
      /\ \A i \in 1 .. Len(t) : b[i] = IF "byte" \in DOMAIN t[i] THEN t[i].byte ELSE Text
  BY DataTyped
<1>. HIDE DEF a, b
<1>5. /\ a \o b \in Seq(Byte) /\ Len(a \o b) = Len(s) + Len(t)
      /\ \A i \in 1 .. Len(s) + Len(t) :
           (a \o b)[i] = IF i <= Len(s) THEN a[i] ELSE b[i - Len(s)]
  <2>1. a \in Seq(Byte) /\ Len(a) = Len(s) /\ b \in Seq(Byte) /\ Len(b) = Len(t)
    BY <1>3, <1>4
  <2>2. /\ a \o b \in Seq(Byte) /\ Len(a \o b) = Len(a) + Len(b)
        /\ \A i \in 1 .. Len(a) + Len(b) :
             (a \o b)[i] = IF i <= Len(a) THEN a[i] ELSE b[i - Len(a)]
    BY <2>1, ConcatProperties
  <2>. QED
    BY <2>1, <2>2, Zenon
<1>6. \A i \in 1 .. Len(s) + Len(t) : Data(u)[i] = (a \o b)[i]
  <2>. SUFFICES ASSUME NEW i \in 1 .. Len(s) + Len(t) PROVE Data(u)[i] = (a \o b)[i]
    OBVIOUS
  <2>1. CASE i <= Len(s)
    <3>1. i \in 1 .. Len(s) /\ u[i] = s[i] /\ (a \o b)[i] = a[i]
      BY <1>1, <1>5, <2>1
    <3>. QED
      BY <1>2, <1>3, <3>1, Zenon
  <2>2. CASE ~(i <= Len(s))
    <3>1. i - Len(s) \in 1 .. Len(t) /\ u[i] = t[i - Len(s)] /\ (a \o b)[i] = b[i - Len(s)]
      BY <1>1, <1>5, <2>2
    <3>. QED
      BY <1>2, <1>4, <3>1, Zenon
  <2>. QED
    BY <2>1, <2>2
<1>7. Data(u) = a \o b
  BY <1>2, <1>5, <1>6, SeqEqual
<1>. QED
  BY <1>7 DEF u, a, b

(* The bytes of a file, sent and received.                                 *)
LEMMA BytesTyped ==
  ASSUME NEW data \in Seq(Byte)
  PROVE  Bytes(data) \in Seq(Item) /\ Len(Bytes(data)) = Len(data) /\ Data(Bytes(data)) = data
<1>. DEFINE b == [i \in 1 .. Len(data) |-> [byte |-> data[i]]]
<1>1. Len(data) \in Nat /\ DOMAIN data = 1 .. Len(data)
      /\ \A i \in 1 .. Len(data) : data[i] \in Byte
  BY LenProperties, ElementOfSeq
<1>2. \A i \in 1 .. Len(data) : [byte |-> data[i]] \in Item
  BY <1>1 DEF ByteItem, Item
<1>3. b \in Seq(Item) /\ DOMAIN b = 1 .. Len(data)
      /\ \A i \in 1 .. Len(data) : b[i] = [byte |-> data[i]]
  BY <1>1, <1>2
<1>4. Bytes(data) = b
  BY <1>1 DEF Bytes
<1>. HIDE DEF b
<1>5. Len(b) = Len(data)
  BY <1>1, <1>3, LenProperties
<1>6. Data(b) \in Seq(Byte) /\ Len(Data(b)) = Len(data)
      /\ \A i \in 1 .. Len(data) :
           Data(b)[i] = IF "byte" \in DOMAIN b[i] THEN b[i].byte ELSE Text
  BY <1>3, <1>5, DataTyped
<1>7. \A i \in 1 .. Len(data) : Data(b)[i] = data[i]
  BY <1>3, <1>6
<1>8. Data(b) = data
  BY <1>6, <1>7, SeqEqual
<1>. QED
  BY <1>3, <1>4, <1>5, <1>8

(* What a send is given: the beginning of what there is to send.           *)
LEMMA BufferTyped ==
  ASSUME NEW data \in Seq(Byte)
  PROVE  \E c \in Nat : /\ c <= Len(data) /\ Buffer(data) = First(data, c)
                        /\ Len(Buffer(data)) = c /\ (data # <<>> => c >= 1)
<1>. DEFINE c == IF Len(data) < BUFFER_SIZE THEN Len(data) ELSE BUFFER_SIZE
<1>1. Len(data) \in Nat /\ (data # <<>> => Len(data) >= 1)
  BY LenProperties, EmptySeq
<1>2. c \in Nat /\ c <= Len(data) /\ (data # <<>> => c >= 1)
  BY <1>1, CipherAssumption
<1>3. Buffer(data) = First(data, c)
  BY DEF Buffer
<1>. HIDE DEF c
<1>4. Len(First(data, c)) = c
  BY <1>2, FirstAndRest
<1>. QED
  BY <1>2, <1>3, <1>4

-----------------------------------------------------------------------------
(* The files on their way.                                                 *)

(* What encrypt_file writes are bytes, and never none: there is the IV.    *)
LEMMA EncryptTyped ==
  ASSUME NEW plain \in Seq(Byte), NEW s \in 0 .. dh_p - 1
  PROVE  /\ EncryptFile(plain, DerivedKey(s)) \in Seq(Byte)
         /\ EncryptFile(plain, DerivedKey(s)) # <<>>
<1>. DEFINE k == DerivedKey(s)
            d == XorBuffers(plain, k, BUFFER_SIZE)
            v == k.iv
<1>1. k \in CryptoKey
  BY SessionAssumption
<1>. HIDE DEF k
<1>2. v \in Seq(Byte) /\ Len(v) = IV_LENGTH /\ IV_LENGTH \in Nat \ {0}
  <2>1. v \in [1 .. IV_LENGTH -> Byte] /\ IV_LENGTH \in Nat \ {0}
    BY <1>1, CipherAssumption DEF CryptoKey
  <2>. HIDE DEF v
  <2>2. v \in Seq(Byte)
    BY <2>1
  <2>. QED
    BY <2>1, <2>2, LenProperties
<1>3. d \in Seq(Byte) /\ Len(d) \in Nat
  BY <1>1, BuffersTyped, CipherAssumption, LenProperties
<1>. HIDE DEF v, d
<1>4. v \o d \in Seq(Byte) /\ Len(v \o d) = Len(v) + Len(d)
  BY <1>2, <1>3, ConcatProperties
<1>5. v \o d # <<>>
  BY <1>2, <1>3, <1>4, EmptySeq
<1>. QED
  BY <1>4, <1>5 DEF EncryptFile, k, v, d

(* What decrypt_file writes are bytes, even if it fails.                   *)
LEMMA DecryptTyped ==
  ASSUME NEW cipher \in Seq(Byte), NEW s \in 0 .. dh_p - 1
  PROVE  DecryptFile(cipher, DerivedKey(s)) \in Seq(Byte)
<1>. DEFINE k == DerivedKey(s)
<1>1. k \in CryptoKey
  BY SessionAssumption
<1>. HIDE DEF k
<1>2. CASE Decrypts(cipher, k)
  <2>1. Len(cipher) \in Nat /\ Len(cipher) >= IV_LENGTH /\ IV_LENGTH \in Nat
    BY <1>2, LenProperties, CipherAssumption DEF Decrypts
  <2>2. Body(cipher) = Rest(cipher, IV_LENGTH)
    BY DEF Body, Rest
  <2>3. Body(cipher) \in Seq(Byte)
    BY <2>1, <2>2, FirstAndRest
  <2>4. XorBuffers(Body(cipher), k, BUFFER_SIZE) \in Seq(Byte)
    BY <1>1, <2>3, BuffersTyped, CipherAssumption
  <2>. QED
    BY <1>2, <2>4 DEF DecryptFile, k
<1>3. CASE ~Decrypts(cipher, k)
  BY <1>3 DEF DecryptFile, k
<1>. QED
  BY <1>2, <1>3

-----------------------------------------------------------------------------
(* The key exchange.                                                       *)

(* The client draws a key.                                                 *)
LEMMA KeySendKeeps == KeyInv /\ KeySend => KeyInv'
<1>. SUFFICES ASSUME KeyInv, KeySend PROVE KeyInv'
  OBVIOUS
<1>1. /\ pc = "connected" /\ s_pc \in {"key", "closed"} /\ to_server = <<>> /\ to_client = <<>>
      /\ secret = 0 /\ \A m \in Monitor : monitors[m] = "off"
  BY DEF KeyInv, KeySend
<1>2. PICK k \in PrivateKey, outcome \in Outcome :
        /\ private_key' = k
        /\ ClientSends(KeySays(k), outcome)
        /\ Goes(outcome, "key", "exited")
  BY DEF KeySend, KeySays
<1>3. UNCHANGED <<to_client, secret, monitors, s_pc>>
  BY DEF KeySend, server
<1>4. <<>> \o KeySays(k) = KeySays(k)
  <2>1. KeySays(k) \in Seq({[public |-> PublicKey(k)]})
    BY DEF KeySays
  <2>. QED
    BY <2>1, ConcatEmptySeq
<1>5. CASE s_pc = "closed"
  BY <1>1, <1>2, <1>3, <1>5 DEF KeyInv, Goes, Outcome
<1>6. CASE s_pc = "key"
  <2>1. outcome = "sent" /\ to_server' = KeySays(k)
    BY <1>1, <1>2, <1>4, <1>6 DEF ClientSends, ServerGone
  <2>2. pc' = "key"
    BY <1>2, <2>1 DEF Goes
  <2>. QED
    BY <1>1, <1>2, <1>3, <1>6, <2>1, <2>2 DEF KeyInv
<1>. QED
  BY <1>1, <1>5, <1>6

(* The client computes the secret its server has: the powers of g commute. *)
LEMMA KeyReceiveKeeps == KeyInv /\ KeyReceive => KeyInv'
<1>. SUFFICES ASSUME KeyInv, KeyReceive PROVE KeyInv'
  OBVIOUS
<1>1. /\ pc = "key" /\ secret = 0 /\ private_key \in PrivateKey
      /\ UNCHANGED <<s_pc, s_secret>>
  BY DEF KeyInv, KeyReceive, server
<1>2. PICK n \in Available(to_client, ServerGone, 1) :
        \/ n = 1 /\ pc' = "register" /\ secret' = SharedSecret(private_key, to_client[1].public)
        \/ pc' = "exited" /\ UNCHANGED secret
  BY DEF KeyReceive
<1>3. s_pc # "key"
  BY <1>1, <1>2 DEF Available, KeyInv, ServerGone
<1>4. CASE pc' = "exited" /\ UNCHANGED secret
  BY <1>1, <1>3, <1>4 DEF KeyInv
<1>5. CASE n = 1 /\ pc' = "register" /\ secret' = SharedSecret(private_key, to_client[1].public)
  <2>1. to_client # <<>>
    BY <1>2, <1>5 DEF Available
  <2>2. PICK k \in PrivateKey :
          to_client = KeySays(k) /\ s_secret = SharedSecret(k, PublicKey(private_key))
    BY <1>1, <1>3, <2>1 DEF KeyInv
  <2>3. to_client[1].public = PublicKey(k)
    BY <2>2 DEF KeySays
  <2>4. k \in PrivateKeys /\ private_key \in PrivateKeys
    BY <1>1, SessionAssumption
  <2>5. SharedSecret(private_key, PublicKey(k)) = SharedSecret(k, PublicKey(private_key))
    BY <2>4, SharedSecretsAgree DEF SecretsAgree
  <2>6. secret' = s_secret
    BY <1>5, <2>2, <2>3, <2>5
  <2>7. secret' # 0
    <3>1. s_secret \in 1 .. dh_p - 1
      BY <2>2, <2>4, KeysTyped
    <3>. QED
      BY <2>6, <3>1
  <2>. QED
    BY <1>1, <1>3, <1>5, <2>6, <2>7 DEF KeyInv
<1>. QED
  BY <1>2, <1>4, <1>5

(* The server answers a key with a key.                                    *)
LEMMA ServerKeyKeeps == KeyInv /\ ServerKey => KeyInv'
<1>. SUFFICES ASSUME KeyInv, ServerKey PROVE KeyInv'
  OBVIOUS
<1>1. s_pc = "key" /\ UNCHANGED <<pc, private_key, secret, monitors>>
  BY DEF ServerKey, exchange
<1>2. PICK n \in Available(to_server, ClientGone, 1), k \in PrivateKey :
        /\ to_server' = Rest(to_server, n)
        /\ \/ /\ n = 1 /\ s_pc' = "idle"
              /\ to_client' = Append(to_client, [public |-> PublicKey(k)])
              /\ s_secret' = SharedSecret(k, to_server[1].public)
           \/ s_pc' = "closed" /\ UNCHANGED <<to_client, s_secret>>
  BY DEF ServerKey
<1>3. pc = "key" /\ to_server = KeySays(private_key) /\ to_client = <<>>
      /\ private_key \in PrivateKey /\ secret = 0 /\ \A m \in Monitor : monitors[m] = "off"
  BY <1>1, <1>2 DEF KeyInv, Available, ClientGone
<1>4. CASE s_pc' = "closed" /\ UNCHANGED <<to_client, s_secret>>
  BY <1>1, <1>3, <1>4 DEF KeyInv
<1>5. CASE /\ n = 1 /\ s_pc' = "idle"
           /\ to_client' = Append(to_client, [public |-> PublicKey(k)])
           /\ s_secret' = SharedSecret(k, to_server[1].public)
  <2>1. to_client' = KeySays(k)
    <3>. DEFINE x == [public |-> PublicKey(k)]
    <3>. HIDE DEF x
    <3>1. Append(<<>>, x) = <<x>>
      <4>1. <<>> \in Seq({x})
        OBVIOUS
      <4>. QED
        BY <4>1, Appended
    <3>. QED
      BY <1>3, <1>5, <3>1 DEF KeySays, x
  <2>2. s_secret' = SharedSecret(k, PublicKey(private_key))
    BY <1>3, <1>5 DEF KeySays
  <2>3. to_server' = <<>>
    BY <1>2, <1>3, <1>5, RestOfOne DEF KeySays
  <2>. QED
    BY <1>1, <1>3, <1>5, <2>1, <2>2, <2>3 DEF KeyInv
<1>. QED
  BY <1>2, <1>4, <1>5

(* The rest of the client runs when the exchange is over.                  *)
LEMMA ClientLeavesKeys ==
  ASSUME KeyInv,
         \/ Register \/ Registered \/ UserGives \/ ClientWaits
         \/ \E m \in Monitor : MonitorAsk(m) \/ MonitorHear(m)
  PROVE  KeyInv'
<1>. DEFINE after == /\ pc \notin {"connected", "key"} /\ pc' \notin {"connected", "key"}
                     /\ (pc \in {"exited", "killed"} => pc' \in {"exited", "killed"})
                     /\ UNCHANGED <<secret, s_pc, s_secret>>
<1>1. after => KeyInv'
  BY DEF KeyInv
<1>2. CASE Register \/ Registered
  BY <1>1, <1>2 DEF Register, Registered, exchange, server, Goes, Outcome
<1>3. CASE UserGives
  BY <1>1, <1>3
     DEF UserGives, Quit, AskAboutJob, UploadCommand, DownloadCommand, Ask, exchange, server,
         Goes, Outcome
<1>4. CASE ClientWaits
  <2>1. CASE HearAnswer \/ HearReady \/ HearConfirmation
    BY <1>1, <2>1 DEF HearAnswer, HearReady, UploadReady, HearConfirmation, Return, exchange, server
  <2>2. CASE UploadData
    BY <1>1, <2>2 DEF UploadData, exchange, server, Goes, Outcome
  <2>3. CASE HearHeader \/ DownloadData \/ DownloadDecrypt
    BY <1>1, <2>3
       DEF HearHeader, DownloadData, DownloadUntil, DownloadDecrypt, Return, exchange, server
  <2>. QED
    BY <1>4, <2>1, <2>2, <2>3 DEF ClientWaits
<1>5. ASSUME NEW m \in Monitor, MonitorAsk(m) \/ MonitorHear(m) PROVE KeyInv'
  <2>1. pc \notin {"connected", "key"}
    BY <1>5 DEF MonitorAsk, MonitorHear, MonitorHearThen, KeyInv
  <2>. QED
    BY <1>1, <1>5, <2>1
       DEF MonitorAsk, MonitorHear, MonitorHearThen, ClientGone, exchange, server, Goes, Outcome
<1>. QED
  BY <1>2, <1>3, <1>4, <1>5

(* And so does the rest of the server: before, it has no command to read.  *)
LEMMA ServerLeavesKeys ==
  ASSUME KeyInv,
         \/ ServerCommand \/ ServerReceive \/ ServerSend \/ ServerWorks \/ ServerCloses
         \/ UNCHANGED vars
  PROVE  KeyInv'
<1>1. CASE ServerCommand \/ ServerReceive \/ ServerSend
  <2>1. UNCHANGED <<pc, private_key, secret, monitors, s_secret>> /\ s_pc' # "key"
        /\ s_pc \in {"idle", "receive", "send"}
    <3>1. CASE ServerCommand
      BY <3>1 DEF ServerCommand, exchange
    <3>2. CASE ServerReceive
      BY <3>2 DEF ServerReceive, ReceiveFile, exchange
    <3>3. CASE ServerSend
      BY <3>3 DEF ServerSend, exchange
    <3>. QED
      BY <1>1, <3>1, <3>2, <3>3
  <2>2. pc \notin {"connected", "key"}
    <3>1. CASE s_pc = "idle" /\ ServerCommand
      BY <3>1 DEF ServerCommand, KeyInv, Available, ClientGone
    <3>2. CASE s_pc \in {"receive", "send"}
      BY <3>2 DEF KeyInv
    <3>. QED
      BY <1>1, <2>1, <3>1, <3>2 DEF ServerReceive, ReceiveFile, ServerSend
  <2>. QED
    BY <2>1, <2>2 DEF KeyInv
<1>2. CASE ServerWorks
  BY <1>2 DEF ServerWorks, exchange, KeyInv
<1>3. CASE ServerCloses
  BY <1>3 DEF ServerCloses, exchange, KeyInv
<1>4. CASE UNCHANGED vars
  BY <1>4 DEF vars, exchange, server, KeyInv
<1>. QED
  BY <1>1, <1>2, <1>3, <1>4

(* The exchange, once begun, never gets out of step.                       *)
LEMMA KeysExchanged == Spec => []KeyInv
<1>1. Init => KeyInv
  BY DEF Init, KeyInv
<1>2. KeyInv /\ [Next]_vars => KeyInv'
  BY KeySendKeeps, KeyReceiveKeeps, ServerKeyKeeps, ClientLeavesKeys, ServerLeavesKeys
     DEF Next, Connect, Server, Terminated
<1>. QED
  BY <1>1, <1>2, PTL DEF Spec

(* Both sides compute the same secret, whatever keys they draw; a client   *)
(* that goes on has the secret of its server.                              *)
THEOREM SecretsShared == Spec => []KeysAgree
<1>1. KeyInv => KeysAgree
  BY SharedSecretsAgree DEF KeyInv, KeysAgree
<1>. QED
  BY <1>1, KeysExchanged, PTL

-----------------------------------------------------------------------------
(* Types.                                                                  *)

(* A file that exists.                                                     *)
LEMMA FileTyped ==
  ASSUME NEW data \in Seq(Byte)
  PROVE  File(data) \in FileState /\ File(data).exists /\ File(data).data = data
BY DEF File, FileState

(* A file that does not.                                                   *)
LEMMA NoFileTyped == NoFile \in FileState /\ ~NoFile.exists /\ NoFile.data = <<>>
BY DEF NoFile, FileState

(* What recv takes is part of what is there, and no more than was asked.   *)
LEMMA Received ==
  ASSUME NEW S, NEW s \in Seq(S), NEW gone, NEW limit \in Int,
         NEW n \in Available(s, gone, limit)
  PROVE  /\ n \in Nat /\ n <= Len(s)
         /\ n = 0 => s = <<>> /\ gone
         /\ n > 0 => n <= limit /\ s # <<>>
<1>1. Len(s) \in Nat /\ (s # <<>> => Len(s) >= 1) /\ (s = <<>> => Len(s) = 0)
  BY LenProperties, EmptySeq
<1>. QED
  BY <1>1 DEF Available

(* receive_response takes part of the stream; nothing only at its end.     *)
LEMMA Heard ==
  ASSUME to_client \in Seq(Item), NEW n \in 0 .. Len(to_client), Hears(n)
  PROVE  /\ n \in Nat /\ n <= Len(to_client)
         /\ n = 0 => to_client = <<>> /\ ServerGone
<1>1. Len(to_client) \in Int
  BY LenProperties
<1>. QED
  BY <1>1, Received DEF Hears

(* What the client sends, if anything, are items.                          *)
LEMMA Sends ==
  ASSUME to_server \in Seq(Item), NEW items \in Seq(Item), NEW outcome,
         ClientSends(items, outcome)
  PROVE  to_server' \in Seq(Item)
BY ConcatProperties DEF ClientSends

(* One command is a stream of its own.                                     *)
LEMMA OneCommand ==
  ASSUME NEW name \in CommandName, NEW arg \in Nat
  PROVE  <<Command(name, arg)>> \in Seq(Item)
<1>1. Command(name, arg) \in Item
  BY CommandTyped
<1>. QED
  BY <1>1

(* The file as it is sent.                                                 *)
LEMMA EncryptedTyped ==
  ASSUME secret \in 0 .. dh_p - 1, NEW plain \in {UserFile, ServerFile}
  PROVE  Encrypted(plain) \in Seq(Byte) /\ Encrypted(plain) # <<>> /\ Len(Encrypted(plain)) \in Nat
<1>1. Encrypted(plain) \in Seq(Byte) /\ Encrypted(plain) # <<>>
  BY EncryptTyped, SessionAssumption DEF Encrypted
<1>. QED
  BY <1>1, LenProperties

(* What a round of the upload reads.                                       *)
LEMMA ChunkTyped ==
  ASSUME temp \in FileState, read \in Nat
  PROVE  /\ Buffer(Rest(temp.data, read)) \in Seq(Byte)
         /\ Len(Buffer(Rest(temp.data, read))) \in Nat
<1>1. temp.data \in Seq(Byte) /\ Len(temp.data) \in Nat
  BY LenProperties DEF FileState
<1>2. Rest(temp.data, read) \in Seq(Byte)
  <2>1. \A i \in 1 .. Len(temp.data) : temp.data[i] \in Byte
    BY <1>1, ElementOfSeq
  <2>2. \A i \in read + 1 .. Len(temp.data) : temp.data[i] \in Byte
    BY <1>1, <2>1
  <2>. QED
    BY <1>1, <2>2, SubSeqProperties DEF Rest
<1>. DEFINE r == Rest(temp.data, read)
<1>. HIDE DEF r
<1>3. PICK c \in Nat : c <= Len(r) /\ Buffer(r) = First(r, c)
  BY <1>2, BufferTyped DEF r
<1>4. First(r, c) \in Seq(Byte)
  BY <1>2, <1>3, FirstAndRest DEF r
<1>. QED
  BY <1>3, <1>4, LenProperties DEF r

(* connect_to_server.                                                      *)
LEMMA ConnectTyped ==
  ASSUME TypeInv, KeyInv', Connect
  PROVE  ClientTyped' /\ StreamsTyped' /\ UNCHANGED server
<1>. USE DEF TypeInv, ClientTyped, StreamsTyped, transfer, user
<1>1. CASE KeySend
  <2>1. PICK k \in PrivateKey, outcome \in Outcome :
          ClientSends(KeySays(k), outcome) /\ Goes(outcome, "key", "exited")
    BY <1>1 DEF KeySend, KeySays
  <2>2. KeySays(k) \in Seq(Item)
    <3>1. PublicKey(k) \in 1 .. dh_p - 1
      BY KeysTyped, SessionAssumption
    <3>2. [public |-> PublicKey(k)] \in Item
      BY <3>1 DEF Item, KeyItem
    <3>. QED
      BY <3>2 DEF KeySays
  <2>3. to_server' \in Seq(Item)
    BY <2>1, <2>2, Sends
  <2>. QED
    BY <1>1, <2>1, <2>3 DEF KeySend, Goes, Outcome
<1>2. CASE KeyReceive
  <2>1. PICK n \in Available(to_client, ServerGone, 1) :
          Takes(n) /\ (pc' = "register" \/ (pc' = "exited" /\ UNCHANGED secret))
    BY <1>2 DEF KeyReceive
  <2>2. to_client' \in Seq(Item)
    BY <2>1, Received, FirstAndRest DEF Takes
  <2>3. UNCHANGED server
    BY <1>2 DEF KeyReceive
  <2>4. secret' \in 0 .. dh_p - 1
    <3>1. s_secret' \in 0 .. dh_p - 1
      BY <2>3 DEF ServerTyped, server
    <3>. QED
      BY <2>1, <3>1 DEF KeyInv
  <2>. QED
    BY <1>2, <2>1, <2>2, <2>3, <2>4 DEF KeyReceive
<1>3. CASE Register
  <2>1. PICK outcome \in Outcome :
          /\ ClientSends(<<Command("REGISTER_CLIENT", 0)>>, outcome)
          /\ Goes(outcome, "registering", "exited")
    BY <1>3 DEF Register
  <2>2. to_server' \in Seq(Item)
    BY <2>1, OneCommand, Sends DEF CommandName
  <2>. QED
    BY <1>3, <2>1, <2>2 DEF Register, exchange, Goes, Outcome
<1>4. CASE Registered
  <2>1. PICK n \in 0 .. Len(to_client) : Hears(n) /\ Takes(n) /\ pc' \in {"prompt", "exited"}
    BY <1>4 DEF Registered
  <2>2. to_client' \in Seq(Item)
    BY <2>1, Heard, FirstAndRest DEF Takes
  <2>. QED
    BY <1>4, <2>1, <2>2 DEF Registered, exchange
<1>. QED
  BY <1>1, <1>2, <1>3, <1>4 DEF Connect

(* A command is given.                                                     *)
LEMMA AskTyped ==
  ASSUME TypeInv, NEW name \in CommandName, NEW arg \in Nat, NEW waits, NEW outcome \in Outcome,
         Ask(Command(name, arg), waits, outcome)
  PROVE  to_server' \in Seq(Item) /\ pc' \in {waits, "prompt", "killed"}
<1>1. to_server' \in Seq(Item)
  BY OneCommand, Sends DEF Ask, TypeInv, StreamsTyped
<1>. QED
  BY <1>1 DEF Ask, Goes, Outcome

(* The user gives a command, or leaves.                                    *)
LEMMA UserTyped ==
  ASSUME TypeInv, UserGives
  PROVE  ClientTyped' /\ StreamsTyped' /\ UNCHANGED server
<1>. USE DEF TypeInv, ClientTyped, StreamsTyped, transfer, user, exchange
<1>1. CASE Quit
  BY <1>1 DEF Quit
<1>2. CASE AskAboutJob
  <2>1. PICK name \in {"GET_SCAN_STATUS", "GET_SCAN_RESULT"}, job \in 1 .. MAX_JOBS,
             outcome \in Outcome : Ask(Command(name, job), "answer", outcome)
    BY <1>2 DEF AskAboutJob
  <2>2. name \in CommandName /\ job \in Nat
    BY DEF CommandName
  <2>3. to_server' \in Seq(Item) /\ pc' \in {"answer", "prompt", "killed"}
    BY <2>1, <2>2, AskTyped
  <2>. QED
    BY <1>2, <2>3 DEF AskAboutJob
<1>3. CASE UploadCommand
  <2>. DEFINE e == Encrypted(UserFile)
  <2>1. e \in Seq(Byte) /\ Len(e) \in Nat
    BY EncryptedTyped
  <2>2. PICK outcome \in Outcome :
          /\ Ask(Command("UPLOAD_FILE", Len(e)), "ready", outcome)
          /\ temp' \in {NoFile, File(e)}
    BY <1>3 DEF UploadCommand
  <2>. HIDE DEF e
  <2>3. to_server' \in Seq(Item) /\ pc' \in {"ready", "prompt", "killed"}
    BY <2>1, <2>2, AskTyped DEF CommandName
  <2>4. temp' \in FileState
    BY <2>1, <2>2, FileTyped, NoFileTyped
  <2>. QED
    BY <1>3, <2>3, <2>4 DEF UploadCommand
<1>4. CASE DownloadCommand
  <2>1. PICK outcome \in Outcome : Ask(Command("DOWNLOAD_FILE", 0), "header", outcome)
    BY <1>4 DEF DownloadCommand
  <2>2. to_server' \in Seq(Item) /\ pc' \in {"header", "prompt", "killed"}
    BY <2>1, AskTyped DEF CommandName
  <2>. QED
    BY <1>4, <2>2 DEF DownloadCommand
<1>. QED
  BY <1>1, <1>2, <1>3, <1>4 DEF UserGives

(* It waits for the answer.                                                *)
LEMMA WaitTyped ==
  ASSUME TypeInv, ClientWaits
  PROVE  ClientTyped' /\ StreamsTyped' /\ UNCHANGED server
<1>. USE DEF TypeInv, ClientTyped, StreamsTyped, transfer, user, exchange, Return
<1>0. ASSUME NEW n \in 0 .. Len(to_client), Hears(n), Takes(n)
      PROVE  to_client' \in Seq(Item)
  BY <1>0, Heard, FirstAndRest DEF Takes
<1>1. CASE HearAnswer
  BY <1>0, <1>1 DEF HearAnswer
<1>2. CASE HearReady
  <2>1. to_client' \in Seq(Item)
    BY <1>0, <1>2 DEF HearReady, UploadReady
  <2>2. temp' \in FileState /\ pc' \in {"upload", "prompt"}
    BY <1>2, NoFileTyped DEF HearReady, UploadReady
  <2>. QED
    BY <1>2, <2>1, <2>2 DEF HearReady, UploadReady
<1>3. CASE UploadData
  <2>. DEFINE chunk == Buffer(Rest(temp.data, read))
  <2>1. chunk \in Seq(Byte) /\ Len(chunk) \in Nat
    BY ChunkTyped
  <2>2. PICK outcome \in Outcome, n \in 1 .. Len(chunk) :
          /\ ClientSends(Bytes(First(chunk, n)), outcome)
          /\ \/ /\ total' = total + n /\ read' = read + Len(chunk)
                /\ UNCHANGED <<pc, command, temp>>
             \/ /\ total' = 0 /\ read' = 0
                /\ Goes(outcome, "confirm", "prompt")
                /\ temp' \in {temp, NoFile}
    BY <1>3 DEF UploadData
  <2>. HIDE DEF chunk
  <2>3. to_server' \in Seq(Item)
    <3>0. n \in Nat /\ n <= Len(chunk)
      BY <2>1
    <3>1. First(chunk, n) \in Seq(Byte)
      BY <2>1, <3>0, FirstAndRest
    <3>. QED
      BY <2>2, <3>1, BytesTyped, Sends
  <2>4. total' \in Nat /\ read' \in Nat /\ temp' \in FileState
        /\ pc' \in {pc, "confirm", "prompt", "killed"}
    BY <2>1, <2>2, NoFileTyped DEF Goes, Outcome
  <2>. QED
    BY <1>3, <2>3, <2>4 DEF UploadData
<1>4. CASE HearConfirmation
  <2>1. to_client' \in Seq(Item)
    BY <1>0, <1>4 DEF HearConfirmation
  <2>2. monitors' \in [Monitor -> {"off", "status", "GET_SCAN_STATUS", "result",
                                   "GET_SCAN_RESULT", "ended"}]
    BY <1>4 DEF HearConfirmation
  <2>. QED
    BY <1>4, <2>1, <2>2 DEF HearConfirmation
<1>5. CASE HearHeader
  <2>1. PICK n \in 0 .. Len(to_client) :
          /\ Hears(n) /\ Takes(n)
          /\ \/ /\ BeginsWith(First(to_client, n), "SIZE")
                /\ pc' = "download" /\ file_size' = to_client[1].arg /\ temp' = File(<<>>)
             \/ pc' = "prompt" /\ UNCHANGED <<file_size, temp>>
    BY <1>5 DEF HearHeader
  <2>2. to_client' \in Seq(Item)
    BY <1>0, <2>1
  <2>3. ASSUME BeginsWith(First(to_client, n), "SIZE") PROVE to_client[1].arg \in Nat
    <3>1. n \in Nat /\ n <= Len(to_client)
      BY <2>1, Heard
    <3>2. First(to_client, n) \in Seq(Item) /\ Len(First(to_client, n)) = n
          /\ \A i \in 1 .. n : First(to_client, n)[i] = to_client[i]
      BY <3>1, FirstAndRest
    <3>3. n >= 1
      BY <2>3, <3>1, <3>2, EmptySeq DEF BeginsWith
    <3>4. IsReply(to_client[1]) /\ to_client[1] \in Item
      BY <2>3, <3>1, <3>2, <3>3, ElementOfSeq DEF BeginsWith
    <3>. QED
      BY <3>4, ItemKinds DEF ReplyItem
  <2>4. file_size' \in Nat /\ temp' \in FileState /\ pc' \in {"download", "prompt"}
    <3>0. <<>> \in Seq(Byte)
      OBVIOUS
    <3>1. File(<<>>) \in FileState
      BY <3>0, FileTyped
    <3>. QED
      BY <2>1, <2>3, <3>1
  <2>. QED
    BY <1>5, <2>2, <2>4 DEF HearHeader
<1>6. CASE DownloadData
  <2>. DEFINE limit == IF file_size - total < BUFFER_SIZE THEN file_size - total ELSE BUFFER_SIZE
  <2>1. limit \in Int
    BY CipherAssumption
  <2>2. PICK n \in Available(to_client, ServerGone, limit) :
          /\ Takes(n)
          /\ \/ pc' = "prompt" /\ temp' = NoFile /\ total' = 0 /\ file_size' = 0
             \/ /\ temp' = File(temp.data \o Data(First(to_client, n)))
                /\ \/ total' = total + n /\ UNCHANGED <<pc, file_size>>
                   \/ total' = 0 /\ file_size' = 0 /\ pc' = "decrypt"
    BY <1>6 DEF DownloadData, DownloadUntil
  <2>. HIDE DEF limit
  <2>3. n \in Nat /\ n <= Len(to_client)
    BY <2>1, <2>2, Received
  <2>4. to_client' \in Seq(Item) /\ First(to_client, n) \in Seq(Item)
    BY <2>2, <2>3, FirstAndRest DEF Takes
  <2>5. temp.data \in Seq(Byte) /\ Data(First(to_client, n)) \in Seq(Byte)
    BY <2>4, DataTyped DEF FileState
  <2>6. File(temp.data \o Data(First(to_client, n))) \in FileState
    BY <2>5, ConcatProperties, FileTyped
  <2>7. temp' \in FileState /\ total' \in Nat /\ file_size' \in Nat
        /\ pc' \in {pc, "prompt", "decrypt"}
    BY <2>2, <2>3, <2>6, NoFileTyped
  <2>. QED
    BY <1>6, <2>4, <2>7 DEF DownloadData, DownloadUntil
<1>7. CASE DownloadDecrypt
  <2>1. temp.data \in Seq(Byte)
    BY DEF FileState
  <2>2. local' \in FileState
    BY <1>7, <2>1, DecryptTyped, FileTyped DEF DownloadDecrypt
  <2>. QED
    BY <1>7, <2>2, NoFileTyped DEF DownloadDecrypt
<1>. QED
  BY <1>1, <1>2, <1>3, <1>4, <1>5, <1>6, <1>7 DEF ClientWaits

(* The detached threads.                                                   *)
LEMMA MonitorTyped ==
  ASSUME TypeInv, NEW m \in Monitor, MonitorAsk(m) \/ MonitorHear(m)
  PROVE  ClientTyped' /\ StreamsTyped' /\ UNCHANGED server
<1>. USE DEF TypeInv, ClientTyped, StreamsTyped, transfer, user, exchange
<1>1. CASE MonitorAsk(m)
  <2>1. PICK name \in {"GET_SCAN_STATUS", "GET_SCAN_RESULT"}, outcome \in Outcome :
          /\ ClientSends(<<Command(name, 1)>>, outcome)
          /\ Goes(outcome, pc, pc)
          /\ monitors' = [monitors EXCEPT ![m] =
               CASE outcome = "sent" -> name
                 [] outcome # "sent" -> IF @ = "status" THEN "status" ELSE "ended"]
    BY <1>1 DEF MonitorAsk
  <2>2. to_server' \in Seq(Item)
    BY <2>1, OneCommand, Sends DEF CommandName
  <2>3. pc' \in {pc, "killed"}
    BY <2>1 DEF Goes, Outcome
  <2>4. monitors' \in [Monitor -> {"off", "status", "GET_SCAN_STATUS", "result",
                                   "GET_SCAN_RESULT", "ended"}]
    BY <2>1
  <2>. QED
    BY <1>1, <2>2, <2>3, <2>4 DEF MonitorAsk
<1>2. CASE MonitorHear(m)
  <2>1. to_client' \in Seq(Item)
    BY <1>2, Heard, FirstAndRest DEF MonitorHear, MonitorHearThen, Takes
  <2>2. monitors' \in [Monitor -> {"off", "status", "GET_SCAN_STATUS", "result",
                                   "GET_SCAN_RESULT", "ended"}]
    BY <1>2 DEF MonitorHear, MonitorHearThen
  <2>. QED
    BY <1>2, <2>1, <2>2 DEF MonitorHear, MonitorHearThen
<1>. QED
  BY <1>1, <1>2

-----------------------------------------------------------------------------
(* The scans.                                                              *)

(* The list of scans stays one.                                            *)
LEMMA JobsTyped == Service!TypeOK /\ (Service!Submit \/ Service!Work) => Service!TypeOK'
<1>. DEFINE S == Service!JobState
<1>. SUFFICES ASSUME Service!TypeOK, Service!Submit \/ Service!Work
              PROVE  jobs' \in Seq(S) /\ Len(jobs') <= MAX_JOBS
  BY DEF Service!TypeOK
<1>1. jobs \in Seq(S) /\ Len(jobs) <= MAX_JOBS /\ MAX_JOBS \in Nat
  BY SessionAssumption DEF Service!TypeOK
<1>2. CASE Service!Submit
  <2>1. Service!NewJob \in S
    BY DEF Service!NewJob, Service!JobState
  <2>2. Len(jobs) < MAX_JOBS /\ jobs' = Append(jobs, Service!NewJob)
    BY <1>2 DEF Service!Submit
  <2>. HIDE DEF S
  <2>3. Len(jobs) \in Nat
    BY <1>1, LenProperties
  <2>. QED
    BY <1>1, <2>1, <2>2, <2>3, AppendProperties
<1>3. CASE Service!Work
  <2>1. PICK i \in DOMAIN jobs : Service!TakeUp(i) \/ Service!Finish(i)
    BY <1>3 DEF Service!Work
  <2>2. i \in 1 .. Len(jobs) /\ jobs[i] \in S
    BY <1>1, <2>1, LenProperties, ElementOfSeq
  <2>3. \E job \in S : jobs' = [jobs EXCEPT ![i] = job]
    <3>1. CASE Service!TakeUp(i)
      <4>1. [jobs[i] EXCEPT !.status = "PROCESSING"] \in S
        BY <2>2, <3>1 DEF Service!TakeUp, Service!JobState
      <4>2. jobs' = [jobs EXCEPT ![i] = [jobs[i] EXCEPT !.status = "PROCESSING"]]
        BY <3>1 DEF Service!TakeUp
      <4>. QED
        BY <4>1, <4>2
    <3>2. CASE Service!Finish(i)
      <4>1. PICK verdict \in Service!Verdict :
              jobs' = [jobs EXCEPT ![i] = [status |-> "COMPLETED", result |-> verdict]]
        BY <3>2 DEF Service!Finish
      <4>2. [status |-> "COMPLETED", result |-> verdict] \in S
        BY DEF Service!JobState
      <4>. QED
        BY <4>1, <4>2
    <3>. QED
      BY <2>1, <3>1, <3>2
  <2>. HIDE DEF S
  <2>. QED
    BY <1>1, <2>2, <2>3, ExceptSeq
<1>. QED
  BY <1>2, <1>3

(* Taking up and finishing a scan changes no number of them.               *)
LEMMA WorkKeepsLength == jobs \in Seq(Service!JobState) /\ Service!Work => Len(jobs') = Len(jobs)
<1>. SUFFICES ASSUME jobs \in Seq(Service!JobState), Service!Work PROVE Len(jobs') = Len(jobs)
  OBVIOUS
<1>. DEFINE S == Service!JobState
<1>. HIDE DEF S
<1>1. jobs \in Seq(S)
  BY DEF S
<1>2. \E i \in DOMAIN jobs : \E job : jobs' = [jobs EXCEPT ![i] = job]
  BY DEF Service!Work, Service!TakeUp, Service!Finish
<1>. QED
  BY <1>1, <1>2

-----------------------------------------------------------------------------
(* What the server answers.                                                *)

(* What the server says about a scan names the scan, and is never READY.   *)
LEMMA JobAnswer ==
  ASSUME jobs \in Seq(Service!JobState), NEW name, NEW job
  PROVE  AboutJob(name, job) \in About(job)
<1>1. CASE job \notin DOMAIN jobs
  <2>1. "NOT_FOUND" \in ReplyText \ {"READY"}
    BY DEF ReplyText
  <2>. QED
    BY <1>1, <2>1 DEF AboutJob, About, Reply
<1>2. CASE job \in DOMAIN jobs
  <2>1. jobs[job] \in Service!JobState
    BY <1>2
  <2>2. \A j \in Service!JobState : j.status # "READY" /\ j.result # "READY"
    BY DEF Service!JobState, Service!Verdict
  <2>3. {jobs[job].status, jobs[job].result} \subseteq ReplyText
    BY <2>1, Zenon DEF ReplyText
  <2>4. jobs[job].status \in ReplyText \ {"READY"} /\ jobs[job].result \in ReplyText \ {"READY"}
    BY <2>1, <2>2, <2>3
  <2>. QED
    BY <1>2, <2>4 DEF AboutJob, About, Reply
<1>. QED
  BY <1>1, <1>2

(* One reply for each command.                                             *)
LEMMA AnswersAre ==
  ASSUME TypeInv, NEW item \in Item, NEW reply \in Answers(item)
  PROVE  \/ "name" \notin DOMAIN item /\ reply = Reply("ERROR", "UNKNOWN", 0)
         \/ /\ item \in CommandItem
            /\ \/ item.name = "REGISTER_CLIENT" /\ reply = Reply("OK", "REGISTERED", 0)
               \/ item.name = "UPLOAD_FILE" /\ reply \in {Ready, Refused}
               \/ item.name = "DOWNLOAD_FILE" /\ reply = SizeReply
               \/ item.name \in ScanQuery /\ reply \in About(item.arg)
<1>1. CASE "name" \notin DOMAIN item
  BY <1>1 DEF Answers
<1>2. CASE "name" \in DOMAIN item
  <2>1. item \in CommandItem /\ item.name \in CommandName
    BY <1>2, ItemKinds DEF CommandItem
  <2>2. CASE item.name = "REGISTER_CLIENT"
    BY <1>2, <2>1, <2>2, Zenon DEF Answers
  <2>3. CASE item.name = "UPLOAD_FILE"
    <3>1. reply \in {Refused} \cup (IF Len(jobs) < MAX_JOBS THEN {Ready} ELSE {})
      BY <1>2, <2>3, Zenon DEF Answers
    <3>. QED
      BY <2>1, <2>3, <3>1
  <2>4. CASE item.name = "DOWNLOAD_FILE"
    BY <1>2, <2>1, <2>4, Zenon DEF Answers, SizeReply
  <2>5. CASE item.name \in ScanQuery
    <3>1. reply = AboutJob(item.name, item.arg)
      <4>1. item.name \notin {"REGISTER_CLIENT", "UPLOAD_FILE", "DOWNLOAD_FILE"}
        BY <2>5 DEF ScanQuery
      <4>. QED
        BY <1>2, <4>1, Zenon DEF Answers
    <3>2. jobs \in Seq(Service!JobState)
      BY DEF TypeInv, Service!TypeOK
    <3>. QED
      BY <2>1, <2>5, <3>1, <3>2, JobAnswer
  <2>. QED
    BY <2>1, <2>2, <2>3, <2>4, <2>5 DEF CommandName, ScanQuery
<1>. QED
  BY <1>1, <1>2

(* What a reply makes the server do next is told by the reply.             *)
LEMMA AnswersTyped ==
  ASSUME TypeInv, NEW item \in Item, NEW reply \in Answers(item)
  PROVE  /\ reply \in Item
         /\ reply.text = "READY" => item.arg \in Nat
<1>1. \A t \in {"REGISTERED", "READY", "REFUSED", "UNKNOWN", "BYTES"} : t \in ReplyText
  BY DEF ReplyText
<1>2. CASE reply = Reply("ERROR", "UNKNOWN", 0)
  BY <1>1, <1>2, ReplyTyped DEF Reply
<1>3. CASE reply = Reply("OK", "REGISTERED", 0)
  BY <1>1, <1>3, ReplyTyped DEF Reply
<1>4. CASE item \in CommandItem /\ reply \in {Ready, Refused}
  BY <1>1, <1>4, ReplyTyped DEF Ready, Refused, CommandItem
<1>5. CASE reply = SizeReply
  <2>. DEFINE d == EncryptFile(ServerFile, DerivedKey(s_secret))
  <2>1. d \in Seq(Byte)
    BY EncryptTyped, SessionAssumption DEF TypeInv, ServerTyped
  <2>. HIDE DEF d
  <2>2. Len(d) \in Nat
    BY <2>1, LenProperties
  <2>3. reply = Reply("SIZE", "BYTES", Len(d))
    BY <1>5 DEF SizeReply, d
  <2>4. reply \in Item
    BY <1>1, <2>2, <2>3, ReplyTyped
  <2>. QED
    BY <2>3, <2>4 DEF Reply
<1>6. CASE item \in CommandItem /\ reply \in About(item.arg)
  <2>1. item.arg \in Nat
    BY <1>6 DEF CommandItem
  <2>2. reply \in ReplyItem /\ reply.text # "READY"
    BY <1>6, <2>1 DEF About, ReplyItem
  <2>. QED
    BY <2>2 DEF Item
<1>. QED
  BY <1>2, <1>3, <1>4, <1>5, <1>6, AnswersAre

(* perform_key_exchange of the server.                                     *)
LEMMA ServerKeyTyped ==
  ASSUME TypeInv, KeyInv, ServerKey
  PROVE  ServerTyped' /\ StreamsTyped'
<1>1. PICK n \in Available(to_server, ClientGone, 1), k \in PrivateKey :
        /\ to_server' = Rest(to_server, n)
        /\ \/ /\ n = 1 /\ s_pc' = "idle"
              /\ to_client' = Append(to_client, [public |-> PublicKey(k)])
              /\ s_secret' = SharedSecret(k, to_server[1].public)
           \/ s_pc' = "closed" /\ UNCHANGED <<to_client, s_secret>>
  BY DEF ServerKey
<1>2. to_server' \in Seq(Item)
  BY <1>1, Received, FirstAndRest DEF TypeInv, StreamsTyped
<1>3. pc = "key" /\ to_server = KeySays(private_key) /\ private_key \in PrivateKey
  BY <1>1 DEF KeyInv, Available, ClientGone, ServerKey
<1>4. PublicKey(k) \in 1 .. dh_p - 1
      /\ SharedSecret(k, PublicKey(private_key)) \in 1 .. dh_p - 1
  BY <1>3, KeysTyped, SessionAssumption
<1>5. to_server[1].public = PublicKey(private_key)
  BY <1>3 DEF KeySays
<1>6. [public |-> PublicKey(k)] \in Item
  BY <1>4 DEF Item, KeyItem
<1>7. to_client' \in Seq(Item) /\ s_secret' \in 0 .. dh_p - 1 /\ s_pc' \in {"idle", "closed"}
  <2>1. Append(to_client, [public |-> PublicKey(k)]) \in Seq(Item)
    BY <1>6, Appended DEF TypeInv, StreamsTyped
  <2>2. s_secret \in 0 .. dh_p - 1 /\ to_client \in Seq(Item)
    BY DEF TypeInv, ServerTyped, StreamsTyped
  <2>. QED
    BY <1>1, <1>4, <1>5, <2>1, <2>2
<1>8. UNCHANGED <<received, expected_size, outgoing, jobs, uploads>> /\ s_pc = "key"
  BY DEF ServerKey
<1>. QED
  BY <1>2, <1>7, <1>8 DEF TypeInv, ServerTyped, StreamsTyped, NoIncompleteFile

(* A command: a transfer begins with an empty file, or nothing changes.    *)
LEMMA CommandKeepsTypes ==
  ASSUME TypeInv, ServerCommand
  PROVE  ServerTyped' /\ StreamsTyped'
<1>1. PICK n \in Available(to_server, ClientGone, Len(to_server)) :
        /\ to_server' = Rest(to_server, n)
        /\ \/ /\ n = 0 /\ s_pc' = "closed"
              /\ UNCHANGED <<to_client, received, expected_size, outgoing>>
           \/ /\ n # 0
              /\ \E reply \in Answers(to_server[1]) :
                   /\ to_client' = Append(to_client, reply)
                   /\ \/ /\ reply.text = "READY" /\ s_pc' = "receive" /\ received' = File(<<>>)
                         /\ expected_size' = to_server[1].arg /\ UNCHANGED outgoing
                      \/ /\ s_pc' = "send" /\ UNCHANGED <<received, expected_size>>
                         /\ outgoing' = EncryptFile(ServerFile, DerivedKey(s_secret))
                      \/ UNCHANGED <<s_pc, received, expected_size, outgoing>>
  BY DEF ServerCommand
<1>2. /\ to_server \in Seq(Item) /\ to_client \in Seq(Item) /\ Len(to_server) \in Int
      /\ s_pc = "idle" /\ UNCHANGED <<s_secret, jobs, uploads>>
  BY LenProperties DEF TypeInv, StreamsTyped, ServerCommand
<1>3. n \in Nat /\ n <= Len(to_server) /\ to_server' \in Seq(Item)
      /\ (n > 0 => to_server # <<>>)
  BY <1>1, <1>2, Received, FirstAndRest
<1>4. CASE n = 0
  BY <1>1, <1>2, <1>3, <1>4 DEF TypeInv, ServerTyped, StreamsTyped, NoIncompleteFile
<1>5. CASE n # 0
  <2>1. to_server[1] \in Item
    BY <1>2, <1>3, <1>5, ElementOfSeq
  <2>2. PICK reply \in Answers(to_server[1]) :
          /\ to_client' = Append(to_client, reply)
          /\ \/ /\ reply.text = "READY" /\ s_pc' = "receive" /\ received' = File(<<>>)
                /\ expected_size' = to_server[1].arg /\ UNCHANGED outgoing
             \/ /\ s_pc' = "send" /\ UNCHANGED <<received, expected_size>>
                /\ outgoing' = EncryptFile(ServerFile, DerivedKey(s_secret))
             \/ UNCHANGED <<s_pc, received, expected_size, outgoing>>
    BY <1>1, <1>5
  <2>3. reply \in Item /\ (reply.text = "READY" => to_server[1].arg \in Nat)
    BY <2>1, AnswersTyped
  <2>4. to_client' \in Seq(Item)
    BY <1>2, <2>2, <2>3, Appended
  <2>5. CASE /\ reply.text = "READY" /\ s_pc' = "receive" /\ received' = File(<<>>)
             /\ expected_size' = to_server[1].arg /\ UNCHANGED outgoing
    <3>1. <<>> \in Seq(Byte) /\ Len(<<>>) = 0
      OBVIOUS
    <3>2. received' \in FileState /\ received'.exists /\ received'.data = <<>>
      BY <2>5, <3>1, FileTyped
    <3>3. Len(received'.data) <= expected_size' /\ expected_size' \in Nat
      BY <2>3, <2>5, <3>1, <3>2
    <3>. QED
      BY <1>2, <1>3, <2>4, <2>5, <3>2, <3>3
         DEF TypeInv, ServerTyped, StreamsTyped, NoIncompleteFile
  <2>6. CASE /\ s_pc' = "send" /\ UNCHANGED <<received, expected_size>>
             /\ outgoing' = EncryptFile(ServerFile, DerivedKey(s_secret))
    <3>1. outgoing' \in Seq(Byte)
      BY <2>6, EncryptTyped, SessionAssumption DEF TypeInv, ServerTyped
    <3>. QED
      BY <1>2, <1>3, <2>4, <2>6, <3>1 DEF TypeInv, ServerTyped, StreamsTyped, NoIncompleteFile
  <2>7. CASE UNCHANGED <<s_pc, received, expected_size, outgoing>>
    BY <1>2, <1>3, <2>4, <2>7 DEF TypeInv, ServerTyped, StreamsTyped, NoIncompleteFile
  <2>. QED
    BY <2>2, <2>5, <2>6, <2>7
<1>. QED
  BY <1>4, <1>5

(* What the reading of receive_file comes to.                              *)
LEMMA ReceiveRound ==
  ASSUME TypeInv, ServerReceive
  PROVE  /\ s_pc = "receive" /\ UNCHANGED <<pc, exchange, user, transfer, monitors>>
         /\ UNCHANGED <<s_secret, expected_size, outgoing>>
         /\ \/ /\ to_server' = to_server /\ s_pc' = "closed" /\ received' = NoFile
               /\ UNCHANGED <<to_client, jobs, uploads>>
            \/ \E n, whole : TakesPart(n, whole)
<1>. DEFINE limit == IF Remaining < BUFFER_SIZE THEN Remaining ELSE BUFFER_SIZE
            k     == DerivedKey(s_secret)
<1>1. /\ to_server \in Seq(Item) /\ received.data \in Seq(Byte) /\ expected_size \in Nat
      /\ Len(received.data) \in Nat /\ Len(received.data) <= expected_size
  BY LenProperties DEF TypeInv, StreamsTyped, ServerTyped, FileState
<1>2. limit \in Int /\ limit <= expected_size - Len(received.data)
  BY <1>1, CipherAssumption DEF Remaining
<1>. HIDE DEF k
<1>3. PICK n \in {0} \cup Available(to_server, ClientGone, limit) :
        LET whole == received.data \o Data(First(to_server, n))
        IN  /\ to_server' = Rest(to_server, n)
            /\ received' = IF n = 0 THEN NoFile ELSE File(whole)
            /\ CASE n = 0 -> s_pc' = "closed" /\ UNCHANGED <<to_client, jobs, uploads>>
                 [] n > 0 /\ Len(whole) < expected_size ->
                      UNCHANGED <<s_pc, to_client, jobs, uploads>>
                 [] n > 0 /\ Len(whole) = expected_size /\ Decrypts(whole, k) ->
                      /\ s_pc' = "idle" /\ Service!Submit
                      /\ uploads' = Append(uploads, DecryptFile(whole, k))
                      /\ to_client' = Append(to_client, Reply("OK", "JOB", Len(jobs')))
                 [] OTHER ->
                      /\ s_pc' = "idle" /\ UNCHANGED <<jobs, uploads>>
                      /\ to_client' = Append(to_client, Reply("ERROR", "DECRYPT", 0))
  BY DEF ServerReceive, ReceiveFile, k
<1>. HIDE DEF limit
<1>4. s_pc = "receive" /\ UNCHANGED <<pc, exchange, user, transfer, monitors>>
      /\ UNCHANGED <<s_secret, expected_size, outgoing>>
  BY DEF ServerReceive, ReceiveFile
<1>5. CASE n = 0
  <2>1. Rest(to_server, 0) = to_server
    BY <1>1, RestEnds
  <2>. QED
    BY <1>3, <1>4, <1>5, <2>1
<1>6. CASE n # 0
  <2>. DEFINE whole == received.data \o Data(First(to_server, n))
  <2>1. n \in Nat /\ n > 0 /\ n <= limit /\ n <= Len(to_server)
    BY <1>1, <1>2, <1>3, <1>6, Received
  <2>2. Data(First(to_server, n)) \in Seq(Byte) /\ Len(Data(First(to_server, n))) = n
    BY <1>1, <2>1, FirstAndRest, DataTyped
  <2>3. whole \in Seq(Byte) /\ Len(whole) = Len(received.data) + n
    BY <1>1, <2>2, ConcatProperties
  <2>4. Len(whole) <= expected_size
    BY <1>1, <1>2, <2>1, <2>3
  <2>5. to_server' = Rest(to_server, n) /\ received' = File(whole)
    BY <1>3, <1>6
  <2>6. \/ /\ Len(whole) < expected_size /\ UNCHANGED <<s_pc, to_client, jobs, uploads>>
        \/ /\ Len(whole) = expected_size /\ Decrypts(whole, k)
           /\ s_pc' = "idle" /\ Service!Submit
           /\ uploads' = Append(uploads, DecryptFile(whole, k))
           /\ to_client' = Append(to_client, Reply("OK", "JOB", Len(jobs')))
        \/ /\ Len(whole) = expected_size /\ ~Decrypts(whole, k)
           /\ s_pc' = "idle" /\ UNCHANGED <<jobs, uploads>>
           /\ to_client' = Append(to_client, Reply("ERROR", "DECRYPT", 0))
    <3>. HIDE DEF whole
    <3>1. Len(whole) \in Nat /\ expected_size \in Nat
      BY <1>1, <2>1, <2>3
    <3>2. \/ Len(whole) < expected_size
          \/ Len(whole) = expected_size /\ ~(Len(whole) < expected_size)
      BY <2>4, <3>1
    <3>3. (CASE n = 0 -> s_pc' = "closed" /\ UNCHANGED <<to_client, jobs, uploads>>
             [] n > 0 /\ Len(whole) < expected_size ->
                  UNCHANGED <<s_pc, to_client, jobs, uploads>>
             [] n > 0 /\ Len(whole) = expected_size /\ Decrypts(whole, k) ->
                  /\ s_pc' = "idle" /\ Service!Submit
                  /\ uploads' = Append(uploads, DecryptFile(whole, k))
                  /\ to_client' = Append(to_client, Reply("OK", "JOB", Len(jobs')))
             [] OTHER ->
                  /\ s_pc' = "idle" /\ UNCHANGED <<jobs, uploads>>
                  /\ to_client' = Append(to_client, Reply("ERROR", "DECRYPT", 0)))
      BY <1>3 DEF whole
    <3>. QED
      BY <1>6, <2>1, <3>2, <3>3
  <2>7. TakesPart(n, whole)
    <3>. HIDE DEF whole
    <3>1. whole = received.data \o Data(First(to_server, n)) /\ n \in Nat \ {0}
      BY <2>1 DEF whole
    <3>. QED
      BY <2>1, <2>3, <2>4, <2>5, <2>6, <3>1 DEF TakesPart, k
  <2>. QED
    BY <1>4, <2>7
<1>. QED
  BY <1>5, <1>6

(* Such a round writes no more than was announced.                         *)
LEMMA ReceiveKeepsTypes ==
  ASSUME TypeInv, ServerReceive
  PROVE  ServerTyped' /\ StreamsTyped'
<1>1. /\ s_pc = "receive" /\ UNCHANGED <<s_secret, expected_size, outgoing>>
      /\ \/ /\ to_server' = to_server /\ s_pc' = "closed" /\ received' = NoFile
            /\ UNCHANGED <<to_client, jobs, uploads>>
         \/ \E n, whole : TakesPart(n, whole)
  BY ReceiveRound
<1>2. CASE /\ to_server' = to_server /\ s_pc' = "closed" /\ received' = NoFile
           /\ UNCHANGED <<to_client, jobs, uploads>>
  <2>1. Len(<<>>) = 0 /\ expected_size \in Nat
    BY DEF TypeInv, ServerTyped
  <2>. QED
    BY <1>1, <1>2, <2>1, NoFileTyped DEF TypeInv, ServerTyped, StreamsTyped, NoIncompleteFile
<1>3. ASSUME NEW n, NEW whole, TakesPart(n, whole) PROVE ServerTyped' /\ StreamsTyped'
  <2>. DEFINE k == DerivedKey(s_secret)
  <2>. HIDE DEF k
  <2>1. to_server' \in Seq(Item)
    BY <1>3, FirstAndRest DEF TypeInv, StreamsTyped, TakesPart
  <2>2. received' \in FileState /\ received'.exists /\ received'.data = whole
        /\ Len(whole) <= expected_size
    BY <1>3, FileTyped DEF TakesPart
  <2>3. jobs \in Seq(Service!JobState) /\ uploads \in Seq(Seq(Byte)) /\ Len(uploads) = Len(jobs)
        /\ to_client \in Seq(Item)
    BY DEF TypeInv, ServerTyped, StreamsTyped, Service!TypeOK
  <2>4. CASE Len(whole) < expected_size /\ UNCHANGED <<s_pc, to_client, jobs, uploads>>
    BY <1>1, <2>1, <2>2, <2>3, <2>4 DEF TypeInv, ServerTyped, StreamsTyped, NoIncompleteFile
  <2>5. CASE /\ Len(whole) = expected_size /\ s_pc' = "idle" /\ Service!Submit
             /\ uploads' = Append(uploads, DecryptFile(whole, k))
             /\ to_client' = Append(to_client, Reply("OK", "JOB", Len(jobs')))
    <3>1. whole \in Seq(Byte)
      BY <1>3 DEF TakesPart
    <3>2. DecryptFile(whole, k) \in Seq(Byte)
      BY <3>1, DecryptTyped DEF TypeInv, ServerTyped, k
    <3>3. uploads' \in Seq(Seq(Byte)) /\ Len(uploads') = Len(uploads) + 1
      <4>. DEFINE d == DecryptFile(whole, k)
                  S == Seq(Byte)
      <4>1. uploads \in Seq(S) /\ d \in S /\ uploads' = Append(uploads, d)
        BY <2>3, <2>5, <3>2
      <4>. HIDE DEF d, S
      <4>2. uploads' \in Seq(S) /\ Len(uploads') = Len(uploads) + 1
        BY <4>1, AppendProperties
      <4>. QED
        BY <4>2 DEF S
    <3>4. Len(jobs') = Len(jobs) + 1 /\ Len(jobs') \in Nat
      <4>. DEFINE S == Service!JobState
      <4>1. Service!NewJob \in S
        BY DEF Service!NewJob, Service!JobState
      <4>2. jobs \in Seq(S) /\ jobs' = Append(jobs, Service!NewJob)
        BY <2>3, <2>5 DEF Service!Submit
      <4>. HIDE DEF S
      <4>3. Len(jobs) \in Nat
        BY <4>2, LenProperties
      <4>. QED
        BY <4>1, <4>2, <4>3, AppendProperties
    <3>5. to_client' \in Seq(Item)
      <4>1. "JOB" \in ReplyText
        BY DEF ReplyText
      <4>2. Reply("OK", "JOB", Len(jobs')) \in Item
        BY <3>4, <4>1, ReplyTyped
      <4>. QED
        BY <2>3, <2>5, <4>2, Appended
    <3>. QED
      BY <1>1, <2>1, <2>2, <2>3, <2>5, <3>3, <3>4, <3>5
         DEF TypeInv, ServerTyped, StreamsTyped, NoIncompleteFile
  <2>6. CASE /\ Len(whole) = expected_size /\ s_pc' = "idle" /\ UNCHANGED <<jobs, uploads>>
             /\ to_client' = Append(to_client, Reply("ERROR", "DECRYPT", 0))
    <3>1. to_client' \in Seq(Item)
      <4>1. "DECRYPT" \in ReplyText
        BY DEF ReplyText
      <4>2. Reply("ERROR", "DECRYPT", 0) \in Item
        BY <4>1, ReplyTyped
      <4>. QED
        BY <2>3, <2>6, <4>2, Appended
    <3>. QED
      BY <1>1, <2>1, <2>2, <2>3, <2>6, <3>1
         DEF TypeInv, ServerTyped, StreamsTyped, NoIncompleteFile
  <2>. QED
    BY <1>3, <2>4, <2>5, <2>6 DEF TakesPart, k
<1>. QED
  BY <1>1, <1>2, <1>3

(* send_file, the scans, and the end.                                      *)
LEMMA OtherServerTyped ==
  ASSUME TypeInv, ServerSend \/ ServerWorks \/ ServerCloses
  PROVE  ServerTyped' /\ StreamsTyped'
<1>. USE DEF TypeInv, StreamsTyped
<1>1. CASE ServerSend
  <2>. DEFINE chunk == Buffer(outgoing)
  <2>1. outgoing \in Seq(Byte)
    BY DEF ServerTyped
  <2>2. PICK c \in Nat : c <= Len(outgoing) /\ chunk = First(outgoing, c) /\ Len(chunk) = c
    BY <2>1, BufferTyped
  <2>3. chunk \in Seq(Byte) /\ Rest(outgoing, c) \in Seq(Byte)
    BY <2>1, <2>2, FirstAndRest
  <2>4. PICK n \in 1 .. Len(chunk) :
          to_client' = IF ClientGone THEN to_client ELSE to_client \o Bytes(First(chunk, n))
    BY <1>1 DEF ServerSend
  <2>5. outgoing' = Rest(outgoing, Len(chunk)) /\ s_pc' \in {"idle", "send"} /\ s_pc = "send"
        /\ UNCHANGED <<to_server, s_secret, received, expected_size, jobs, uploads>>
    BY <1>1 DEF ServerSend
  <2>. HIDE DEF chunk
  <2>6. n \in Nat /\ n <= Len(chunk)
    BY <2>2
  <2>7. Bytes(First(chunk, n)) \in Seq(Item)
    BY <2>3, <2>6, FirstAndRest, BytesTyped
  <2>8. to_client' \in Seq(Item)
    BY <2>4, <2>7, ConcatProperties
  <2>. QED
    BY <2>2, <2>3, <2>5, <2>8 DEF ServerTyped, NoIncompleteFile
<1>2. CASE ServerWorks
  <2>1. Len(jobs') = Len(jobs)
    BY <1>2, WorkKeepsLength DEF ServerWorks, Service!TypeOK
  <2>. QED
    BY <1>2, <2>1 DEF ServerWorks, ServerTyped, NoIncompleteFile
<1>3. CASE ServerCloses
  <2>1. <<>> \in Seq(Item) /\ <<>> \in Seq(Byte)
    OBVIOUS
  <2>. QED
    BY <1>3, <2>1 DEF ServerCloses, ServerTyped, NoIncompleteFile
<1>. QED
  BY <1>1, <1>2, <1>3

(* Who changes what: the server no variable of the client, and the queue   *)
(* only as the service it is.                                              *)
LEMMA ServerLeavesClient ==
  Server \/ ServerWorks \/ ServerCloses =>
    UNCHANGED <<pc, exchange, user, transfer, monitors>>
    /\ (Service!Submit \/ Service!Work \/ UNCHANGED jobs)
<1>1. CASE ServerReceive
  BY <1>1 DEF ServerReceive, ReceiveFile
<1>2. CASE ServerWorks
  BY <1>2 DEF ServerWorks
<1>3. CASE ServerKey \/ ServerCommand \/ ServerSend \/ ServerCloses
  BY <1>3 DEF ServerKey, ServerCommand, ServerSend, ServerCloses
<1>. QED
  BY <1>1, <1>2, <1>3 DEF Server

(* No step leaves the types.                                               *)
LEMMA TypesKept == TypeInv /\ KeyInv /\ KeyInv' /\ [Next]_vars => TypeInv'
<1>. SUFFICES ASSUME TypeInv, KeyInv, KeyInv', [Next]_vars PROVE TypeInv'
  OBVIOUS
<1>1. CASE Connect \/ UserGives \/ ClientWaits \/ \E m \in Monitor : MonitorAsk(m) \/ MonitorHear(m)
  <2>1. ClientTyped' /\ StreamsTyped' /\ UNCHANGED server
    BY <1>1, ConnectTyped, UserTyped, WaitTyped, MonitorTyped
  <2>2. ServerTyped' /\ Service!TypeOK'
    BY <2>1 DEF TypeInv, ServerTyped, NoIncompleteFile, server, Service!TypeOK
  <2>. QED
    BY <2>1, <2>2 DEF TypeInv
<1>2. CASE Server \/ ServerWorks \/ ServerCloses
  <2>1. UNCHANGED <<pc, exchange, user, transfer, monitors>>
        /\ (Service!Submit \/ Service!Work \/ UNCHANGED jobs)
    BY <1>2, ServerLeavesClient
  <2>2. ClientTyped'
    BY <2>1 DEF TypeInv, ClientTyped, exchange, transfer
  <2>3. Service!TypeOK'
    BY <2>1, JobsTyped DEF TypeInv, Service!TypeOK
  <2>4. ServerTyped' /\ StreamsTyped'
    BY <1>2, ServerKeyTyped, CommandKeepsTypes, ReceiveKeepsTypes, OtherServerTyped DEF Server
  <2>. QED
    BY <2>2, <2>3, <2>4 DEF TypeInv
<1>3. CASE UNCHANGED vars
  BY <1>3 DEF vars, exchange, user, transfer, server, TypeInv, ClientTyped, ServerTyped,
              StreamsTyped, NoIncompleteFile, Service!TypeOK
<1>. QED
  BY <1>1, <1>2, <1>3 DEF Next, Terminated

(* The types hold in every state.                                          *)
LEMMA TypesKeptAlways == Spec => []TypeInv
<1>1. Init => TypeInv
  <2>. SUFFICES ASSUME Init PROVE TypeInv
    OBVIOUS
  <2>1. ClientTyped
    BY NoFileTyped DEF Init, ClientTyped, dh_p
  <2>2. <<>> \in Seq(Byte) /\ <<>> \in Seq(Seq(Byte)) /\ <<>> \in Seq(Item) /\ Len(<<>>) = 0
        /\ <<>> \in Seq(Service!JobState)
    OBVIOUS
  <2>3. ServerTyped
    BY <2>2, NoFileTyped DEF Init, ServerTyped, NoIncompleteFile, dh_p
  <2>4. StreamsTyped
    BY <2>2 DEF Init, StreamsTyped
  <2>5. Service!TypeOK
    BY <2>2, SessionAssumption DEF Init, Service!TypeOK
  <2>. QED
    BY <2>1, <2>3, <2>4, <2>5 DEF TypeInv
<1>. QED
  BY <1>1, TypesKept, KeysExchanged, PTL DEF Spec

(* Every variable keeps its type, however the streams are cut: bytes that  *)
(* are taken for a reply and commands that are taken for bytes do no harm  *)
(* to what the two programs keep, and no file grows beyond what was        *)
(* announced for it.                                                       *)
THEOREM SessionTyped == Spec => []TypeOK
<1>1. TypeInv => TypeOK
  BY DEF TypeInv, ClientTyped, ServerTyped, TypeOK
<1>. QED
  BY <1>1, TypesKeptAlways, PTL

(* receive_file leaves a whole file or none: never one that is shorter     *)
(* than it was announced, and never one that is longer.                    *)
THEOREM FilesWhole == Spec => []NoIncompleteFile
<1>1. TypeInv => NoIncompleteFile
  BY DEF TypeInv, ServerTyped
<1>. QED
  BY <1>1, TypesKeptAlways, PTL

-----------------------------------------------------------------------------
(* Files in pieces.                                                        *)

(* What a part begins with is a part.                                      *)
LEMMA PartPrefix ==
  ASSUME NEW S, NEW a \in Seq(S), NEW b \in Seq(S), NEW w \in Seq(S), Part(a \o b, w)
  PROVE  Part(a, w)
<1>1. /\ Len(a \o b) = Len(a) + Len(b) /\ Len(a) \in Nat /\ Len(b) \in Nat /\ Len(w) \in Nat
      /\ Len(a \o b) <= Len(w) /\ (Len(a \o b) = Len(w) => a \o b = w)
  BY ConcatProperties, LenProperties DEF Part
<1>2. ASSUME Len(a) = Len(w) PROVE a = w
  <2>1. Len(b) = 0
    BY <1>1, <1>2
  <2>2. b = <<>>
    BY <2>1, EmptySeq
  <2>3. a \o b = w
    BY <1>1, <1>2, <2>1
  <2>. QED
    BY <2>2, <2>3, ConcatEmptySeq
<1>. QED
  BY <1>1, <1>2 DEF Part

(* What a part ends with is a part.                                        *)
LEMMA PartSuffix ==
  ASSUME NEW S, NEW a \in Seq(S), NEW b \in Seq(S), NEW w \in Seq(S), Part(a \o b, w)
  PROVE  Part(b, w)
<1>1. /\ Len(a \o b) = Len(a) + Len(b) /\ Len(a) \in Nat /\ Len(b) \in Nat /\ Len(w) \in Nat
      /\ Len(a \o b) <= Len(w) /\ (Len(a \o b) = Len(w) => a \o b = w)
  BY ConcatProperties, LenProperties DEF Part
<1>2. ASSUME Len(b) = Len(w) PROVE b = w
  <2>1. Len(a) = 0
    BY <1>1, <1>2
  <2>2. a = <<>>
    BY <2>1, EmptySeq
  <2>3. a \o b = w
    BY <1>1, <1>2, <2>1
  <2>. QED
    BY <2>2, <2>3, ConcatEmptySeq
<1>. QED
  BY <1>1, <1>2 DEF Part

(* A send that takes n bytes of a buffer of c drops the rest of it.        *)
LEMMA PartSent ==
  ASSUME NEW S, NEW p \in Seq(S), NEW rest \in Seq(S), NEW w \in Seq(S),
         NEW c \in Nat, c <= Len(rest), NEW n \in Nat, n <= c, Part(p \o rest, w)
  PROVE  /\ First(First(rest, c), n) \in Seq(S) /\ Rest(rest, c) \in Seq(S)
         /\ Part((p \o First(First(rest, c), n)) \o Rest(rest, c), w)
<1>. DEFINE f == First(rest, c)
            g == First(f, n)
            r == Rest(rest, c)
<1>1. /\ f \in Seq(S) /\ Len(f) = c /\ r \in Seq(S) /\ Len(r) = Len(rest) - c /\ f \o r = rest
  BY FirstAndRest
<1>. HIDE DEF f, r
<1>2. g \in Seq(S) /\ Len(g) = n
  BY <1>1, FirstAndRest
<1>3. n = c => g = f
  BY <1>1, SubSeqFull DEF First
<1>. HIDE DEF g
<1>. DEFINE pg == p \o g
            q  == p \o rest
<1>4. /\ pg \in Seq(S) /\ Len(pg) = Len(p) + Len(g)
  BY <1>2, ConcatProperties
<1>5. Len(q) = Len(p) + Len(rest)
  BY ConcatProperties
<1>6. Len(p) \in Nat /\ Len(rest) \in Nat /\ Len(w) \in Nat
  BY LenProperties
<1>7. Len(q) <= Len(w) /\ (Len(q) = Len(w) => q = w)
  BY DEF Part
<1>. HIDE DEF pg, q
<1>8. Len(pg \o r) = Len(pg) + Len(r)
  <2>1. pg \in Seq(S) /\ r \in Seq(S)
    BY <1>1, <1>4
  <2>. QED
    BY <2>1, ConcatProperties
<1>. DEFINE l == Len(pg \o r)
<1>9. l = Len(p) + n + (Len(rest) - c)
  BY <1>1, <1>2, <1>4, <1>8
<1>. HIDE DEF l
<1>10. l <= Len(w) /\ (l = Len(w) => n = c /\ Len(q) = Len(w))
  BY <1>5, <1>6, <1>7, <1>9
<1>11. ASSUME l = Len(w) PROVE pg \o r = w
  <2>1. g = f /\ q = w
    BY <1>3, <1>7, <1>10, <1>11
  <2>2. (p \o f) \o r = p \o (f \o r)
    <3>1. p \in Seq(S) /\ f \in Seq(S) /\ r \in Seq(S)
      BY <1>1
    <3>. QED
      BY <3>1, ConcatAssociative
  <2>. QED
    BY <1>1, <2>1, <2>2, Zenon DEF pg, q
<1>12. Part((p \o g) \o r, w)
  BY <1>10, <1>11 DEF Part, l, pg
<1>. QED
  BY <1>1, <1>2, <1>12 DEF f, g, r

(* Items that are received are written behind what was received before.    *)
LEMMA PartMoved ==
  ASSUME NEW p \in Seq(Byte), NEW s \in Seq(Item), NEW n \in Nat, n <= Len(s)
  PROVE  (p \o Data(First(s, n))) \o Data(Rest(s, n)) = p \o Data(s)
<1>1. First(s, n) \in Seq(Item) /\ Rest(s, n) \in Seq(Item) /\ First(s, n) \o Rest(s, n) = s
  BY FirstAndRest
<1>2. Data(s) = Data(First(s, n)) \o Data(Rest(s, n))
  BY <1>1, DataConcat
<1>3. Data(First(s, n)) \in Seq(Byte) /\ Data(Rest(s, n)) \in Seq(Byte)
  BY <1>1, DataTyped
<1>. QED
  BY <1>2, <1>3, ConcatAssociative

(* Items that are sent are received behind those that were sent before.    *)
LEMMA PartAdded ==
  ASSUME NEW p \in Seq(Byte), NEW s \in Seq(Item), NEW d \in Seq(Byte)
  PROVE  /\ s \o Bytes(d) \in Seq(Item)
         /\ p \o Data(s \o Bytes(d)) = (p \o Data(s)) \o d
<1>1. Bytes(d) \in Seq(Item) /\ Data(Bytes(d)) = d
  BY BytesTyped
<1>2. s \o Bytes(d) \in Seq(Item) /\ Data(s \o Bytes(d)) = Data(s) \o d
  BY <1>1, ConcatProperties, DataConcat
<1>3. Data(s) \in Seq(Byte)
  BY DataTyped
<1>. QED
  BY <1>2, <1>3, ConcatAssociative

(* Two cuts are one.                                                       *)
LEMMA RestOfRest ==
  ASSUME NEW S, NEW s \in Seq(S), NEW a \in Nat, NEW b \in Nat, a + b <= Len(s)
  PROVE  Rest(Rest(s, a), b) = Rest(s, a + b)
<1>1. Len(s) \in Nat /\ a <= Len(s)
  BY LenProperties
<1>. DEFINE r == Rest(s, a)
            t == Rest(r, b)
            u == Rest(s, a + b)
<1>2. r \in Seq(S) /\ Len(r) = Len(s) - a
  BY <1>1, FirstAndRest
<1>3. \A i \in 1 .. Len(s) - a : r[i] = s[a + i]
  <2>1. \A i \in (a + 1) .. Len(s) : s[i] \in S
    BY <1>1, ElementOfSeq
  <2>2. \A i \in 1 .. Len(s) - (a + 1) + 1 : SubSeq(s, a + 1, Len(s))[i] = s[(a + 1) + i - 1]
    BY <1>1, <2>1, SubSeqProperties
  <2>. QED
    BY <1>1, <2>2 DEF Rest
<1>. HIDE DEF r
<1>4. t \in Seq(S) /\ Len(t) = Len(s) - a - b
  <2>1. b <= Len(r)
    BY <1>1, <1>2
  <2>2. t \in Seq(S) /\ Len(t) = Len(r) - b
    BY <1>2, <2>1, FirstAndRest
  <2>. QED
    BY <1>1, <1>2, <2>2
<1>5. \A i \in 1 .. Len(s) - a - b : t[i] = r[b + i]
  <2>1. \A i \in (b + 1) .. Len(r) : r[i] \in S
    BY <1>1, <1>2, ElementOfSeq
  <2>2. \A i \in 1 .. Len(r) - (b + 1) + 1 : SubSeq(r, b + 1, Len(r))[i] = r[(b + 1) + i - 1]
    BY <1>1, <1>2, <2>1, SubSeqProperties
  <2>. QED
    BY <1>1, <1>2, <2>2 DEF Rest
<1>6. u \in Seq(S) /\ Len(u) = Len(s) - (a + b)
  BY <1>1, FirstAndRest
<1>7. \A i \in 1 .. Len(s) - (a + b) : u[i] = s[a + b + i]
  <2>1. \A i \in (a + b + 1) .. Len(s) : s[i] \in S
    BY <1>1, ElementOfSeq
  <2>2. \A i \in 1 .. Len(s) - (a + b + 1) + 1 :
          SubSeq(s, a + b + 1, Len(s))[i] = s[(a + b + 1) + i - 1]
    BY <1>1, <2>1, SubSeqProperties
  <2>. QED
    BY <1>1, <2>2 DEF Rest
<1>. HIDE DEF t, u
<1>8. \A i \in 1 .. Len(t) : t[i] = u[i]
  <2>. SUFFICES ASSUME NEW i \in 1 .. Len(t) PROVE t[i] = u[i]
    OBVIOUS
  <2>1. i \in 1 .. Len(s) - a - b /\ b + i \in 1 .. Len(s) - a /\ a + (b + i) = a + b + i
    BY <1>1, <1>4
  <2>. QED
    BY <1>3, <1>5, <1>7, <2>1
<1>9. t = u
  BY <1>1, <1>4, <1>6, <1>8, SeqEqual
<1>. QED
  BY <1>9 DEF r, t, u

(* What follows the first item, when more is sent.                         *)
LEMMA RestGrows ==
  ASSUME NEW S, NEW s \in Seq(S), NEW t \in Seq(S), s # <<>>
  PROVE  /\ Rest(s \o t, 1) = Rest(s, 1) \o t
         /\ s \o t # <<>> /\ (s \o t)[1] = s[1]
<1>1. /\ Len(s) \in Nat /\ 1 <= Len(s) /\ Len(t) \in Nat
  BY LenProperties, EmptySeq
<1>2. /\ First(s, 1) \in Seq(S) /\ Len(First(s, 1)) = 1 /\ Rest(s, 1) \in Seq(S)
      /\ First(s, 1) \o Rest(s, 1) = s
  <2>1. 1 \in Nat /\ 1 <= Len(s)
    BY <1>1
  <2>. QED
    BY <2>1, FirstAndRest
<1>. DEFINE f == First(s, 1)
            r == Rest(s, 1)
            u == s \o t
<1>. HIDE DEF f, r, u
<1>3. u \in Seq(S) /\ Len(u) = Len(s) + Len(t)
      /\ \A i \in 1 .. Len(s) + Len(t) : u[i] = IF i <= Len(s) THEN s[i] ELSE t[i - Len(s)]
  BY ConcatProperties DEF u
<1>4. u # <<>> /\ u[1] = s[1] /\ Len(u) >= 1
  <2>1. Len(u) # 0 /\ 1 \in 1 .. Len(s) + Len(t)
    BY <1>1, <1>3
  <2>. QED
    BY <1>1, <1>3, <2>1, EmptySeq
<1>5. u = f \o (r \o t)
  <2>1. f \in Seq(S) /\ r \in Seq(S)
    BY <1>2 DEF f, r
  <2>2. (f \o r) \o t = f \o (r \o t)
    BY <2>1, ConcatAssociative
  <2>3. f \o r = s
    BY <1>2 DEF f, r
  <2>. QED
    BY <2>2, <2>3 DEF u
<1>6. r \o t \in Seq(S)
  BY <1>2, ConcatProperties DEF r
<1>7. SubSeq(f \o (r \o t), Len(f) + 1, Len(f \o (r \o t))) = r \o t
  BY <1>2, <1>6, ConcatParts DEF f
<1>8. Rest(u, 1) = r \o t
  BY <1>2, <1>5, <1>7 DEF Rest, f
<1>. QED
  BY <1>4, <1>8 DEF r, u

(* Nothing in front and nothing behind.                                    *)
LEMMA EmptyJoined == \A S : \A s \in Seq(S) : <<>> \o s = s /\ s \o <<>> = s
BY ConcatEmptySeq

(* The first item of one.                                                  *)
LEMMA FirstOfOne == \A x : First(<<x>>, 1) = <<x>>
<1>. SUFFICES ASSUME NEW x PROVE First(<<x>>, 1) = <<x>>
  OBVIOUS
<1>1. <<x>> \in Seq({x}) /\ Len(<<x>>) = 1
  OBVIOUS
<1>2. SubSeq(<<x>>, 1, Len(<<x>>)) = <<x>>
  BY <1>1, SubSeqFull
<1>. QED
  BY <1>1, <1>2 DEF First

-----------------------------------------------------------------------------
(* The client asks and hears.                                              *)

(* A request is sent into silence, or not at all.                          *)
LEMMA Asking ==
  ASSUME Silent, NEW c, NEW outcome \in Outcome, ClientSends(<<c>>, outcome),
         UNCHANGED <<to_client, s_pc, outgoing>>
  PROVE  /\ outcome = "sent" =>
              to_client' = <<>> /\ (s_pc' = "closed" \/ (s_pc' = "idle" /\ to_server' = <<c>>))
         /\ outcome # "sent" => Silent'
<1>1. <<>> \o <<c>> = <<c>>
  <2>1. <<c>> \in Seq({c})
    OBVIOUS
  <2>. QED
    BY <2>1, ConcatEmptySeq
<1>. QED
  BY <1>1 DEF Silent, ClientSends, ServerGone

(* A reader takes what there is, and silence follows.                      *)
LEMMA Hearing ==
  ASSUME TypeInv, Counters, NEW n \in 0 .. Len(to_client), Hears(n), Takes(n),
         \/ s_pc = "closed" \/ (s_pc = "idle" /\ to_server = <<>>) \/ to_client = <<>>,
         \/ to_client = <<>> \/ \E r : to_client = <<r>>,
         UNCHANGED <<to_server, s_pc, outgoing>>
  PROVE  /\ Silent'
         /\ \/ n = 0 /\ s_pc = "closed" /\ to_client = <<>>
            \/ n = 1 /\ First(to_client, n) = to_client
<1>1. n \in Nat /\ n <= Len(to_client) /\ (n = 0 => to_client = <<>> /\ ServerGone)
  BY Heard DEF TypeInv, StreamsTyped
<1>2. CASE to_client = <<>>
  <2>1. n = 0 /\ s_pc = "closed"
    BY <1>1, <1>2, EmptySeq DEF ServerGone
  <2>2. Rest(<<>>, 0) = <<>>
    <3>1. <<>> \in Seq(Item)
      OBVIOUS
    <3>. QED
      BY <3>1, RestEnds
  <2>. QED
    BY <1>2, <2>1, <2>2 DEF Takes, Silent, Counters
<1>3. CASE to_client # <<>>
  <2>1. PICK r : to_client = <<r>>
    BY <1>3
  <2>2. n = 1
    <3>1. Len(<<r>>) = 1
      OBVIOUS
    <3>. QED
      BY <1>1, <1>3, <2>1, <3>1
  <2>3. to_client' = <<>> /\ First(to_client, n) = to_client
    BY <2>1, <2>2, RestOfOne, FirstOfOne DEF Takes
  <2>4. s_pc = "closed" \/ (s_pc = "idle" /\ to_server = <<>>)
    BY <1>3
  <2>. QED
    BY <2>2, <2>3, <2>4 DEF Silent, Counters
<1>. QED
  BY <1>2, <1>3

(* Nothing else of the conversation changes when the main thread leaves a  *)
(* command.                                                                *)
LEMMA Returns ==
  ASSUME Conversation, pc \notin {"upload", "download"}, Silent',
         pc' \in {"prompt", "exited", "killed", "register"}, Running = {},
         UNCHANGED <<monitors, total, read, s_pc, outgoing, uploads, overlapped>>
  PROVE  Conversation'
<1>1. Running' = Running
  BY DEF Running
<1>. QED
  BY <1>1 DEF Conversation, Phase, OneReader, Counters, UploadIntact, AtPrompt

(* Before the registration there is no conversation to be kept but         *)
(* silence.                                                                *)
LEMMA KeySendConverses == Conversation /\ KeyInv /\ KeySend => Conversation'
<1>. SUFFICES ASSUME Conversation, KeyInv, KeySend PROVE Conversation'
  OBVIOUS
<1>. USE DEF transfer, user, server
<1>1. /\ Running = {} /\ Running' = {}
      /\ UNCHANGED <<total, read, s_pc, outgoing, uploads, overlapped>>
  BY DEF KeyInv, KeySend, Running
<1>2. pc = "connected" /\ to_client' = <<>> /\ s_pc # "send"
  BY DEF KeyInv, KeySend
<1>3. pc' \in {"key", "exited", "killed"} /\ (pc' # "key" => s_pc = "closed")
  BY DEF KeySend, ClientSends, ServerGone, Goes, Outcome
<1>4. pc' # "key" => Silent'
  BY <1>1, <1>2, <1>3 DEF Silent, Conversation, Counters
<1>. QED
  BY <1>1, <1>2, <1>3, <1>4 DEF Conversation, Phase, OneReader, Counters, UploadIntact, AtPrompt

(* The client takes the server's key; nothing else is under way.           *)
LEMMA KeyReceiveConverses == Conversation /\ KeyInv /\ TypeInv /\ KeyReceive => Conversation'
<1>. SUFFICES ASSUME Conversation, KeyInv, TypeInv, KeyReceive PROVE Conversation'
  OBVIOUS
<1>. USE DEF transfer, user, server
<1>1. /\ Running = {} /\ pc = "key"
      /\ UNCHANGED <<monitors, total, read, s_pc, outgoing, uploads, overlapped, to_server>>
  BY DEF KeyInv, KeyReceive, Running
<1>2. PICK n \in Available(to_client, ServerGone, 1) :
        /\ Takes(n) /\ pc' \in {"register", "exited"}
  BY DEF KeyReceive
<1>3. n \in Nat /\ n <= Len(to_client) /\ (n = 0 => to_client = <<>> /\ s_pc = "closed")
      /\ n <= 1 /\ (n > 0 => to_client # <<>>)
  <2>1. to_client \in Seq(Item) /\ 1 \in Int
    BY DEF TypeInv, StreamsTyped
  <2>2. /\ n \in Nat /\ n <= Len(to_client) /\ (n = 0 => to_client = <<>> /\ ServerGone)
        /\ (n > 0 => n <= 1 /\ to_client # <<>>)
    BY <1>2, <2>1, Received
  <2>. QED
    BY <2>2 DEF ServerGone
<1>4. to_client' = <<>> /\ (s_pc = "closed" \/ (s_pc = "idle" /\ to_server = <<>>))
  <2>1. CASE n = 0
    <3>1. Rest(<<>>, 0) = <<>>
      <4>1. <<>> \in Seq(Item)
        OBVIOUS
      <4>. QED
        BY <4>1, RestEnds
    <3>. QED
      BY <1>2, <1>3, <2>1, <3>1 DEF Takes
  <2>2. CASE n = 1
    BY <1>1, <1>2, <1>3, <2>2, RestOfOne DEF Takes, KeyInv, KeySays
  <2>. QED
    BY <1>3, <2>1, <2>2
<1>5. Silent'
  BY <1>1, <1>4 DEF Silent, Conversation, Counters
<1>. QED
  BY <1>1, <1>2, <1>5, Returns

(* The registration is asked for.                                          *)
LEMMA RegisterConverses == Conversation /\ Register => Conversation'
<1>. SUFFICES ASSUME Conversation, Register PROVE Conversation'
  OBVIOUS
<1>. USE DEF transfer, user, server
<1>1. /\ UNCHANGED <<monitors, total, read, s_pc, outgoing, uploads, overlapped, to_client>>
      /\ pc = "register" /\ Silent /\ Running = {}
  BY DEF Register, Conversation, Phase, OneReader
<1>2. PICK outcome \in Outcome :
        /\ ClientSends(<<Command("REGISTER_CLIENT", 0)>>, outcome)
        /\ Goes(outcome, "registering", "exited")
  BY DEF Register
<1>3. CASE outcome = "sent"
  <2>1. Registering'
    BY <1>1, <1>2, <1>3, Asking DEF Registering, Exchange
  <2>2. pc' = "registering"
    BY <1>2, <1>3 DEF Goes
  <2>3. Running' = {}
    BY <1>1 DEF Running
  <2>. QED
    BY <1>1, <2>1, <2>2, <2>3 DEF Conversation, Phase, OneReader, Counters, UploadIntact
<1>4. CASE outcome # "sent"
  <2>1. Silent' /\ pc' \in {"exited", "killed"}
    BY <1>1, <1>2, <1>4, Asking DEF Goes, Outcome
  <2>. QED
    BY <1>1, <2>1, Returns
<1>. QED
  BY <1>3, <1>4

(* And heard of.                                                           *)
LEMMA RegisteredConverses == Conversation /\ TypeInv /\ Registered => Conversation'
<1>. SUFFICES ASSUME Conversation, TypeInv, Registered PROVE Conversation'
  OBVIOUS
<1>. USE DEF transfer, user, server
<1>1. /\ UNCHANGED <<monitors, total, read, s_pc, outgoing, uploads, overlapped, to_server>>
      /\ pc = "registering" /\ Registering /\ Running = {} /\ Counters
  BY DEF Registered, Conversation, Phase, OneReader
<1>2. PICK n \in 0 .. Len(to_client) : Hears(n) /\ Takes(n) /\ pc' \in {"prompt", "exited"}
  BY DEF Registered
<1>3. Silent'
  BY <1>1, <1>2, Hearing DEF Registering, Exchange
<1>. QED
  BY <1>1, <1>2, <1>3, Returns

(* The answer about a scan is taken.                                       *)
LEMMA HearAnswerConverses == Conversation /\ TypeInv /\ HearAnswer => Conversation'
<1>. SUFFICES ASSUME Conversation, TypeInv, HearAnswer PROVE Conversation'
  OBVIOUS
<1>. USE DEF transfer, user, server
<1>1. /\ UNCHANGED <<monitors, total, read, s_pc, outgoing, uploads, overlapped, to_server>>
      /\ pc = "answer" /\ Answering /\ Running = {} /\ Counters
  BY DEF HearAnswer, Conversation, Phase, OneReader
<1>2. PICK n \in 0 .. Len(to_client) : Hears(n) /\ Takes(n)
  BY DEF HearAnswer
<1>3. Silent' /\ pc' = "prompt"
  BY <1>1, <1>2, Hearing DEF Answering, Exchange, HearAnswer, Return
<1>. QED
  BY <1>1, <1>3, Returns

(* A command is given only when no detached thread runs: nothing is under  *)
(* way then.                                                               *)
LEMMA AskFromSilence ==
  ASSUME Conversation, NEW c, NEW waits, NEW outcome, Ask(c, waits, outcome), ~overlapped',
         UNCHANGED monitors
  PROVE  Silent /\ Running = {} /\ Running' = {} /\ pc = "prompt" /\ ~overlapped
<1>1. Running = {} /\ pc = "prompt" /\ ~overlapped
  BY DEF Ask
<1>2. AtPrompt
  BY <1>1 DEF Conversation, Phase
<1>. QED
  BY <1>1, <1>2 DEF AtPrompt, Running

(* A command of the user, given while no thread watches a scan.            *)
LEMMA UserConverses ==
  ASSUME Conversation, TypeInv, KeyInv, UserGives, ~overlapped'
  PROVE  Conversation'
<1>. USE DEF transfer, user, server, exchange
<1>1. CASE Quit
  <2>1. /\ UNCHANGED <<monitors, total, read, s_pc, outgoing, uploads, overlapped,
                       to_server, to_client>>
        /\ pc = "prompt" /\ pc' = "exited"
    BY <1>1 DEF Quit
  <2>2. Running' = Running /\ AtPrompt
    BY <2>1 DEF Running, Conversation, Phase
  <2>3. AtPrompt'
    BY <2>1, <2>2 DEF AtPrompt, Silent, Exchange
  <2>. QED
    BY <2>1, <2>2, <2>3 DEF Conversation, Phase, OneReader, Counters, UploadIntact
<1>2. CASE AskAboutJob
  <2>1. PICK name \in ScanQuery, job \in 1 .. MAX_JOBS, outcome \in Outcome :
          Ask(Command(name, job), "answer", outcome)
    BY <1>2 DEF AskAboutJob, ScanQuery
  <2>2. UNCHANGED <<monitors, total, read, s_pc, outgoing, uploads, to_client>>
    BY <1>2 DEF AskAboutJob
  <2>3. Silent /\ Running = {} /\ Running' = {} /\ pc = "prompt" /\ ~overlapped
    BY <2>1, <2>2, AskFromSilence
  <2>4. ClientSends(<<Command(name, job)>>, outcome) /\ Goes(outcome, "answer", "prompt")
    BY <2>1 DEF Ask
  <2>5. CASE outcome = "sent"
    <3>1. command' = Command(name, job) /\ pc' = "answer"
      BY <2>1, <2>4, <2>5 DEF Ask, Goes
    <3>2. PICK c : c = Command(name, job)
      OBVIOUS
    <3>3. Answering'
      <4>1. to_client' = <<>> /\ (s_pc' = "closed" \/ (s_pc' = "idle" /\ to_server' = <<c>>))
        BY <2>2, <2>3, <2>4, <2>5, <3>2, Asking
      <4>2. command' = c
        BY <3>1, <3>2
      <4>3. Exchange(command, About(job))'
        BY <4>1, <4>2 DEF Exchange
      <4>. QED
        BY <3>2, <4>2, <4>3 DEF Answering
    <3>. QED
      BY <2>2, <2>3, <3>1, <3>3 DEF Conversation, Phase, OneReader, Counters, UploadIntact
  <2>6. CASE outcome # "sent"
    <3>1. Silent' /\ pc' \in {"prompt", "killed"}
      BY <2>2, <2>3, <2>4, <2>6, Asking DEF Goes, Outcome
    <3>. QED
      BY <2>2, <2>3, <3>1 DEF Conversation, Phase, OneReader, Counters, UploadIntact, AtPrompt
  <2>. QED
    BY <2>5, <2>6
<1>3. CASE UploadCommand
  <2>1. PICK outcome \in Outcome :
          /\ Ask(Command("UPLOAD_FILE", Len(UsersCopy)), "ready", outcome)
          /\ temp' = IF outcome = "failed" THEN NoFile ELSE File(UsersCopy)
    BY <1>3 DEF UploadCommand, UsersCopy
  <2>2. UNCHANGED <<monitors, total, read, s_pc, outgoing, uploads, to_client>>
        /\ UsersCopy' = UsersCopy
    BY <1>3 DEF UploadCommand, UsersCopy, Encrypted
  <2>3. PICK c : c = Command("UPLOAD_FILE", Len(UsersCopy))
    OBVIOUS
  <2>4. Silent /\ Running = {} /\ Running' = {} /\ pc = "prompt" /\ ~overlapped
    BY <2>1, <2>2, <2>3, AskFromSilence
  <2>5. ClientSends(<<c>>, outcome) /\ Goes(outcome, "ready", "prompt")
    BY <2>1, <2>3 DEF Ask
  <2>6. CASE outcome = "sent"
    <3>1. temp' = File(UsersCopy') /\ pc' = "ready"
      BY <2>1, <2>2, <2>5, <2>6 DEF Goes
    <3>2. to_client' = <<>> /\ (s_pc' = "closed" \/ (s_pc' = "idle" /\ to_server' = <<c>>))
      BY <2>2, <2>4, <2>5, <2>6, Asking
    <3>3. c = Command("UPLOAD_FILE", Len(UsersCopy'))
      BY <2>2, <2>3
    <3>4. Announced'
      BY <3>1, <3>2, <3>3 DEF Announced, Exchange
    <3>. QED
      BY <2>2, <2>4, <3>1, <3>4 DEF Conversation, Phase, OneReader, Counters, UploadIntact
  <2>7. CASE outcome # "sent"
    <3>1. Silent' /\ pc' \in {"prompt", "killed"}
      BY <2>2, <2>4, <2>5, <2>7, Asking DEF Goes, Outcome
    <3>. QED
      BY <2>2, <2>4, <3>1 DEF Conversation, Phase, OneReader, Counters, UploadIntact, AtPrompt
  <2>. QED
    BY <2>6, <2>7
<1>4. CASE DownloadCommand
  <2>1. PICK outcome \in Outcome : Ask(Command("DOWNLOAD_FILE", 0), "header", outcome)
    BY <1>4 DEF DownloadCommand
  <2>2. UNCHANGED <<monitors, total, read, s_pc, outgoing, uploads, to_client>>
    BY <1>4 DEF DownloadCommand
  <2>3. Silent /\ Running = {} /\ Running' = {} /\ pc = "prompt" /\ ~overlapped
    BY <2>1, <2>2, AskFromSilence
  <2>4. /\ ClientSends(<<Command("DOWNLOAD_FILE", 0)>>, outcome)
        /\ Goes(outcome, "header", "prompt")
    BY <2>1 DEF Ask
  <2>5. CASE outcome = "sent"
    <3>1. pc' = "header"
      BY <2>4, <2>5 DEF Goes
    <3>2. Announcing'
      BY <2>2, <2>3, <2>4, <2>5, Asking DEF Announcing
    <3>. QED
      BY <2>2, <2>3, <3>1, <3>2 DEF Conversation, Phase, OneReader, Counters, UploadIntact
  <2>6. CASE outcome # "sent"
    <3>1. Silent' /\ pc' \in {"prompt", "killed"}
      BY <2>2, <2>3, <2>4, <2>6, Asking DEF Goes, Outcome
    <3>. QED
      BY <2>2, <2>3, <3>1 DEF Conversation, Phase, OneReader, Counters, UploadIntact, AtPrompt
  <2>. QED
    BY <2>5, <2>6
<1>. QED
  BY <1>1, <1>2, <1>3, <1>4 DEF UserGives

(* The upload starts, or is refused.                                       *)
LEMMA HearReadyConverses == Conversation /\ TypeInv /\ KeyInv /\ HearReady => Conversation'
<1>. SUFFICES ASSUME Conversation, TypeInv, KeyInv, HearReady PROVE Conversation'
  OBVIOUS
<1>. USE DEF transfer, user, server, exchange
<1>1. /\ UNCHANGED <<monitors, total, read, s_pc, outgoing, uploads, overlapped, to_server,
                     secret, received, expected_size>>
      /\ pc = "ready" /\ Announced /\ Running = {} /\ Counters
      /\ total = 0 /\ read = 0
  BY DEF HearReady, UploadReady, Conversation, Phase, OneReader, Counters
<1>2. PICK n \in 0 .. Len(to_client) :
        /\ Hears(n) /\ Takes(n)
        /\ \/ First(to_client, n) = <<Ready>> /\ pc' = "upload" /\ UNCHANGED temp
           \/ First(to_client, n) # <<Ready>> /\ pc' = "prompt"
  BY DEF HearReady, UploadReady, Return
<1>3. CASE /\ s_pc = "receive" /\ received.data = <<>> /\ expected_size = Len(UsersCopy)
           /\ to_server = <<>> /\ to_client = <<Ready>>
  <2>1. n = 1 /\ First(to_client, n) = to_client
    <3>1. n \in Nat /\ n <= Len(to_client) /\ (n = 0 => to_client = <<>> /\ ServerGone)
      BY <1>2, Heard DEF TypeInv, StreamsTyped
    <3>2. Len(<<Ready>>) = 1 /\ <<Ready>> # <<>>
      OBVIOUS
    <3>3. n = 1
      BY <1>3, <3>1, <3>2
    <3>. QED
      BY <1>3, <3>3, FirstOfOne
  <2>2. pc' = "upload" /\ UNCHANGED temp
    BY <1>2, <1>3, <2>1
  <2>3. to_client' = <<>>
    BY <1>2, <1>3, <2>1, RestOfOne DEF Takes
  <2>4. UsersCopy \in Seq(Byte) /\ UsersCopy # <<>> /\ Len(UsersCopy) \in Nat
    BY EncryptedTyped DEF TypeInv, ClientTyped, UsersCopy
  <2>5. UsersCopy' = UsersCopy /\ Rest(UsersCopy, 0) = UsersCopy
    BY <1>1, <2>4, RestEnds DEF UsersCopy, Encrypted
  <2>6. (received.data \o Data(to_server)) \o UsersCopy = UsersCopy
    <3>1. <<>> \in Seq(Byte) /\ <<>> \in Seq(Item)
      OBVIOUS
    <3>2. Data(<<>>) \in Seq(Byte) /\ Len(Data(<<>>)) = 0
      BY <3>1, DataTyped
    <3>3. Data(<<>>) = <<>> /\ <<>> \o <<>> = <<>>
      BY <3>1, <3>2, EmptySeq, ConcatEmptySeq
    <3>4. <<>> \o UsersCopy = UsersCopy
      BY <2>4, ConcatEmptySeq
    <3>. QED
      BY <1>3, <3>3, <3>4
  <2>7. Part((received.data \o Data(to_server)) \o Rest(UsersCopy, 0), UsersCopy)
    BY <2>4, <2>5, <2>6 DEF Part
  <2>8. 0 < Len(UsersCopy)
    BY <2>4, EmptySeq
  <2>9. Uploading'
    <3>1. temp' = File(UsersCopy') /\ total' = 0 /\ read' = 0
      BY <1>1, <2>2, <2>5 DEF Announced
    <3>2. s_pc' = "receive" /\ expected_size' = Len(UsersCopy')
          /\ received' = received /\ to_server' = to_server
      BY <1>1, <1>3, <2>5
    <3>. QED
      BY <2>3, <2>5, <2>7, <2>8, <3>1, <3>2 DEF Uploading, Incoming
  <2>10. Running' = {}
    BY <1>1 DEF Running
  <2>. QED
    BY <1>1, <2>2, <2>9, <2>10 DEF Conversation, Phase, OneReader, Counters, UploadIntact
<1>4. CASE \/ Exchange(Command("UPLOAD_FILE", Len(UsersCopy)), {Refused})
           \/ s_pc = "closed" /\ to_client = <<Ready>>
  <2>1. /\ Silent'
        /\ \/ n = 0 /\ s_pc = "closed" /\ to_client = <<>>
           \/ n = 1 /\ First(to_client, n) = to_client
    BY <1>1, <1>2, <1>4, Hearing DEF Exchange
  <2>2. CASE pc' = "prompt"
    BY <1>1, <2>1, <2>2, Returns
  <2>3. CASE First(to_client, n) = <<Ready>> /\ pc' = "upload" /\ UNCHANGED temp
    <3>1. n = 1 /\ to_client = <<Ready>>
      <4>1. First(<<>>, 0) # <<Ready>>
        <5>1. <<>> \in Seq(Item) /\ Len(<<>>) = 0
          OBVIOUS
        <5>2. First(<<>>, 0) \in Seq(Item) /\ Len(First(<<>>, 0)) = 0
          <6>1. 0 \in Nat /\ 0 <= Len(<<>>)
            BY <5>1
          <6>. QED
            BY <5>1, <6>1, FirstAndRest
        <5>. QED
          BY <5>2, EmptySeq
      <4>. QED
        BY <2>1, <2>3, <4>1
    <3>2. s_pc = "closed"
      BY <1>4, <3>1 DEF Exchange, Ready, Refused, Reply
    <3>3. UsersCopy \in Seq(Byte) /\ UsersCopy # <<>> /\ Len(UsersCopy) \in Nat
      BY EncryptedTyped DEF TypeInv, ClientTyped, UsersCopy
    <3>4. 0 < Len(UsersCopy)
      BY <3>3, EmptySeq
    <3>5. UsersCopy' = UsersCopy
      BY <1>1 DEF UsersCopy, Encrypted
    <3>6. Uploading'
      BY <1>1, <2>1, <2>3, <3>2, <3>4, <3>5 DEF Uploading, Announced, Silent
    <3>7. Running' = {}
      BY <1>1 DEF Running
    <3>. QED
      BY <1>1, <2>3, <3>6, <3>7 DEF Conversation, Phase, OneReader, Counters, UploadIntact
  <2>. QED
    BY <1>2, <2>2, <2>3
<1>. QED
  BY <1>1, <1>3, <1>4 DEF Announced

(* One round of the upload: of what is read, all or the beginning is sent. *)
LEMMA UploadDataConverses == Conversation /\ TypeInv /\ UploadData => Conversation'
<1>. SUFFICES ASSUME Conversation, TypeInv, UploadData PROVE Conversation'
  OBVIOUS
<1>. USE DEF transfer, user, server, exchange
<1>. DEFINE e     == UsersCopy
            rest  == Rest(e, read)
            chunk == Buffer(rest)
            p     == received.data \o Data(to_server)
<1>1. /\ UNCHANGED <<monitors, s_pc, outgoing, uploads, overlapped, to_client,
                     secret, received, expected_size>>
      /\ pc = "upload" /\ Uploading /\ Running = {} /\ Counters
  BY DEF UploadData, Conversation, Phase, OneReader
<1>2. /\ temp = File(e) /\ temp.data = e /\ total <= read /\ read < Len(e) /\ to_client = <<>>
      /\ s_pc = "closed" \/ Incoming(rest)
  BY <1>1 DEF Uploading, File
<1>3. PICK outcome \in Outcome, n \in 1 .. Len(chunk) :
        /\ ClientSends(Bytes(First(chunk, n)), outcome)
        /\ \/ /\ outcome = "sent" /\ total + n < Len(e) /\ read + Len(chunk) < Len(e)
              /\ total' = total + n /\ read' = read + Len(chunk)
              /\ UNCHANGED <<pc, command, temp>>
           \/ /\ ~(outcome = "sent" /\ total + n < Len(e) /\ read + Len(chunk) < Len(e))
              /\ total' = 0 /\ read' = 0 /\ Goes(outcome, "confirm", "prompt")
  BY <1>2 DEF UploadData
<1>4. /\ e \in Seq(Byte) /\ Len(e) \in Nat /\ read \in Nat /\ total \in Nat
      /\ received.data \in Seq(Byte) /\ to_server \in Seq(Item)
  BY EncryptedTyped
     DEF TypeInv, ClientTyped, ServerTyped, StreamsTyped, FileState, UsersCopy
<1>5. p \in Seq(Byte)
  BY <1>4, DataTyped, ConcatProperties
<1>6. rest \in Seq(Byte) /\ Len(rest) = Len(e) - read
  BY <1>2, <1>4, FirstAndRest
<1>7. e' = e /\ Running' = {}
  BY <1>1 DEF UsersCopy, Encrypted, Running
<1>. HIDE DEF e, rest, p
<1>8. PICK c \in Nat : c <= Len(rest) /\ chunk = First(rest, c) /\ Len(chunk) = c
  BY <1>6, BufferTyped
<1>. HIDE DEF chunk
<1>9. n \in Nat /\ n <= c
  BY <1>8
<1>10. Rest(rest, c) = Rest(e, read + c)
  <2>1. read + c <= Len(e)
    BY <1>4, <1>6, <1>8
  <2>. QED
    BY <1>4, <2>1, RestOfRest DEF rest
<1>11. CASE outcome # "sent"
  <2>1. s_pc = "closed" /\ pc' \in {"prompt", "killed"} /\ total' = 0 /\ read' = 0
    BY <1>3, <1>11 DEF ClientSends, ServerGone, Goes, Outcome
  <2>2. Silent'
    BY <1>1, <1>2, <2>1 DEF Silent, Counters
  <2>. QED
    BY <1>1, <1>7, <2>1, <2>2 DEF Conversation, Phase, OneReader, Counters, UploadIntact, AtPrompt
<1>12. CASE outcome = "sent"
  <2>. DEFINE q == received'.data \o Data(to_server')
  <2>1. Incoming(rest) /\ s_pc # "closed" =>
          /\ q \in Seq(Byte) /\ Rest(e, read + c) \in Seq(Byte)
          /\ Part(q \o Rest(e, read + c), e)
    <3>. SUFFICES ASSUME Incoming(rest), s_pc # "closed"
                  PROVE  /\ q \in Seq(Byte) /\ Rest(e, read + c) \in Seq(Byte)
                         /\ Part(q \o Rest(e, read + c), e)
      OBVIOUS
    <3>1. Part(p \o rest, e)
      BY DEF Incoming, p, e
    <3>2. /\ First(First(rest, c), n) \in Seq(Byte) /\ Rest(rest, c) \in Seq(Byte)
          /\ Part((p \o First(First(rest, c), n)) \o Rest(rest, c), e)
      BY <1>4, <1>5, <1>6, <1>8, <1>9, <3>1, PartSent
    <3>3. to_server' = to_server \o Bytes(First(First(rest, c), n))
      BY <1>3, <1>8 DEF ClientSends, ServerGone
    <3>4. q = p \o First(First(rest, c), n)
      BY <1>1, <1>4, <3>2, <3>3, PartAdded DEF p
    <3>5. q \in Seq(Byte)
      BY <1>5, <3>2, <3>4, ConcatProperties
    <3>. QED
      BY <1>10, <3>2, <3>4, <3>5
  <2>. HIDE DEF q
  <2>2. CASE total + n < Len(e) /\ read + c < Len(e)
    <3>1. /\ total' = total + n /\ read' = read + c /\ UNCHANGED <<pc, temp>>
          /\ total' <= read' /\ read' < Len(e')
      BY <1>2, <1>3, <1>4, <1>7, <1>8, <1>9, <1>12, <2>2
    <3>2. s_pc' = "closed" \/ Incoming(Rest(UsersCopy, read))'
      BY <1>1, <1>2, <1>7, <2>1, <3>1 DEF Incoming, q, e
    <3>3. Uploading'
      BY <1>1, <1>2, <1>7, <3>1, <3>2 DEF Uploading, e
    <3>. QED
      BY <1>1, <1>7, <3>1, <3>3 DEF Conversation, Phase, OneReader, Counters, UploadIntact
  <2>3. CASE ~(total + n < Len(e) /\ read + c < Len(e))
    <3>1. total' = 0 /\ read' = 0 /\ pc' = "confirm"
      BY <1>3, <1>8, <1>12, <2>3 DEF Goes
    <3>2. read + c = Len(e)
      <4>1. read + c <= Len(e)
        BY <1>4, <1>6, <1>8
      <4>2. total + n <= read + c
        BY <1>2, <1>4, <1>8, <1>9
      <4>. QED
        BY <1>4, <1>8, <1>9, <2>3, <4>1, <4>2
    <3>3. Rest(e, read + c) = <<>>
      BY <1>4, <3>2, RestEnds
    <3>4. Confirming'
      <4>1. CASE s_pc = "closed"
        BY <1>1, <1>2, <4>1 DEF Confirming
      <4>2. CASE Incoming(rest) /\ s_pc # "closed"
        <5>1. Part(q \o <<>>, e)
          BY <2>1, <3>3, <4>2
        <5>2. Incoming(<<>>)'
          BY <1>1, <1>7, <4>2, <5>1 DEF Incoming, q, e
        <5>. QED
          BY <1>1, <1>2, <5>2 DEF Confirming
      <4>. QED
        BY <1>2, <4>1, <4>2
    <3>. QED
      BY <1>1, <1>7, <3>1, <3>4 DEF Conversation, Phase, OneReader, Counters, UploadIntact
  <2>. QED
    BY <2>2, <2>3
<1>. QED
  BY <1>11, <1>12

(* The upload ends, and a thread may start.                                *)
LEMMA HearConfirmationConverses ==
  Conversation /\ TypeInv /\ HearConfirmation => Conversation'
<1>. SUFFICES ASSUME Conversation, TypeInv, HearConfirmation PROVE Conversation'
  OBVIOUS
<1>. USE DEF transfer, user, server
<1>1. /\ UNCHANGED <<total, read, s_pc, outgoing, uploads, overlapped, to_server>>
      /\ pc = "confirm" /\ Confirming /\ Running = {} /\ Counters
  BY DEF HearConfirmation, Conversation, Phase, OneReader
<1>2. PICK n \in 0 .. Len(to_client) : Hears(n) /\ Takes(n)
  BY DEF HearConfirmation
<1>2a. PICK m : monitors' \in {monitors, [monitors EXCEPT ![m] = "status"]}
  BY DEF HearConfirmation
<1>3. pc' = "prompt" /\ Silent'
  BY <1>1, <1>2, Hearing DEF Confirming, HearConfirmation, Return
<1>4. \A m1, m2 \in Running' : m1 = m2
  <2>1. monitors \in [Monitor -> {"off", "status", "GET_SCAN_STATUS", "result",
                                  "GET_SCAN_RESULT", "ended"}]
    BY DEF TypeInv, ClientTyped
  <2>2. \A x \in Running' : x = m
    BY <1>1, <1>2a, <2>1 DEF Running
  <2>. QED
    BY <2>2
<1>. QED
  BY <1>1, <1>3, <1>4 DEF Conversation, Phase, OneReader, Counters, UploadIntact, AtPrompt

(* What a receive_response takes beyond the header is lost to the file.    *)
LEMMA HearHeaderConverses == Conversation /\ TypeInv /\ HearHeader => Conversation'
<1>. SUFFICES ASSUME Conversation, TypeInv, HearHeader PROVE Conversation'
  OBVIOUS
<1>. USE DEF transfer, user, server, exchange
<1>. DEFINE e == ServersCopy
<1>1. /\ UNCHANGED <<monitors, total, read, s_pc, outgoing, uploads, overlapped, to_server,
                     secret>>
      /\ pc = "header" /\ Announcing /\ Running = {} /\ Counters /\ total = 0
  BY DEF HearHeader, Conversation, Phase, OneReader, Counters
<1>2. PICK n \in 0 .. Len(to_client) :
        /\ Hears(n) /\ Takes(n)
        /\ \/ /\ BeginsWith(First(to_client, n), "SIZE")
              /\ pc' = "download" /\ file_size' = to_client[1].arg /\ temp' = File(<<>>)
           \/ ~BeginsWith(First(to_client, n), "SIZE") /\ pc' = "prompt"
  BY DEF HearHeader, Return
<1>3. /\ n \in Nat /\ n <= Len(to_client) /\ (n = 0 => to_client = <<>> /\ s_pc = "closed")
      /\ to_client \in Seq(Item) /\ outgoing \in Seq(Byte)
  BY <1>2, Heard DEF TypeInv, StreamsTyped, ServerTyped, ServerGone
<1>4. First(to_client, n) \in Seq(Item) /\ Len(First(to_client, n)) = n
      /\ \A i \in 1 .. n : First(to_client, n)[i] = to_client[i]
  BY <1>3, FirstAndRest
<1>5. e \in Seq(Byte) /\ e # <<>> /\ Len(e) \in Nat /\ 0 < Len(e)
  <2>1. e \in Seq(Byte) /\ e # <<>> /\ Len(e) \in Nat
    BY EncryptedTyped DEF TypeInv, ClientTyped, ServersCopy
  <2>. QED
    BY <2>1, EmptySeq
<1>6. e' = e /\ Running' = {}
  BY <1>1 DEF ServersCopy, Encrypted, Running
<1>. HIDE DEF e
<1>7. CASE n = 0
  <2>1. ~BeginsWith(First(to_client, n), "SIZE")
    BY <1>4, <1>7, EmptySeq DEF BeginsWith
  <2>2. pc' = "prompt"
    BY <1>2, <2>1
  <2>3. Rest(<<>>, 0) = <<>>
    <3>1. <<>> \in Seq(Item)
      OBVIOUS
    <3>. QED
      BY <3>1, RestEnds
  <2>4. Silent'
    BY <1>1, <1>2, <1>3, <1>7, <2>3 DEF Silent, Counters, Takes
  <2>. QED
    BY <1>1, <2>2, <2>4, Returns
<1>8. CASE n # 0
  <2>1. to_client # <<>> /\ n >= 1 /\ Len(to_client) >= 1
    BY <1>3, <1>8, EmptySeq
  <2>2. /\ Sending /\ to_client[1] = Reply("SIZE", "BYTES", Len(e))
        /\ Part(Data(Rest(to_client, 1)) \o outgoing, e)
    BY <1>1, <2>1 DEF Announcing, e
  <2>3. BeginsWith(First(to_client, n), "SIZE")
    <3>1. First(to_client, n) # <<>> /\ First(to_client, n)[1] = to_client[1]
      BY <1>3, <1>4, <2>1, EmptySeq
    <3>. QED
      BY <2>2, <3>1 DEF BeginsWith, IsReply, Reply
  <2>4. pc' = "download" /\ file_size' = Len(e) /\ temp' = File(<<>>)
    BY <1>2, <2>2, <2>3 DEF Reply
  <2>. DEFINE t == Rest(to_client, 1)
              f == First(t, n - 1)
              r == Rest(t, n - 1)
  <2>5. t \in Seq(Item) /\ Len(t) = Len(to_client) - 1
    <3>1. 1 \in Nat /\ 1 <= Len(to_client)
      BY <2>1
    <3>. QED
      BY <1>3, <3>1, FirstAndRest
  <2>6. r = Rest(to_client, n)
    <3>1. 1 \in Nat /\ n - 1 \in Nat /\ 1 + (n - 1) = n /\ 1 + (n - 1) <= Len(to_client)
      BY <1>3, <2>1
    <3>2. Rest(t, n - 1) = Rest(to_client, 1 + (n - 1))
      BY <1>3, <3>1, RestOfRest
    <3>. QED
      BY <3>1, <3>2
  <2>7. Part(Data(t) \o outgoing, e)
    BY <2>2
  <2>. HIDE DEF t
  <2>8. f \in Seq(Item) /\ r \in Seq(Item) /\ f \o r = t
    <3>1. n - 1 \in Nat /\ n - 1 <= Len(t)
      BY <1>3, <2>1, <2>5
    <3>. QED
      BY <2>5, <3>1, FirstAndRest
  <2>. HIDE DEF f, r
  <2>9. Data(t) = Data(f) \o Data(r) /\ Data(f) \in Seq(Byte) /\ Data(r) \in Seq(Byte)
    BY <2>8, DataConcat, DataTyped
  <2>10. (Data(f) \o Data(r)) \o outgoing = Data(f) \o (Data(r) \o outgoing)
    BY <1>3, <2>9, ConcatAssociative
  <2>11. Data(r) \o outgoing \in Seq(Byte)
    BY <1>3, <2>9, ConcatProperties
  <2>12. Part(Data(f) \o (Data(r) \o outgoing), e)
    BY <2>7, <2>9, <2>10
  <2>13. Part(Data(r) \o outgoing, e)
    BY <1>5, <2>9, <2>11, <2>12, PartSuffix
  <2>14. <<>> \o Data(r) = Data(r)
    BY <2>9, EmptyJoined
  <2>15. to_client' = r
    BY <1>2, <2>6 DEF Takes
  <2>16. temp'.data = <<>> /\ Len(temp'.data) = 0
    <3>1. Len(<<>>) = 0
      OBVIOUS
    <3>. QED
      BY <2>4, <3>1 DEF File
  <2>17. Part((temp'.data \o Data(to_client')) \o outgoing', e)
    BY <1>1, <2>13, <2>14, <2>15, <2>16
  <2>18. Sending'
    BY <1>1, <2>2 DEF Sending
  <2>19. Downloading'
    BY <1>1, <1>5, <1>6, <2>4, <2>16, <2>17, <2>18 DEF Downloading, e
  <2>. QED
    BY <1>1, <1>6, <2>4, <2>19 DEF Conversation, Phase, OneReader, Counters, UploadIntact
<1>. QED
  BY <1>7, <1>8

(* One round of the download: its last byte is the last of the file.       *)
LEMMA DownloadDataConverses == Conversation /\ TypeInv /\ DownloadData => Conversation'
<1>. SUFFICES ASSUME Conversation, TypeInv, DownloadData PROVE Conversation'
  OBVIOUS
<1>. USE DEF transfer, user, server, exchange
<1>. DEFINE e     == ServersCopy
            left  == file_size - total
            limit == IF left < BUFFER_SIZE THEN left ELSE BUFFER_SIZE
            t     == temp.data
<1>1. /\ UNCHANGED <<monitors, read, s_pc, outgoing, uploads, overlapped, to_server, secret>>
      /\ pc = "download" /\ Downloading /\ Running = {} /\ Counters /\ read = 0
  BY DEF DownloadData, DownloadUntil, Conversation, Phase, OneReader, Counters
<1>2. PICK n \in Available(to_client, ServerGone, limit) :
        /\ Takes(n)
        /\ \/ n = 0 /\ pc' = "prompt" /\ temp' = NoFile /\ total' = 0
           \/ /\ n # 0 /\ temp' = File(t \o Data(First(to_client, n)))
              /\ \/ /\ total + n < file_size /\ total' = total + n
                    /\ UNCHANGED <<pc, file_size>>
                 \/ ~(total + n < file_size) /\ total' = 0 /\ pc' = "decrypt"
  BY DEF DownloadData, DownloadUntil, Return
<1>3. /\ to_client \in Seq(Item) /\ outgoing \in Seq(Byte) /\ t \in Seq(Byte)
      /\ total \in Nat /\ file_size \in Nat
  BY DEF TypeInv, StreamsTyped, ServerTyped, ClientTyped, FileState
<1>4. limit \in Int /\ limit <= left /\ left \in Int
  <2>1. left \in Int /\ BUFFER_SIZE \in Int
    BY <1>3, CipherAssumption
  <2>. HIDE DEF left
  <2>. QED
    BY <2>1
<1>. HIDE DEF limit
<1>5. /\ n \in Nat /\ n <= Len(to_client) /\ n <= left
      /\ (n = 0 => to_client = <<>> /\ s_pc = "closed")
  <2>1. /\ n \in Nat /\ n <= Len(to_client)
        /\ (n = 0 => to_client = <<>> /\ ServerGone)
        /\ (n > 0 => n <= limit /\ to_client # <<>>)
    BY <1>2, <1>3, <1>4, Received
  <2>2. left >= 0
    BY <1>1, <1>3 DEF Downloading
  <2>. QED
    BY <1>4, <2>1, <2>2 DEF ServerGone
<1>6. e \in Seq(Byte) /\ Len(e) \in Nat
  BY EncryptedTyped DEF TypeInv, ClientTyped, ServersCopy
<1>7. e' = e /\ Running' = {}
  BY <1>1 DEF ServersCopy, Encrypted, Running
<1>8. /\ Sending /\ file_size = Len(e) /\ total = Len(t) /\ total < file_size
      /\ Part((t \o Data(to_client)) \o outgoing, e)
  BY <1>1 DEF Downloading
<1>. HIDE DEF e, t
<1>9. CASE n = 0
  <2>1. pc' = "prompt" /\ total' = 0
    BY <1>2, <1>9
  <2>2. Rest(<<>>, 0) = <<>>
    <3>1. <<>> \in Seq(Item)
      OBVIOUS
    <3>. QED
      BY <3>1, RestEnds
  <2>3. Silent'
    BY <1>1, <1>2, <1>5, <1>9, <2>2 DEF Silent, Counters, Takes
  <2>. QED
    BY <1>1, <1>7, <2>1, <2>3 DEF Conversation, Phase, OneReader, Counters, UploadIntact, AtPrompt
<1>10. CASE n # 0
  <2>. DEFINE f == First(to_client, n)
              r == Rest(to_client, n)
              u == t \o Data(f)
  <2>1. f \in Seq(Item) /\ Len(f) = n /\ r \in Seq(Item)
    BY <1>3, <1>5, FirstAndRest
  <2>2. u \o Data(r) = t \o Data(to_client)
    BY <1>3, <1>5, PartMoved
  <2>3. to_client' = r
    BY <1>2 DEF Takes
  <2>4. temp' = File(u)
    BY <1>2, <1>10 DEF t
  <2>. HIDE DEF f, r
  <2>5. Data(f) \in Seq(Byte) /\ Len(Data(f)) = n /\ Data(r) \in Seq(Byte)
        /\ Len(Data(r)) = Len(r)
    BY <2>1, DataTyped
  <2>6. u \in Seq(Byte) /\ Len(u) = total + n
    <3>1. t \in Seq(Byte)
      BY <1>3 DEF t
    <3>2. u \in Seq(Byte) /\ Len(u) = Len(t) + Len(Data(f))
      BY <2>5, <3>1, ConcatProperties
    <3>. QED
      BY <1>8, <2>5, <3>2
  <2>. HIDE DEF u
  <2>7. Part((u \o Data(r)) \o outgoing, e)
    BY <1>8, <2>2
  <2>8. CASE total + n < file_size
    <3>1. total' = total + n /\ UNCHANGED <<pc, file_size>>
      BY <1>2, <1>10, <2>8
    <3>2. temp'.data = u
      BY <2>4 DEF File
    <3>3. Downloading'
      BY <1>1, <1>7, <1>8, <2>3, <2>6, <2>7, <2>8, <3>1, <3>2 DEF Downloading, Sending, e
    <3>. QED
      BY <1>1, <1>7, <3>1, <3>3 DEF Conversation, Phase, OneReader, Counters, UploadIntact
  <2>9. CASE ~(total + n < file_size)
    <3>1. total' = 0 /\ pc' = "decrypt"
      BY <1>2, <1>10, <2>9
    <3>2. Len(u) = Len(e)
      BY <1>3, <1>5, <1>8, <2>6, <2>9
    <3>3. u \o Data(r) \in Seq(Byte) /\ Len(u \o Data(r)) = Len(u) + Len(Data(r))
      BY <2>5, <2>6, ConcatProperties
    <3>. DEFINE v == u \o Data(r)
    <3>4. v \in Seq(Byte) /\ Len(v) = Len(u) + Len(r) /\ Part(v \o outgoing, e)
      BY <2>5, <2>7, <3>3
    <3>5. Part(u, e)
      <4>1. Part(v, e)
        BY <1>3, <1>6, <3>4, PartPrefix
      <4>. QED
        BY <1>6, <2>5, <2>6, <4>1, PartPrefix
    <3>. HIDE DEF v
    <3>6. u = e
      BY <3>2, <3>5 DEF Part
    <3>7. Len(v \o outgoing) = Len(v) + Len(outgoing)
      BY <1>3, <3>4, ConcatProperties
    <3>8. Len(v \o outgoing) <= Len(e)
      BY <3>4 DEF Part
    <3>9. Len(r) \in Nat /\ Len(outgoing) \in Nat
      BY <1>3, <2>1, LenProperties
    <3>10. Len(r) = 0 /\ Len(outgoing) = 0
      BY <1>6, <3>2, <3>4, <3>7, <3>8, <3>9
    <3>11. to_client' = <<>> /\ outgoing = <<>>
      BY <1>3, <2>1, <2>3, <3>10, EmptySeq
    <3>12. Silent'
      BY <1>1, <1>8, <3>11 DEF Silent, Sending, Counters
    <3>13. temp' = File(ServersCopy')
      BY <1>7, <2>4, <3>6 DEF e
    <3>. QED
      BY <1>1, <1>7, <3>1, <3>12, <3>13 DEF Conversation, Phase, OneReader, Counters, UploadIntact
  <2>. QED
    BY <2>8, <2>9
<1>. QED
  BY <1>9, <1>10

(* The download ends.                                                      *)
LEMMA DownloadDecryptConverses == Conversation /\ DownloadDecrypt => Conversation'
<1>. SUFFICES ASSUME Conversation, DownloadDecrypt PROVE Conversation'
  OBVIOUS
<1>. USE DEF transfer, user, server, exchange
<1>1. /\ UNCHANGED <<monitors, total, read, s_pc, outgoing, uploads, overlapped, to_server,
                     to_client>>
      /\ pc = "decrypt" /\ pc' = "prompt" /\ Silent /\ Running = {}
  BY DEF DownloadDecrypt, Return, Conversation, Phase, OneReader
<1>2. Silent'
  BY <1>1 DEF Silent
<1>. QED
  BY <1>1, <1>2, Returns

(* The detached thread is the only reader while it runs.                   *)
LEMMA MonitorConverses ==
  ASSUME Conversation, TypeInv, NEW m \in Monitor, MonitorAsk(m) \/ MonitorHear(m)
  PROVE  Conversation'
<1>. USE DEF transfer, user, server, exchange
<1>1. /\ UNCHANGED <<total, read, s_pc, outgoing, uploads, overlapped>>
      /\ m \in Running /\ ~ClientGone
  BY DEF MonitorAsk, MonitorHear, MonitorHearThen, Running
<1>2. pc = "prompt" /\ AtPrompt /\ Counters /\ \A m1 \in Running : m1 = m
  BY <1>1 DEF Conversation, Phase, OneReader, ClientGone
<1>3. monitors \in [Monitor -> {"off", "status", "GET_SCAN_STATUS", "result",
                                "GET_SCAN_RESULT", "ended"}]
  BY DEF TypeInv, ClientTyped
<1>4. ASSUME NEW x, monitors' = [monitors EXCEPT ![m] = x]
      PROVE  \A m1 \in Running' : m1 = m
  <2>. SUFFICES ASSUME NEW m1 \in Running', m1 # m PROVE FALSE
    OBVIOUS
  <2>1. m1 \in Running
    BY <1>3, <1>4 DEF Running
  <2>. QED
    BY <1>2, <2>1
<1>5. CASE MonitorAsk(m)
  <2>1. PICK name \in ScanQuery, outcome \in Outcome :
          /\ ClientSends(<<Command(name, 1)>>, outcome)
          /\ Goes(outcome, pc, pc)
          /\ monitors' = [monitors EXCEPT ![m] =
               CASE outcome = "sent" -> name
                 [] outcome # "sent" -> IF @ = "status" THEN "status" ELSE "ended"]
    BY <1>5 DEF MonitorAsk, ScanQuery
  <2>2. monitors[m] \in {"status", "result"} /\ to_client' = to_client
    BY <1>5 DEF MonitorAsk
  <2>3. Silent
    BY <1>2, <2>2 DEF AtPrompt, ScanQuery
  <2>4. pc' \in {"prompt", "killed"}
    BY <1>2, <2>1 DEF Goes, Outcome
  <2>5. \A m1 \in Running' : m1 = m
    BY <1>4, <2>1
  <2>6. AtPrompt'
    <3>1. CASE outcome = "sent"
      <4>1. monitors'[m] = name
        BY <1>3, <2>1, <3>1
      <4>2. m \in Running'
        BY <4>1 DEF Running, ScanQuery
      <4>3. PICK c : c = Command(name, 1)
        OBVIOUS
      <4>4. to_client' = <<>> /\ (s_pc' = "closed" \/ (s_pc' = "idle" /\ to_server' = <<c>>))
        BY <1>1, <2>1, <2>2, <2>3, <3>1, <4>3, Asking
      <4>5. c = Command(monitors'[m], 1)
        BY <4>1, <4>3
      <4>6. Exchange(Command(monitors[m], 1), About(1))'
        BY <4>4, <4>5 DEF Exchange
      <4>7. monitors'[m] \in ScanQuery
        BY <4>1
      <4>. QED
        BY <4>2, <4>6, <4>7 DEF AtPrompt
    <3>2. CASE outcome # "sent"
      <4>1. PICK c : c = Command(name, 1)
        OBVIOUS
      <4>2. Silent'
        BY <1>1, <2>1, <2>2, <2>3, <3>2, <4>1, Asking
      <4>. QED
        BY <4>2 DEF AtPrompt
    <3>. QED
      BY <3>1, <3>2
  <2>. QED
    BY <1>1, <1>2, <2>4, <2>5, <2>6 DEF Conversation, Phase, OneReader, Counters, UploadIntact
<1>6. CASE MonitorHear(m)
  <2>1. PICK n \in 0 .. Len(to_client) : Hears(n) /\ Takes(n)
    BY <1>6 DEF MonitorHear, MonitorHearThen
  <2>1a. PICK x : monitors' = [monitors EXCEPT ![m] = x]
    BY <1>6 DEF MonitorHear, MonitorHearThen
  <2>2. UNCHANGED <<pc, to_server>>
    BY <1>6 DEF MonitorHear, MonitorHearThen
  <2>3. Silent'
    BY <1>1, <1>2, <2>1, <2>2, Hearing DEF AtPrompt, Silent, Exchange
  <2>4. \A m1 \in Running' : m1 = m
    BY <1>4, <2>1a
  <2>. QED
    BY <1>1, <1>2, <2>2, <2>3, <2>4
       DEF Conversation, Phase, OneReader, Counters, UploadIntact, AtPrompt
<1>. QED
  BY <1>5, <1>6

-----------------------------------------------------------------------------
(* The server's part in it.                                                *)

(* No items, no bytes.                                                     *)
LEMMA NoData == Data(<<>>) = <<>>
<1>1. <<>> \in Seq(Item) /\ Len(<<>>) = 0
  OBVIOUS
<1>2. Data(<<>>) \in Seq(Byte) /\ Len(Data(<<>>)) = 0
  BY <1>1, DataTyped
<1>. QED
  BY <1>2, EmptySeq

(* The server's part of the key exchange.                                  *)
LEMMA ServerKeyConverses == Conversation /\ KeyInv /\ ServerKey => Conversation'
<1>. SUFFICES ASSUME Conversation, KeyInv, ServerKey PROVE Conversation'
  OBVIOUS
<1>. USE DEF transfer, user, server, exchange
<1>1. /\ s_pc = "key" /\ s_pc' \in {"idle", "closed"}
      /\ UNCHANGED <<pc, monitors, total, read, outgoing, uploads, overlapped>>
  BY DEF ServerKey
<1>2. pc \in {"connected", "key"}
  BY <1>1 DEF KeyInv
<1>3. Running' = Running
  BY <1>1 DEF Running
<1>. QED
  BY <1>1, <1>2, <1>3 DEF Conversation, Phase, OneReader, Counters, UploadIntact

(* A request is answered with one reply.                                   *)
LEMMA CommandAnswered ==
  ASSUME TypeInv, ServerCommand, NEW c, to_server = <<c>>, to_client = <<>>
  PROVE  /\ to_server' = <<>> /\ s_pc = "idle" /\ c \in Item
         /\ \E reply \in Answers(c) :
              /\ to_client' = <<reply>>
              /\ \/ /\ reply.text = "READY" /\ s_pc' = "receive" /\ received' = File(<<>>)
                    /\ expected_size' = c.arg /\ UNCHANGED outgoing
                 \/ /\ reply.text # "READY" /\ reply.status = "SIZE" /\ s_pc' = "send"
                    /\ outgoing' = EncryptFile(ServerFile, DerivedKey(s_secret))
                 \/ /\ reply.text # "READY" /\ reply.status # "SIZE"
                    /\ UNCHANGED <<s_pc, outgoing>>
<1>1. PICK n \in Available(to_server, ClientGone, Len(to_server)) :
        /\ to_server' = Rest(to_server, n)
        /\ IF n = 0
           THEN s_pc' = "closed" /\ UNCHANGED <<to_client, received, expected_size, outgoing>>
           ELSE \E reply \in Answers(to_server[1]) :
                /\ to_client' = Append(to_client, reply)
                /\ CASE reply.text = "READY" ->
                          /\ s_pc' = "receive" /\ received' = File(<<>>)
                          /\ expected_size' = to_server[1].arg /\ UNCHANGED outgoing
                     [] reply.status = "SIZE" ->
                          /\ s_pc' = "send"
                          /\ outgoing' = EncryptFile(ServerFile, DerivedKey(s_secret))
                          /\ UNCHANGED <<received, expected_size>>
                     [] OTHER -> UNCHANGED <<s_pc, received, expected_size, outgoing>>
  BY DEF ServerCommand
<1>2. to_server \in Seq(Item) /\ Len(to_server) = 1 /\ to_server # <<>> /\ to_server[1] = c
  BY DEF TypeInv, StreamsTyped
<1>3. n = 1
  <2>1. 1 \in Int
    OBVIOUS
  <2>2. n \in Nat /\ n <= Len(to_server) /\ (n = 0 => to_server = <<>>)
    BY <1>1, <1>2, <2>1, Received
  <2>. QED
    BY <1>2, <2>2
<1>4. c \in Item
  <2>1. 1 \in 1 .. Len(to_server)
    BY <1>2
  <2>. QED
    BY <1>2, <2>1, ElementOfSeq
<1>5. to_server' = <<>>
  BY <1>1, <1>3, RestOfOne
<1>6. PICK reply \in Answers(c) :
        /\ to_client' = Append(<<>>, reply)
        /\ (CASE reply.text = "READY" ->
                   /\ s_pc' = "receive" /\ received' = File(<<>>)
                   /\ expected_size' = to_server[1].arg /\ UNCHANGED outgoing
              [] reply.status = "SIZE" ->
                   /\ s_pc' = "send"
                   /\ outgoing' = EncryptFile(ServerFile, DerivedKey(s_secret))
                   /\ UNCHANGED <<received, expected_size>>
              [] OTHER -> UNCHANGED <<s_pc, received, expected_size, outgoing>>)
  BY <1>1, <1>2, <1>3
<1>7. to_client' = <<reply>>
  <2>1. <<>> \in Seq({reply})
    OBVIOUS
  <2>. QED
    BY <1>6, <2>1, Appended
<1>8. reply.text = "READY" => reply.status # "SIZE"
  BY <1>4, AnswersAre DEF Reply, Ready, Refused, SizeReply, About, ScanQuery
<1>9. s_pc = "idle"
  BY DEF ServerCommand
<1>. QED
  BY <1>2, <1>4, <1>5, <1>6, <1>7, <1>8, <1>9

(* So does a request that changes nothing else.                            *)
LEMMA ExchangeAnswered ==
  ASSUME TypeInv, ServerCommand, NEW c, to_server = <<c>>, to_client = <<>>, NEW replies,
         \A r \in Answers(c) : r \in replies /\ r.text # "READY" /\ r.status # "SIZE"
  PROVE  Exchange(c, replies)' /\ s_pc' = "idle" /\ UNCHANGED outgoing
<1>1. PICK r \in replies : to_client' = <<r>>
  BY CommandAnswered
<1>2. to_server' = <<>> /\ s_pc' = "idle" /\ UNCHANGED outgoing
  BY CommandAnswered
<1>. QED
  BY <1>1, <1>2 DEF Exchange

(* Whatever the client waits for, it was its request that the server read. *)
LEMMA ServerCommandConverses == Conversation /\ TypeInv /\ KeyInv /\ ServerCommand => Conversation'
<1>. SUFFICES ASSUME Conversation, TypeInv, KeyInv, ServerCommand PROVE Conversation'
  OBVIOUS
<1>. USE DEF transfer, user, server, exchange
<1>1. /\ UNCHANGED <<pc, command, temp, secret, monitors, total, read, uploads, overlapped,
                     file_size>>
      /\ s_pc = "idle" /\ outgoing = <<>>
  BY DEF ServerCommand, Conversation, Counters
<1>2. /\ Running' = Running /\ UsersCopy' = UsersCopy /\ ServersCopy' = ServersCopy
      /\ OneReader' /\ UploadIntact'
  BY <1>1 DEF Running, UsersCopy, ServersCopy, Encrypted, Conversation, OneReader, UploadIntact
<1>3. Counters' <=> (s_pc' = "send" <=> outgoing' # <<>>)
  BY <1>1 DEF Conversation, Counters
<1>4. CASE to_server = <<>>
  <2>1. /\ ClientGone /\ s_pc' = "closed" /\ UNCHANGED <<to_client, outgoing>>
    BY <1>4 DEF ServerCommand, Available
  <2>2. AtPrompt /\ pc \in {"exited", "killed"}
    BY <2>1 DEF Conversation, Phase, ClientGone
  <2>3. AtPrompt'
    <3>1. CASE Silent
      BY <1>1, <2>1, <3>1 DEF AtPrompt, Silent
    <3>2. CASE ~Silent
      <4>1. PICK m \in Running :
              monitors[m] \in ScanQuery /\ Exchange(Command(monitors[m], 1), About(1))
        BY <2>2, <3>2 DEF AtPrompt
      <4>2. to_client = <<>> \/ \E r \in About(1) : to_client = <<r>>
        BY <4>1 DEF Exchange
      <4>3. Exchange(Command(monitors[m], 1), About(1))'
        BY <2>1, <4>2 DEF Exchange, About
      <4>. QED
        BY <1>1, <1>2, <4>1, <4>3 DEF AtPrompt
    <3>. QED
      BY <3>1, <3>2
  <2>. QED
    BY <1>1, <1>2, <1>3, <2>1, <2>2, <2>3 DEF Conversation, Phase
<1>5. CASE to_server # <<>>
  <2>1. pc \notin {"connected", "key"}
    BY <1>1, <1>5 DEF KeyInv
  <2>2. pc \notin {"register", "upload", "confirm", "download", "decrypt"}
    BY <1>1, <1>5
       DEF Conversation, Phase, Silent, Uploading, Confirming, Incoming, Downloading, Sending
  <2>3. ASSUME NEW name \in CommandName, NEW arg \in Nat, to_server = <<Command(name, arg)>>,
               to_client = <<>>
        PROVE  /\ Command(name, arg) \in CommandItem
               /\ Command(name, arg).name = name /\ Command(name, arg).arg = arg
               /\ "name" \in DOMAIN Command(name, arg)
    BY <2>3 DEF Command, CommandItem
  <2>4. CASE pc = "registering"
    <3>1. PICK c : c = Command("REGISTER_CLIENT", 0)
      OBVIOUS
    <3>2. to_server = <<c>> /\ to_client = <<>>
      BY <1>1, <1>5, <2>4, <3>1 DEF Conversation, Phase, Registering, Exchange
    <3>3. c \in Item /\ "name" \in DOMAIN c /\ c.name = "REGISTER_CLIENT"
      BY <3>1, CommandTyped DEF CommandName, Command
    <3>4. \A r \in Answers(c) : /\ r \in {Reply("OK", "REGISTERED", 0)}
                                /\ r.text # "READY" /\ r.status # "SIZE"
      BY <3>3, AnswersAre DEF Reply, ScanQuery
    <3>5. /\ Exchange(c, {Reply("OK", "REGISTERED", 0)})' /\ s_pc' = "idle"
          /\ UNCHANGED outgoing
      BY <3>2, <3>4, ExchangeAnswered
    <3>6. Registering'
      BY <3>1, <3>5 DEF Registering, Exchange
    <3>. QED
      BY <1>1, <1>2, <1>3, <2>4, <3>5, <3>6 DEF Conversation, Phase
  <2>5. ASSUME NEW name \in ScanQuery, NEW arg \in Nat, NEW c, c = Command(name, arg),
               to_server = <<c>>, to_client = <<>>
        PROVE  Exchange(c, About(arg))' /\ s_pc' = "idle" /\ UNCHANGED outgoing
    <3>1. c \in Item /\ "name" \in DOMAIN c /\ c.name = name /\ c.arg = arg
      BY <2>5, CommandTyped DEF CommandName, Command, ScanQuery
    <3>2. \A r \in Answers(c) : r \in About(arg)
      BY <3>1, AnswersAre DEF ScanQuery
    <3>3. \A r \in About(arg) : r.text # "READY" /\ r.status # "SIZE"
      BY DEF About
    <3>. QED
      BY <2>5, <3>2, <3>3, ExchangeAnswered
  <2>6. CASE pc \in {"prompt", "exited", "killed"}
    <3>1. PICK m \in Running :
            monitors[m] \in ScanQuery /\ Exchange(Command(monitors[m], 1), About(1))
      BY <1>1, <1>5, <2>6 DEF Conversation, Phase, AtPrompt, Silent
    <3>2. PICK c : c = Command(monitors[m], 1)
      OBVIOUS
    <3>3. to_server = <<c>> /\ to_client = <<>>
      BY <1>1, <1>5, <3>1, <3>2 DEF Exchange
    <3>4. Exchange(c, About(1))' /\ s_pc' = "idle" /\ UNCHANGED outgoing
      BY <2>5, <3>1, <3>2, <3>3
    <3>5. AtPrompt'
      <4>1. Exchange(Command(monitors[m], 1), About(1))'
        BY <1>1, <3>2, <3>4 DEF Exchange
      <4>. QED
        BY <1>1, <1>2, <3>1, <4>1 DEF AtPrompt
    <3>. QED
      BY <1>1, <1>2, <1>3, <2>6, <3>4, <3>5 DEF Conversation, Phase
  <2>7. CASE pc = "answer"
    <3>1. PICK name \in ScanQuery, job \in 1 .. MAX_JOBS :
            command = Command(name, job) /\ Exchange(command, About(job))
      BY <2>7 DEF Conversation, Phase, Answering
    <3>2. to_server = <<command>> /\ to_client = <<>>
      BY <1>1, <1>5, <3>1 DEF Exchange
    <3>3. job \in Nat
      OBVIOUS
    <3>6. Exchange(command, About(job))' /\ s_pc' = "idle" /\ UNCHANGED outgoing
      <4>1. PICK c : c = command
        OBVIOUS
      <4>2. Exchange(c, About(job))' /\ s_pc' = "idle" /\ UNCHANGED outgoing
        BY <2>5, <3>1, <3>2, <3>3, <4>1
      <4>. QED
        BY <1>1, <4>1, <4>2 DEF Exchange
    <3>7. Answering'
      BY <1>1, <3>1, <3>6 DEF Answering, Exchange
    <3>. QED
      BY <1>1, <1>2, <1>3, <2>7, <3>6, <3>7 DEF Conversation, Phase
  <2>8. CASE pc = "ready"
    <3>1. PICK l, c : l = Len(UsersCopy) /\ c = Command("UPLOAD_FILE", l)
      OBVIOUS
    <3>2. temp = File(UsersCopy) /\ to_server = <<c>> /\ to_client = <<>>
      BY <1>1, <1>5, <2>8, <3>1 DEF Conversation, Phase, Announced, Exchange
    <3>3. "name" \in DOMAIN c /\ c.name = "UPLOAD_FILE" /\ c.arg = l
      BY <3>1 DEF Command
    <3>4. /\ to_server' = <<>>
          /\ \/ to_client' = <<Refused>> /\ UNCHANGED <<s_pc, outgoing>>
             \/ /\ to_client' = <<Ready>> /\ s_pc' = "receive" /\ received' = File(<<>>)
                /\ expected_size' = l /\ UNCHANGED outgoing
      <4>1. PICK reply \in Answers(c) :
              /\ to_client' = <<reply>>
              /\ \/ /\ reply.text = "READY" /\ s_pc' = "receive" /\ received' = File(<<>>)
                    /\ expected_size' = c.arg /\ UNCHANGED outgoing
                 \/ /\ reply.text # "READY" /\ reply.status = "SIZE" /\ s_pc' = "send"
                    /\ outgoing' = EncryptFile(ServerFile, DerivedKey(s_secret))
                 \/ /\ reply.text # "READY" /\ reply.status # "SIZE"
                    /\ UNCHANGED <<s_pc, outgoing>>
        BY <3>2, CommandAnswered
      <4>2. c \in Item /\ to_server' = <<>>
        BY <3>2, CommandAnswered
      <4>3. reply \in {Ready, Refused}
        BY <3>3, <4>2, AnswersAre DEF ScanQuery
      <4>4. Ready.text = "READY" /\ Refused.text # "READY" /\ Refused.status # "SIZE"
        BY DEF Ready, Refused, Reply
      <4>. QED
        BY <3>3, <4>1, <4>2, <4>3, <4>4
    <3>5. Announced'
      <4>1. temp' = File(UsersCopy')
        BY <1>1, <1>2, <3>2
      <4>2. CASE to_client' = <<Refused>> /\ UNCHANGED <<s_pc, outgoing>>
        <5>1. Exchange(Command("UPLOAD_FILE", Len(UsersCopy)), {Refused})'
          BY <1>1, <3>4, <4>2 DEF Exchange, Refused
        <5>. QED
          BY <4>1, <5>1 DEF Announced
      <4>3. CASE /\ to_client' = <<Ready>> /\ s_pc' = "receive" /\ received' = File(<<>>)
                 /\ expected_size' = l
        <5>1. received'.data = <<>>
          BY <4>3 DEF File
        <5>2. expected_size' = Len(UsersCopy')
          BY <1>2, <3>1, <4>3
        <5>. QED
          BY <3>4, <4>1, <4>3, <5>1, <5>2 DEF Announced, Ready
      <4>. QED
        BY <3>4, <4>2, <4>3
    <3>. QED
      BY <1>1, <1>2, <1>3, <2>8, <3>4, <3>5 DEF Conversation, Phase
  <2>9. CASE pc = "header"
    <3>1. PICK c : c = Command("DOWNLOAD_FILE", 0)
      OBVIOUS
    <3>2. to_server = <<c>> /\ to_client = <<>>
      BY <1>1, <1>5, <2>9, <3>1 DEF Conversation, Phase, Announcing, Sending
    <3>3. "name" \in DOMAIN c /\ c.name = "DOWNLOAD_FILE"
      BY <3>1 DEF Command
    <3>4. PICK reply \in Answers(c) :
            /\ to_client' = <<reply>>
            /\ \/ reply.text = "READY"
               \/ /\ reply.text # "READY" /\ reply.status = "SIZE" /\ s_pc' = "send"
                  /\ outgoing' = EncryptFile(ServerFile, DerivedKey(s_secret))
               \/ reply.text # "READY" /\ reply.status # "SIZE"
      BY <3>2, CommandAnswered
    <3>5. c \in Item /\ to_server' = <<>>
      BY <3>2, CommandAnswered
    <3>6. reply = SizeReply
      BY <3>3, <3>5, AnswersAre DEF ScanQuery
    <3>7. s_secret = secret
      BY <2>9 DEF KeyInv
    <3>8. SizeReply = Reply("SIZE", "BYTES", Len(ServersCopy))
      BY <3>7 DEF SizeReply, ServersCopy, Encrypted
    <3>9. to_client' = <<Reply("SIZE", "BYTES", Len(ServersCopy))>>
          /\ s_pc' = "send" /\ outgoing' = ServersCopy
      BY <3>4, <3>6, <3>7, <3>8 DEF Reply, ServersCopy, Encrypted
    <3>10. ServersCopy \in Seq(Byte) /\ ServersCopy # <<>> /\ Len(ServersCopy) \in Nat
      BY EncryptedTyped DEF TypeInv, ClientTyped, ServersCopy
    <3>11. Announcing'
      <4>1. Data(Rest(to_client', 1)) \o outgoing' = ServersCopy
        BY <3>9, <3>10, RestOfOne, NoData, EmptyJoined
      <4>2. Part(Data(Rest(to_client', 1)) \o outgoing', ServersCopy')
        BY <1>2, <3>10, <4>1 DEF Part
      <4>3. Sending'
        BY <3>5, <3>9 DEF Sending
      <4>4. to_client'[1] = Reply("SIZE", "BYTES", Len(ServersCopy')) /\ to_client' # <<>>
        BY <1>2, <3>9
      <4>. QED
        BY <4>2, <4>3, <4>4 DEF Announcing
    <3>. QED
      BY <1>1, <1>2, <1>3, <2>9, <3>9, <3>10, <3>11 DEF Conversation, Phase
  <2>. QED
    BY <2>1, <2>2, <2>4, <2>6, <2>7, <2>8, <2>9 DEF TypeInv, ClientTyped
<1>. QED
  BY <1>4, <1>5

(* The file that is complete is the user's, and it decrypts.               *)
LEMMA ServerReceiveConverses ==
  Conversation /\ TypeInv /\ KeyInv /\ ServerReceive => Conversation'
<1>. SUFFICES ASSUME Conversation, TypeInv, KeyInv, ServerReceive PROVE Conversation'
  OBVIOUS
<1>. USE DEF transfer, user, server, exchange
<1>. DEFINE e == UsersCopy
            p == received.data \o Data(to_server)
<1>1. /\ UNCHANGED <<pc, command, temp, secret, monitors, total, read, overlapped, file_size,
                     s_secret, expected_size, outgoing>>
      /\ s_pc = "receive" /\ outgoing = <<>>
      /\ \/ /\ to_server' = to_server /\ s_pc' = "closed" /\ UNCHANGED <<to_client, uploads>>
         \/ \E n, whole : TakesPart(n, whole)
  BY ReceiveRound DEF Conversation, Counters
<1>2. Running' = Running /\ e' = e /\ OneReader'
  BY <1>1 DEF Running, UsersCopy, Encrypted, Conversation, OneReader
<1>3. s_pc' # "send" => Counters'
  BY <1>1 DEF Conversation, Counters
<1>4. pc \in {"ready", "upload", "confirm"}
  <2>1. pc \notin {"connected", "key"}
    BY <1>1 DEF KeyInv
  <2>2. pc \notin {"register", "registering", "prompt", "exited", "killed", "answer", "header",
                   "download", "decrypt"}
    BY <1>1 DEF Conversation, Phase, Silent, Registering, AtPrompt, Answering, Exchange,
                Announcing, Downloading, Sending
  <2>. QED
    BY <2>1, <2>2 DEF TypeInv, ClientTyped
<1>5. CASE to_server' = to_server /\ s_pc' = "closed" /\ UNCHANGED <<to_client, uploads>>
  <2>1. UploadIntact'
    BY <1>1, <1>5 DEF Conversation, UploadIntact
  <2>2. CASE pc = "ready"
    <3>1. Announced /\ to_client = <<Ready>>
      BY <1>1, <2>2 DEF Conversation, Phase, Announced, Exchange
    <3>2. Announced'
      BY <1>1, <1>2, <1>5, <3>1 DEF Announced, Ready
    <3>. QED
      BY <1>1, <1>2, <1>3, <1>5, <2>1, <2>2, <3>2 DEF Conversation, Phase
  <2>3. CASE pc = "upload"
    <3>1. Uploading'
      BY <1>1, <1>2, <1>5, <2>3 DEF Conversation, Phase, Uploading
    <3>. QED
      BY <1>1, <1>2, <1>3, <1>5, <2>1, <2>3, <3>1 DEF Conversation, Phase
  <2>4. CASE pc = "confirm"
    <3>1. to_client = <<>>
      BY <1>1, <2>4 DEF Conversation, Phase, Confirming
    <3>2. Confirming'
      BY <1>5, <3>1 DEF Confirming
    <3>. QED
      BY <1>1, <1>2, <1>3, <1>5, <2>1, <2>4, <3>2 DEF Conversation, Phase
  <2>. QED
    BY <1>4, <2>2, <2>3, <2>4
<1>6. CASE \E n, whole : TakesPart(n, whole)
  <2>1. PICK n, whole : TakesPart(n, whole)
    BY <1>6
  <2>. DEFINE r == Rest(to_server, n)
  <2>2. /\ to_server \in Seq(Item) /\ received.data \in Seq(Byte) /\ Len(received.data) \in Nat
        /\ expected_size \in Nat
    BY LenProperties DEF TypeInv, StreamsTyped, ServerTyped, FileState
  <2>3. /\ n \in Nat /\ n # 0 /\ n <= Len(to_server)
        /\ whole \in Seq(Byte) /\ whole = received.data \o Data(First(to_server, n))
        /\ to_server' = r /\ received'.data = whole
    BY <2>1 DEF TakesPart, File
  <2>4. r \in Seq(Item) /\ Len(r) \in Nat
    BY <2>2, <2>3, FirstAndRest, LenProperties
  <2>5. whole \o Data(r) = p
    BY <2>2, <2>3, PartMoved
  <2>. HIDE DEF r, p
  <2>6. pc # "ready"
    <3>1. to_server # <<>>
      BY <2>2, <2>3, EmptySeq
    <3>. QED
      BY <1>1, <3>1 DEF Conversation, Phase, Announced, Exchange
  <2>7. /\ e \in Seq(Byte) /\ Len(e) \in Nat
    BY EncryptedTyped DEF TypeInv, ClientTyped, UsersCopy
  <2>8. Data(r) \in Seq(Byte) /\ Len(Data(r)) = Len(r)
    BY <2>4, DataTyped
  <2>9. CASE Len(whole) < expected_size /\ UNCHANGED <<s_pc, to_client, uploads>>
    <3>1. UploadIntact'
      BY <1>1, <2>9 DEF Conversation, UploadIntact
    <3>2. received'.data \o Data(to_server') = p
      BY <2>3, <2>5
    <3>3. ASSUME NEW rest, Incoming(rest) PROVE /\ s_pc' = "receive" /\ expected_size' = Len(e')
                 /\ Part((received'.data \o Data(to_server')) \o rest, e')
      BY <1>1, <1>2, <2>9, <3>2, <3>3 DEF Incoming, p
    <3>4. CASE pc = "upload"
      <4>1. /\ temp = File(e) /\ total <= read /\ read < Len(e) /\ to_client = <<>>
            /\ Incoming(Rest(e, read))
        BY <1>1, <3>4 DEF Conversation, Phase, Uploading
      <4>2. Incoming(Rest(UsersCopy, read))'
        BY <1>1, <1>2, <3>3, <4>1 DEF Incoming
      <4>3. Uploading'
        BY <1>1, <1>2, <2>9, <4>1, <4>2 DEF Uploading
      <4>. QED
        BY <1>1, <1>2, <1>3, <2>9, <3>1, <3>4, <4>3 DEF Conversation, Phase
    <3>5. CASE pc = "confirm"
      <4>1. Incoming(<<>>) /\ to_client = <<>>
        BY <1>1, <3>5 DEF Conversation, Phase, Confirming
      <4>2. Incoming(<<>>)'
        BY <3>3, <4>1 DEF Incoming
      <4>3. Confirming'
        BY <2>9, <4>1, <4>2 DEF Confirming
      <4>. QED
        BY <1>1, <1>2, <1>3, <2>9, <3>1, <3>5, <4>3 DEF Conversation, Phase
    <3>. QED
      BY <1>4, <2>6, <3>4, <3>5
  <2>10. CASE Len(whole) = expected_size
    <3>1. ASSUME NEW rest \in Seq(Byte), Incoming(rest)
          PROVE  whole = e /\ Len(rest) = 0 /\ Len(r) = 0
      <4>1. Part(p \o rest, e) /\ Len(whole) = Len(e)
        BY <2>10, <3>1 DEF Incoming, p
      <4>2. p \in Seq(Byte) /\ Len(p) = Len(whole) + Len(Data(r))
        <5>1. whole \in Seq(Byte) /\ Data(r) \in Seq(Byte)
          BY <2>3, <2>8
        <5>2. /\ whole \o Data(r) \in Seq(Byte)
              /\ Len(whole \o Data(r)) = Len(whole) + Len(Data(r))
          BY <5>1, ConcatProperties
        <5>. QED
          BY <2>5, <5>2
      <4>3. Part(p, e)
        BY <2>7, <4>1, <4>2, PartPrefix
      <4>4. Part(whole, e)
        <5>1. Part(whole \o Data(r), e)
          BY <2>5, <4>3
        <5>. QED
          BY <2>3, <2>7, <2>8, <5>1, PartPrefix
      <4>5. Len(p \o rest) = Len(p) + Len(rest)
        BY <4>2, ConcatProperties
      <4>6. Len(p \o rest) <= Len(e)
        BY <4>1 DEF Part
      <4>7. Len(rest) \in Nat
        BY LenProperties
      <4>8. Len(rest) = 0 /\ Len(r) = 0
        BY <2>4, <2>7, <2>8, <4>1, <4>2, <4>5, <4>6, <4>7
      <4>. QED
        BY <4>1, <4>4, <4>8 DEF Part
    <3>2. pc # "upload"
      <4>. SUFFICES ASSUME pc = "upload" PROVE FALSE
        OBVIOUS
      <4>1. Incoming(Rest(e, read)) /\ read < Len(e) /\ read \in Nat
        BY <1>1 DEF Conversation, Phase, Uploading, TypeInv, ClientTyped
      <4>2. Rest(e, read) \in Seq(Byte) /\ Len(Rest(e, read)) = Len(e) - read
        <5>1. e \in Seq(Byte) /\ read \in Nat /\ read <= Len(e)
          BY <2>7, <4>1
        <5>. HIDE DEF e
        <5>. QED
          BY <5>1, FirstAndRest
      <4>3. Len(Rest(e, read)) = 0
        BY <3>1, <4>1, <4>2
      <4>. QED
        BY <2>7, <4>1, <4>2, <4>3
    <3>3. pc = "confirm"
      BY <1>4, <2>6, <3>2
    <3>4. Incoming(<<>>) /\ to_client = <<>>
      BY <1>1, <3>3 DEF Conversation, Phase, Confirming
    <3>5. whole = e /\ Len(r) = 0
      <4>1. <<>> \in Seq(Byte)
        OBVIOUS
      <4>. QED
        BY <3>1, <3>4, <4>1
    <3>6. to_server' = <<>>
      BY <2>3, <2>4, <3>5, EmptySeq
    <3>. DEFINE k == DerivedKey(s_secret)
    <3>7. k \in CryptoKey /\ e = EncryptFile(UserFile, k)
      <4>1. s_secret = secret
        BY <3>3 DEF KeyInv
      <4>2. s_secret \in 0 .. dh_p - 1
        BY DEF TypeInv, ServerTyped
      <4>. QED
        BY <4>1, <4>2, SessionAssumption DEF UsersCopy, Encrypted
    <3>. HIDE DEF k
    <3>8. Decrypts(whole, k) /\ DecryptFile(whole, k) = UserFile
      <4>1. UserFile \in Seq(Byte)
        BY SessionAssumption
      <4>. QED
        BY <2>3, <3>5, <3>7, <4>1, DecryptsOnlyItsOwn
    <3>9. /\ s_pc' = "idle" /\ Service!Submit /\ uploads' = Append(uploads, UserFile)
          /\ to_client' = Append(<<>>, Reply("OK", "JOB", Len(jobs')))
      <4>1. \/ Len(whole) < expected_size
            \/ /\ Decrypts(whole, k) /\ s_pc' = "idle" /\ Service!Submit
               /\ uploads' = Append(uploads, DecryptFile(whole, k))
               /\ to_client' = Append(to_client, Reply("OK", "JOB", Len(jobs')))
            \/ ~Decrypts(whole, k)
        BY <2>1 DEF TakesPart, k
      <4>2. ~(Len(whole) < expected_size)
        BY <2>2, <2>10
      <4>. QED
        BY <3>4, <3>8, <4>1, <4>2
    <3>10. \E l \in 0 .. MAX_JOBS : to_client' = <<Reply("OK", "JOB", l)>>
      <4>1. Len(jobs') \in 0 .. MAX_JOBS
        <5>1. Service!TypeOK'
          BY <3>9, JobsTyped DEF TypeInv
        <5>2. Len(jobs') \in Nat /\ Len(jobs') <= MAX_JOBS
          BY <5>1, LenProperties DEF Service!TypeOK
        <5>. QED
          BY <5>2, SessionAssumption
      <4>2. PICK x : x = Reply("OK", "JOB", Len(jobs'))
        OBVIOUS
      <4>3. <<>> \in Seq({x})
        OBVIOUS
      <4>4. Append(<<>>, x) = <<x>>
        BY <4>3, Appended
      <4>. QED
        BY <3>9, <4>1, <4>2, <4>4
    <3>11. Confirming'
      BY <3>6, <3>9, <3>10 DEF Confirming
    <3>12. UploadIntact'
      <4>. SUFFICES ASSUME ~overlapped', NEW i \in DOMAIN uploads' PROVE uploads'[i] = UserFile
        BY DEF UploadIntact
      <4>1. ~overlapped
        BY <1>1
      <4>2. \A j \in DOMAIN uploads : uploads[j] = UserFile
        BY <4>1 DEF Conversation, UploadIntact
      <4>3. uploads \in Seq(Seq(Byte)) /\ UserFile \in Seq(Byte)
        BY SessionAssumption DEF TypeInv, ServerTyped
      <4>4. Len(uploads) \in Nat /\ DOMAIN uploads = 1 .. Len(uploads)
        BY <4>3, LenProperties
      <4>5. /\ uploads' \in Seq(Seq(Byte)) /\ Len(uploads') = Len(uploads) + 1
            /\ uploads'[Len(uploads) + 1] = UserFile
            /\ \A j \in 1 .. Len(uploads) : uploads'[j] = uploads[j]
        BY <3>9, <4>3, AppendProperties
      <4>6. DOMAIN uploads' = 1 .. Len(uploads) + 1
        BY <4>5, LenProperties
      <4>. QED
        BY <4>2, <4>4, <4>5, <4>6
    <3>. QED
      BY <1>1, <1>2, <1>3, <3>3, <3>9, <3>11, <3>12 DEF Conversation, Phase
  <2>. QED
    BY <2>1, <2>9, <2>10 DEF TakesPart
<1>. QED
  BY <1>1, <1>5, <1>6

(* One send of send_file: what it does not take is lost to the file.       *)
LEMMA ServerSendConverses == Conversation /\ TypeInv /\ KeyInv /\ ServerSend => Conversation'
<1>. SUFFICES ASSUME Conversation, TypeInv, KeyInv, ServerSend PROVE Conversation'
  OBVIOUS
<1>. USE DEF transfer, user, server, exchange
<1>. DEFINE e     == ServersCopy
            chunk == Buffer(outgoing)
<1>1. /\ UNCHANGED <<pc, command, temp, secret, monitors, total, read, uploads, overlapped,
                     file_size, to_server>>
      /\ s_pc = "send" /\ outgoing # <<>>
  BY DEF ServerSend, Conversation, Counters
<1>2. Running' = Running /\ e' = e /\ OneReader' /\ UploadIntact'
  BY <1>1 DEF Running, ServersCopy, Encrypted, Conversation, OneReader, UploadIntact
<1>3. pc \in {"header", "download"}
  <2>1. pc \notin {"connected", "key"}
    BY <1>1 DEF KeyInv
  <2>2. pc \notin {"register", "registering", "prompt", "exited", "killed", "answer", "ready",
                   "upload", "confirm", "decrypt"}
    BY <1>1 DEF Conversation, Phase, Silent, Registering, AtPrompt, Answering, Exchange,
                Announced, Uploading, Confirming, Incoming
  <2>. QED
    BY <2>1, <2>2 DEF TypeInv, ClientTyped
<1>4. to_client \in Seq(Item) /\ outgoing \in Seq(Byte) /\ temp.data \in Seq(Byte)
  BY DEF TypeInv, StreamsTyped, ServerTyped, ClientTyped, FileState
<1>5. e \in Seq(Byte)
  BY EncryptedTyped DEF TypeInv, ClientTyped, ServersCopy
<1>6. PICK n \in 1 .. Len(chunk) :
        /\ to_client' = to_client \o Bytes(First(chunk, n))
        /\ outgoing' = Rest(outgoing, Len(chunk))
        /\ s_pc' = IF outgoing' = <<>> THEN "idle" ELSE "send"
  BY <1>3 DEF ServerSend, ClientGone
<1>7. PICK c \in Nat : c <= Len(outgoing) /\ chunk = First(outgoing, c) /\ Len(chunk) = c
  BY <1>4, BufferTyped
<1>. HIDE DEF e, chunk
<1>. DEFINE d == First(First(outgoing, c), n)
            o == Rest(outgoing, c)
<1>8. n \in Nat /\ n <= c
  BY <1>7
<1>9. /\ to_client' = to_client \o Bytes(d) /\ outgoing' = o
      /\ (s_pc' = "send" <=> outgoing' # <<>>) /\ s_pc' \in {"idle", "send"}
  BY <1>6, <1>7
<1>10. Counters'
  BY <1>1, <1>9 DEF Conversation, Counters
<1>11. ASSUME NEW p \in Seq(Byte), Part(p \o outgoing, e)
       PROVE  Part((p \o d) \o o, e)
  BY <1>4, <1>5, <1>7, <1>8, <1>11, PartSent
<1>12. d \in Seq(Byte) /\ o \in Seq(Byte)
  <2>1. First(outgoing, c) \in Seq(Byte) /\ Len(First(outgoing, c)) = c /\ o \in Seq(Byte)
    BY <1>4, <1>7, FirstAndRest
  <2>2. n <= Len(First(outgoing, c))
    BY <1>8, <2>1
  <2>. QED
    BY <1>8, <2>1, <2>2, FirstAndRest
<1>. HIDE DEF d, o
<1>13. CASE pc = "header"
  <2>. DEFINE t == Rest(to_client, 1)
  <2>1. /\ Sending /\ to_client # <<>> /\ to_client[1] = Reply("SIZE", "BYTES", Len(e))
        /\ Part(Data(t) \o outgoing, e)
    BY <1>1, <1>13 DEF Conversation, Phase, Announcing, e
  <2>2. t \in Seq(Item)
    <3>1. 1 \in Nat /\ 1 <= Len(to_client)
      BY <1>4, <2>1, EmptySeq, LenProperties
    <3>. QED
      BY <1>4, <3>1, FirstAndRest
  <2>3. Bytes(d) \in Seq(Item) /\ Data(Bytes(d)) = d
    BY <1>12, BytesTyped
  <2>4. /\ Rest(to_client', 1) = t \o Bytes(d) /\ to_client' # <<>>
        /\ to_client'[1] = to_client[1]
    BY <1>4, <1>9, <2>1, <2>3, RestGrows
  <2>. HIDE DEF t
  <2>5. Data(Rest(to_client', 1)) = Data(t) \o d
    BY <2>2, <2>3, <2>4, DataConcat
  <2>6. Data(t) \in Seq(Byte)
    BY <2>2, DataTyped
  <2>7. Part(Data(Rest(to_client', 1)) \o outgoing', e)
    BY <1>9, <1>11, <2>1, <2>5, <2>6
  <2>8. Sending'
    BY <1>1, <1>9, <2>1 DEF Sending
  <2>9. Announcing'
    BY <1>2, <2>1, <2>4, <2>7, <2>8 DEF Announcing, e
  <2>. QED
    BY <1>1, <1>2, <1>10, <1>13, <2>9 DEF Conversation, Phase
<1>14. CASE pc = "download"
  <2>. DEFINE p == temp.data \o Data(to_client)
  <2>1. /\ Sending /\ file_size = Len(e) /\ total = Len(temp.data) /\ total < file_size
        /\ Part(p \o outgoing, e)
    BY <1>1, <1>14 DEF Conversation, Phase, Downloading, e
  <2>2. p \in Seq(Byte)
    BY <1>4, DataTyped, ConcatProperties
  <2>3. temp.data \o Data(to_client') = p \o d
    BY <1>4, <1>9, <1>12, PartAdded
  <2>. HIDE DEF p
  <2>4. Part((temp.data \o Data(to_client')) \o outgoing', e)
    BY <1>9, <1>11, <2>1, <2>2, <2>3
  <2>5. Sending'
    BY <1>1, <1>9, <2>1 DEF Sending
  <2>6. Downloading'
    BY <1>1, <1>2, <2>1, <2>4, <2>5 DEF Downloading, e
  <2>. QED
    BY <1>1, <1>2, <1>10, <1>14, <2>6 DEF Conversation, Phase
<1>. QED
  BY <1>3, <1>13, <1>14

(* Which leaves it as it was.                                              *)
LEMMA OthersConverse == Conversation /\ UNCHANGED talk => Conversation'
<1>. SUFFICES ASSUME Conversation, UNCHANGED talk PROVE Conversation'
  OBVIOUS
<1>. USE DEF talk
<1>1. Running' = Running /\ UsersCopy' = UsersCopy /\ ServersCopy' = ServersCopy
  BY DEF Running, UsersCopy, ServersCopy, Encrypted
<1>2. Silent' = Silent /\ \A c, rs : Exchange(c, rs)' = Exchange(c, rs)
  BY DEF Silent, Exchange
<1>3. AtPrompt => AtPrompt'
  BY <1>1 DEF AtPrompt, Silent, Exchange
<1>4. /\ Registering => Registering'
      /\ Answering => Answering'
  BY DEF Registering, Answering, Exchange
<1>5. Announced => Announced'
  BY <1>1 DEF Announced, Exchange
<1>6. \A rest : Incoming(rest) => Incoming(rest)'
  BY <1>1 DEF Incoming
<1>7. Uploading => Uploading'
  <2>. SUFFICES ASSUME Uploading PROVE Uploading'
    OBVIOUS
  <2>1. s_pc = "closed" \/ Incoming(Rest(UsersCopy, read))
    BY DEF Uploading
  <2>2. s_pc' = "closed" \/ Incoming(Rest(UsersCopy, read))'
    BY <1>1, <2>1 DEF Incoming
  <2>. QED
    BY <1>1, <2>2 DEF Uploading
<1>8. Confirming => Confirming'
  BY <1>6 DEF Confirming
<1>9. Announcing => Announcing'
  BY <1>1 DEF Announcing, Sending
<1>10. Downloading => Downloading'
  BY <1>1 DEF Downloading, Sending
<1>11. Silent => Silent'
  BY DEF Silent
<1>12. Phase'
  BY <1>1, <1>3, <1>4, <1>5, <1>7, <1>8, <1>9, <1>10, <1>11 DEF Conversation, Phase
<1>13. OneReader' /\ Counters' /\ UploadIntact'
  BY <1>1 DEF Conversation, OneReader, Counters, UploadIntact
<1>. QED
  BY <1>12, <1>13 DEF Conversation

(* A server that goes cuts the conversation short, but says nothing new.   *)
LEMMA ServerClosesConverses ==
  Conversation /\ TypeInv /\ KeyInv /\ ServerCloses => Conversation'
<1>. SUFFICES ASSUME Conversation, TypeInv, KeyInv, ServerCloses PROVE Conversation'
  OBVIOUS
<1>. USE DEF transfer, user, server, exchange
<1>. DEFINE e == ServersCopy
<1>1. /\ UNCHANGED <<pc, command, temp, secret, monitors, total, read, uploads, overlapped,
                     file_size, to_server>>
      /\ s_pc \notin {"receive", "closed"} /\ s_pc' = "closed" /\ outgoing' = <<>>
      /\ to_client' = to_client \/ to_client' = <<>>
  BY DEF ServerCloses
<1>2. /\ Running' = Running /\ e' = e /\ UsersCopy' = UsersCopy
      /\ OneReader' /\ UploadIntact' /\ Counters'
  BY <1>1 DEF Running, UsersCopy, ServersCopy, Encrypted, Conversation, OneReader, UploadIntact,
              Counters
<1>3. Silent => Silent'
  BY <1>1 DEF Silent
<1>4. ASSUME NEW c, NEW replies, Exchange(c, replies) PROVE Exchange(c, replies)'
  BY <1>1, <1>4 DEF Exchange
<1>5. Registering => Registering'
  BY <1>1 DEF Registering, Exchange
<1>6. AtPrompt => AtPrompt'
  BY <1>1, <1>2, <1>3, <1>4 DEF AtPrompt, Exchange
<1>7. Answering => Answering'
  BY <1>1 DEF Answering, Exchange
<1>8. Announced => Announced'
  <2>. SUFFICES ASSUME Announced PROVE Announced'
    OBVIOUS
  <2>1. temp' = File(UsersCopy')
    BY <1>1, <1>2 DEF Announced
  <2>2. Exchange(Command("UPLOAD_FILE", Len(UsersCopy)), {Refused})
    BY <1>1 DEF Announced
  <2>3. Exchange(Command("UPLOAD_FILE", Len(UsersCopy)), {Refused})'
    BY <1>1, <1>2, <2>2 DEF Exchange, Refused
  <2>. QED
    BY <2>1, <2>3 DEF Announced
<1>9. Uploading => Uploading'
  BY <1>1, <1>2 DEF Uploading
<1>10. Confirming => Confirming'
  BY <1>1 DEF Confirming, Incoming
<1>11. /\ to_client \in Seq(Item) /\ outgoing \in Seq(Byte) /\ temp.data \in Seq(Byte)
       /\ e \in Seq(Byte)
  BY EncryptedTyped
     DEF TypeInv, StreamsTyped, ServerTyped, ClientTyped, FileState, ServersCopy
<1>. HIDE DEF e
<1>12. ASSUME Announcing PROVE Announcing'
  <2>1. CASE to_client' = <<>>
    BY <1>1, <2>1 DEF Announcing
  <2>2. CASE to_client' = to_client /\ to_client # <<>>
    <3>. DEFINE r == Rest(to_client, 1)
    <3>1. to_client[1] = Reply("SIZE", "BYTES", Len(e)) /\ Part(Data(r) \o outgoing, e)
      BY <1>12, <2>2 DEF Announcing, e
    <3>2. r \in Seq(Item)
      <4>1. 1 \in Nat /\ 1 <= Len(to_client)
        BY <1>11, <2>2, EmptySeq, LenProperties
      <4>. QED
        BY <1>11, <4>1, FirstAndRest
    <3>. HIDE DEF r
    <3>3. Data(r) \in Seq(Byte)
      BY <3>2, DataTyped
    <3>4. Part(Data(r), e)
      BY <1>11, <3>1, <3>3, PartPrefix
    <3>5. Part(Data(Rest(to_client', 1)) \o outgoing', e')
      BY <1>1, <1>2, <2>2, <3>3, <3>4, EmptyJoined DEF r
    <3>6. Sending'
      BY <1>1 DEF Sending
    <3>. QED
      BY <1>1, <1>2, <2>2, <3>1, <3>5, <3>6 DEF Announcing, e
  <2>. QED
    BY <1>1, <2>1, <2>2
<1>13. ASSUME Downloading PROVE Downloading'
  <2>. DEFINE t == temp.data
              p == t \o Data(to_client)
  <2>1. file_size = Len(e) /\ total = Len(t) /\ total < file_size /\ Part(p \o outgoing, e)
    BY <1>13 DEF Downloading, e
  <2>2. Data(to_client) \in Seq(Byte) /\ t \in Seq(Byte)
    BY <1>11, DataTyped
  <2>. HIDE DEF t
  <2>3. p \in Seq(Byte)
    BY <2>2, ConcatProperties
  <2>4. Part(p, e)
    <3>. HIDE DEF p
    <3>. QED
      BY <1>11, <2>1, <2>3, PartPrefix
  <2>5. Part(t, e)
    BY <1>11, <2>2, <2>4, PartPrefix
  <2>6. Part((temp'.data \o Data(to_client')) \o outgoing', e')
    <3>1. temp'.data = t /\ t \o <<>> = t /\ p \o <<>> = p
      BY <1>1, <2>2, <2>3, EmptyJoined DEF t
    <3>2. CASE to_client' = to_client
      BY <1>1, <1>2, <2>4, <3>1, <3>2
    <3>3. CASE to_client' = <<>>
      BY <1>1, <1>2, <2>5, <3>1, <3>3, NoData
    <3>. QED
      BY <1>1, <3>2, <3>3
  <2>7. Sending'
    BY <1>1 DEF Sending
  <2>. QED
    BY <1>1, <1>2, <2>1, <2>6, <2>7 DEF Downloading, e, t
<1>14. Phase'
  BY <1>1, <1>2, <1>3, <1>5, <1>6, <1>7, <1>8, <1>9, <1>10, <1>12, <1>13 DEF Conversation, Phase, e
<1>. QED
  BY <1>2, <1>14 DEF Conversation

(* A command that overlapped stays one that did.                           *)
LEMMA Overlaps == [Next]_vars => (overlapped => overlapped')
<1>. SUFFICES ASSUME [Next]_vars, overlapped PROVE overlapped'
  OBVIOUS
<1>. USE DEF user
<1>1. CASE Connect
  BY <1>1 DEF Connect, KeySend, KeyReceive, Register, Registered
<1>2. CASE UserGives
  BY <1>2 DEF UserGives, Quit, AskAboutJob, UploadCommand, DownloadCommand, Ask
<1>3. CASE ClientWaits
  BY <1>3
     DEF ClientWaits, HearAnswer, HearReady, UploadReady, UploadData, HearConfirmation,
         HearHeader, DownloadData, DownloadUntil, DownloadDecrypt
<1>4. CASE \E m \in Monitor : MonitorAsk(m) \/ MonitorHear(m)
  BY <1>4 DEF MonitorAsk, MonitorHear, MonitorHearThen
<1>5. CASE Server \/ ServerWorks \/ ServerCloses
  BY <1>5
     DEF Server, ServerKey, ServerCommand, ServerReceive, ReceiveFile, ServerSend, ServerWorks,
         ServerCloses
<1>6. CASE Terminated \/ UNCHANGED vars
  BY <1>6 DEF Terminated, vars
<1>. QED
  BY <1>1, <1>2, <1>3, <1>4, <1>5, <1>6 DEF Next

-----------------------------------------------------------------------------
(* The conversation is kept.                                               *)

(* Until a command overlaps, every step keeps the conversation.            *)
LEMMA Converses == ConvInv /\ TypeInv /\ KeyInv /\ [Next]_vars => ConvInv'
<1>. SUFFICES ASSUME ConvInv, TypeInv, KeyInv, [Next]_vars, ~overlapped' PROVE Conversation'
  BY DEF ConvInv
<1>0. Conversation
  BY Overlaps DEF ConvInv
<1>1. CASE Connect
  BY <1>0, <1>1, KeySendConverses, KeyReceiveConverses, RegisterConverses, RegisteredConverses
     DEF Connect
<1>2. CASE UserGives
  BY <1>0, <1>2, UserConverses
<1>3. CASE ClientWaits
  BY <1>0, <1>3, HearAnswerConverses, HearReadyConverses, UploadDataConverses,
     HearConfirmationConverses, HearHeaderConverses, DownloadDataConverses,
     DownloadDecryptConverses
     DEF ClientWaits
<1>4. CASE \E m \in Monitor : MonitorAsk(m) \/ MonitorHear(m)
  BY <1>0, <1>4, MonitorConverses
<1>5. CASE Server
  BY <1>0, <1>5, ServerKeyConverses, ServerCommandConverses, ServerReceiveConverses,
     ServerSendConverses
     DEF Server
<1>6. CASE ServerCloses
  BY <1>0, <1>6, ServerClosesConverses
<1>7. CASE ServerWorks \/ Terminated \/ UNCHANGED vars
  <2>1. UNCHANGED talk
    BY <1>7 DEF ServerWorks, Terminated, vars, talk, exchange, user, transfer, server
  <2>. QED
    BY <1>0, <2>1, OthersConverse
<1>. QED
  BY <1>1, <1>2, <1>3, <1>4, <1>5, <1>6, <1>7 DEF Next

(* It holds in every state, then.                                          *)
LEMMA ConversationKept == Spec => []ConvInv
<1>1. Init => ConvInv
  <2>. SUFFICES ASSUME Init PROVE Conversation
    BY DEF ConvInv
  <2>1. Running = {} /\ uploads = <<>>
    BY DEF Init, Running
  <2>2. Phase /\ OneReader /\ Counters
    BY <2>1 DEF Init, Phase, OneReader, Counters
  <2>3. UploadIntact
    BY <2>1 DEF UploadIntact
  <2>. QED
    BY <2>2, <2>3 DEF Conversation
<1>2. ConvInv /\ TypeInv /\ KeyInv /\ [Next]_vars => ConvInv'
  BY Converses
<1>. QED
  BY <1>1, <1>2, TypesKeptAlways, KeysExchanged, PTL DEF Spec

(* What is scanned is the user's file, however the streams were cut.       *)
THEOREM UploadsIntact == Spec => []UploadIntact
<1>1. ConvInv => UploadIntact
  BY DEF ConvInv, Conversation, UploadIntact
<1>. QED
  BY <1>1, ConversationKept, PTL

(* Nobody takes the reply that another waits for.                          *)
THEOREM RepliesHeard == Spec => []RepliesAwaited
<1>1. ConvInv /\ TypeInv /\ KeyInv => RepliesAwaited
  <2>. SUFFICES ASSUME ConvInv, TypeInv, KeyInv, ~overlapped,
                       pc \notin {"key", "header", "download", "exited", "killed"}
                PROVE  Len(to_client) <= 1 /\ \A i \in DOMAIN to_client : Awaited(to_client[i])
    BY DEF RepliesAwaited
  <2>1. Phase /\ OneReader
    BY DEF ConvInv, Conversation
  <2>2. \/ to_client = <<>>
        \/ \E x : to_client = <<x>> /\ IsReply(x) /\ Awaited(x)
    <3>1. CASE pc = "connected"
      BY <3>1 DEF KeyInv
    <3>2. CASE pc \in {"register", "upload", "decrypt"}
      BY <2>1, <3>2 DEF Phase, Silent, Uploading
    <3>3. CASE pc = "registering"
      BY <2>1, <3>3 DEF Phase, Registering, Exchange, Awaited, IsReply, Reply
    <3>4. CASE pc = "prompt"
      <4>1. CASE Silent
        BY <4>1 DEF Silent
      <4>2. CASE ~Silent
        <5>1. PICK m \in Running : Exchange(Command(monitors[m], 1), About(1))
          BY <2>1, <3>4, <4>2 DEF Phase, AtPrompt
        <5>2. to_client = <<>> \/ \E x \in About(1) : to_client = <<x>>
          BY <5>1 DEF Exchange
        <5>3. \A x \in About(1) : IsReply(x) /\ x.arg = 1
          BY DEF About, IsReply
        <5>. QED
          BY <3>4, <5>2, <5>3 DEF Awaited
      <4>. QED
        BY <4>1, <4>2
    <3>5. CASE pc = "answer"
      <4>1. PICK name \in ScanQuery, job \in 1 .. MAX_JOBS :
              command = Command(name, job) /\ Exchange(command, About(job))
        BY <2>1, <3>5 DEF Phase, Answering
      <4>2. command.arg = job
        BY <4>1 DEF Command
      <4>3. to_client = <<>> \/ \E x \in About(job) : to_client = <<x>>
        BY <4>1 DEF Exchange
      <4>4. \A x \in About(job) : IsReply(x) /\ x.arg = job
        BY DEF About, IsReply
      <4>. QED
        BY <3>5, <4>2, <4>3, <4>4 DEF Awaited
    <3>6. CASE pc = "ready"
      <4>1. to_client = <<>> \/ \E x \in {Ready, Refused} : to_client = <<x>>
        BY <2>1, <3>6 DEF Phase, Announced, Exchange
      <4>2. \A x \in {Ready, Refused} : IsReply(x) /\ x.text \in {"READY", "REFUSED"}
        BY DEF Ready, Refused, Reply, IsReply
      <4>. QED
        BY <3>6, <4>1, <4>2 DEF Awaited
    <3>7. CASE pc = "confirm"
      <4>1. to_client = <<>> \/ \E n \in 0 .. MAX_JOBS : to_client = <<Reply("OK", "JOB", n)>>
        BY <2>1, <3>7 DEF Phase, Confirming
      <4>2. \A n \in 0 .. MAX_JOBS : /\ IsReply(Reply("OK", "JOB", n))
                                     /\ Reply("OK", "JOB", n).text = "JOB"
        BY DEF Reply, IsReply
      <4>. QED
        BY <3>7, <4>1, <4>2 DEF Awaited
    <3>. QED
      BY <3>1, <3>2, <3>3, <3>4, <3>5, <3>6, <3>7 DEF TypeInv, ClientTyped
  <2>3. CASE to_client = <<>>
    <3>1. Len(<<>>) = 0 /\ DOMAIN <<>> = {}
      OBVIOUS
    <3>. QED
      BY <2>3, <3>1
  <2>4. CASE \E x : to_client = <<x>> /\ IsReply(x) /\ Awaited(x)
    <3>1. PICK x : to_client = <<x>> /\ Awaited(x)
      BY <2>4
    <3>2. Len(<<x>>) = 1 /\ DOMAIN <<x>> = {1} /\ <<x>>[1] = x
      OBVIOUS
    <3>3. Len(to_client) = 1 /\ DOMAIN to_client = {1} /\ to_client[1] = x
      BY <3>1, <3>2
    <3>. QED
      BY <3>1, <3>3
  <2>. QED
    BY <2>2, <2>3, <2>4
<1>. QED
  BY <1>1, ConversationKept, TypesKeptAlways, KeysExchanged, PTL

(* What is downloaded is the server's file.                                *)
THEOREM DownloadsIntact == Spec => DownloadIntact
<1>. DEFINE A == pc = "decrypt" /\ pc' = "prompt" /\ ~overlapped => local' = File(ServerFile)
<1>1. ConvInv /\ TypeInv /\ [Next]_vars => [A]_vars
  <2>. SUFFICES ASSUME ConvInv, TypeInv, [Next]_vars, pc = "decrypt", pc' = "prompt", ~overlapped
                PROVE  local' = File(ServerFile)
    OBVIOUS
  <2>1. DownloadDecrypt
    <3>1. ~Connect /\ ~UserGives
      BY DEF Connect, KeySend, KeyReceive, Register, Registered, UserGives, Quit, AskAboutJob,
             UploadCommand, DownloadCommand, Ask
    <3>2. /\ ~HearAnswer /\ ~HearReady /\ ~UploadData /\ ~HearConfirmation /\ ~HearHeader
          /\ ~DownloadData
      BY DEF HearAnswer, HearReady, UploadReady, UploadData, HearConfirmation, HearHeader,
             DownloadData, DownloadUntil
    <3>3. ASSUME NEW m \in Monitor PROVE ~MonitorAsk(m) /\ ~MonitorHear(m)
      BY DEF MonitorAsk, MonitorHear, MonitorHearThen, Goes, Outcome
    <3>4. /\ ~Server /\ ~ServerWorks /\ ~ServerCloses /\ ~Terminated /\ ~UNCHANGED vars
      BY DEF Server, ServerKey, ServerCommand, ServerReceive, ReceiveFile, ServerSend,
             ServerWorks, ServerCloses, Terminated, vars
    <3>. QED
      BY <3>1, <3>2, <3>3, <3>4 DEF Next, ClientWaits
  <2>2. temp.data = ServersCopy
    BY DEF ConvInv, Conversation, Phase, File
  <2>. DEFINE k == DerivedKey(secret)
  <2>3. local' = File(DecryptFile(ServersCopy, k)) /\ ServersCopy = EncryptFile(ServerFile, k)
    BY <2>1, <2>2 DEF DownloadDecrypt, ServersCopy, Encrypted
  <2>4. k \in CryptoKey /\ ServerFile \in Seq(Byte) /\ ServersCopy \in Seq(Byte)
    BY SessionAssumption, EncryptedTyped DEF TypeInv, ClientTyped, ServersCopy
  <2>. HIDE DEF k
  <2>5. DecryptFile(ServersCopy, k) = ServerFile
    BY <2>3, <2>4, DecryptsOnlyItsOwn
  <2>. QED
    BY <2>3, <2>5
<1>. QED
  BY <1>1, ConversationKept, TypesKeptAlways, PTL DEF Spec, DownloadIntact
=============================================================================
