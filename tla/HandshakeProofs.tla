-------------------------- MODULE HandshakeProofs --------------------------
(***************************************************************************)
(* Theorems about Handshake, for every set of clients and any number of    *)
(* slots and attempts.                                                     *)
(***************************************************************************)
EXTENDS Handshake, FiniteSetTheorems, TLAPS

(* The parts of TypeOK that count nothing.                                 *)
Position == {"idle", "key", "register", "reply", "joined", "failed"}
Sent     == {PublicKey, SharedSecret, CMD_REGISTER_CLIENT, NL}
Typed ==
  /\ pc \in [Client -> Position]
  /\ key \in [Client -> Seq(Piece)]
  /\ sock \in [Client -> {"open", "closed"}]
  /\ conn \in [Client -> {"none", "queued", "slot", "closed"}]
  /\ to_server \in [Client -> Seq(Sent)]
  /\ to_client \in [Client -> Seq(Piece)]

(* The slots are filled one at a time, so finitely many are, however many  *)
(* clients there are.                                                      *)
Slots == IsFiniteSet(InSlot) /\ Cardinality(InSlot) <= MaxClients

(* The server has no key to send: the first four bytes a UNIX client gets  *)
(* are those of the refusal of its own key, and the rest of the refusal is *)
(* what it gets for an answer to REGISTER_CLIENT.                          *)
Refusal == Pieces("ERROR")
Refused(c) ==
  /\ pc[c] # "joined"
  /\ pc[c] \in {"key", "register", "reply"} => sock[c] = "open"
  /\ pc[c] = "key" =>
       \/ to_client[c] = <<>> /\ to_server[c] = <<PublicKey>>
       \/ to_client[c] = Refusal /\ to_server[c] = <<>>
  /\ pc[c] \in {"register", "reply"} =>
       /\ key[c] = <<Refusal[1]>>
       /\ to_client[c] # <<>> /\ Head(to_client[c]) = Refusal[2]
Stays(c) == pc[c] \in {"idle", "key", "failed"}

HandshakeInv ==
  /\ Typed
  /\ \A c \in UnixClient : Refused(c)
  /\ \A c \in WindowsClient : Stays(c)

(* What follows from it.                                                   *)
NobodyJoins  == \A c \in Client : pc[c] # "joined"
KeyIsRefusal ==
  \A c \in UnixClient : pc[c] \in {"register", "reply", "joined"} => key[c] = <<Refusal[1]>>

-----------------------------------------------------------------------------
(* The streams.                                                            *)

(* What is sent, by whom.                                                  *)
LEMMA Items ==
  /\ \A status \in {"OK", "ERROR"} : Pieces(status) \in Seq(Piece) /\ Len(Pieces(status)) = 2
  /\ \A text \in Seq(Sent) : Answer(text) \in Seq(Piece)
  /\ {<<PublicKey>>, <<SharedSecret>>, <<CMD_REGISTER_CLIENT, NL>>} \subseteq Seq(Sent)
<1>1. ASSUME NEW status \in {"OK", "ERROR"}
      PROVE  Pieces(status) \in Seq(Piece) /\ Len(Pieces(status)) = 2
  <2>1. {[status |-> status, part |-> part] : part \in {"first", "rest"}} \subseteq Piece
    BY DEF Piece
  <2>. QED
    BY <2>1 DEF Pieces
<1>2. \A text \in Seq(Sent) : Answer(text) \in {Pieces("OK"), Pieces("ERROR")}
  BY DEF Answer
<1>3. {PublicKey, SharedSecret, CMD_REGISTER_CLIENT, NL} \subseteq Sent
  BY DEF Sent
<1>4. {<<PublicKey>>, <<SharedSecret>>, <<CMD_REGISTER_CLIENT, NL>>} \subseteq Seq(Sent)
  BY <1>3
<1>. QED
  BY <1>1, <1>2, <1>4

(* A sequence of one item or two.                                          *)
LEMMA One ==
  ASSUME NEW S, NEW s \in Seq(S), Len(s) \in {1, 2}
  PROVE  s # <<>> /\ Head(s) = s[1]
<1>1. Len(<<>>) = 0
  OBVIOUS
<1>. QED
  BY <1>1

LEMMA Two ==
  ASSUME NEW S, NEW s \in Seq(S), Len(s) = 2
  PROVE  s # <<>> /\ Head(s) = s[1] /\ Tail(s) # <<>> /\ Head(Tail(s)) = s[2]
<1>1. Len(s) \in {1, 2}
  OBVIOUS
<1>2. s # <<>> /\ Head(s) = s[1]
  BY <1>1, One, Zenon
<1>3. Tail(s) \in Seq(S) /\ Len(Tail(s)) \in {1, 2} /\ Tail(s)[1] = s[2]
  BY <1>2
<1>4. Tail(s) # <<>> /\ Head(Tail(s)) = Tail(s)[1]
  BY <1>3, One, Zenon
<1>. QED
  BY <1>2, <1>3, <1>4

(* The refusal has two pieces, and neither begins an acceptance.           *)
LEMMA RefusalParts ==
  /\ Refusal \in Seq(Piece) /\ Refusal # <<>> /\ Head(Refusal) = Refusal[1]
  /\ Tail(Refusal) # <<>> /\ Head(Tail(Refusal)) = Refusal[2]
  /\ Refusal[1] # Head(Pieces("OK")) /\ Refusal[2] # Head(Pieces("OK"))
<1>1. Refusal \in Seq(Piece) /\ Len(Refusal) = 2
  BY Items DEF Refusal
<1>2. Refusal[1].status = "ERROR" /\ Refusal[2].status = "ERROR" /\ Head(Pieces("OK")).status = "OK"
  BY DEF Refusal, Pieces
<1>3. /\ Refusal # <<>> /\ Head(Refusal) = Refusal[1]
      /\ Tail(Refusal) # <<>> /\ Head(Tail(Refusal)) = Refusal[2]
  BY <1>1, Two
<1>. QED
  BY <1>1, <1>2, <1>3

(* A public key is not the command the server looks for.                   *)
LEMMA KeyIsNoCommand == Answer(<<PublicKey>>) = Refusal
<1>1. ~IsPrefix(<<CMD_REGISTER_CLIENT>>, <<PublicKey>>)
  <2>. SUFFICES ASSUME SubSeq(<<CMD_REGISTER_CLIENT>>, 1, 1) = SubSeq(<<PublicKey>>, 1, 1)
                PROVE  FALSE
    BY DEF IsPrefix
  <2>1. SubSeq(<<CMD_REGISTER_CLIENT>>, 1, 1)[1] = CMD_REGISTER_CLIENT
    OBVIOUS
  <2>2. SubSeq(<<PublicKey>>, 1, 1)[1] = PublicKey
    OBVIOUS
  <2>. QED
    BY <2>1, <2>2 DEF CMD_REGISTER_CLIENT, PublicKey
<1>. QED
  BY <1>1 DEF Answer, StartsWith, Refusal

-----------------------------------------------------------------------------
(* Types and slots.                                                        *)

(* One step of a client.                                                   *)
LEMMA ClientTyped ==
  ASSUME Typed, NEW c \in Client,
         Connect(c) \/ LoseConnection(c) \/ UnixStep(c) \/ WindowsStep(c)
  PROVE  Typed'
<1>. USE DEF Typed, Position
<1>1. CASE Connect(c)
  <2>1. PICK first \in {<<PublicKey>>, <<SharedSecret>>} :
          to_server' \in {to_server, [to_server EXCEPT ![c] = first]}
    BY <1>1 DEF Connect
  <2>2. first \in Seq(Sent)
    BY <2>1, Items
  <2>3. to_server' \in [Client -> Seq(Sent)]
    BY <2>1, <2>2
  <2>4. /\ key' = [key EXCEPT ![c] = <<>>] /\ to_client' = [to_client EXCEPT ![c] = <<>>]
        /\ <<>> \in Seq(Piece)
    BY <1>1 DEF Connect
  <2>5. /\ pc' \in [Client -> Position] /\ sock' \in [Client -> {"open", "closed"}]
        /\ conn' \in [Client -> {"none", "queued", "slot", "closed"}]
    BY <1>1 DEF Connect
  <2>. QED
    BY <2>3, <2>4, <2>5
<1>2. CASE LoseConnection(c)
  BY <1>2 DEF LoseConnection, Fail
<1>3. CASE UnixTakeKey(c)
  <2>1. Head(to_client[c]) \in Piece /\ Tail(to_client[c]) \in Seq(Piece)
    BY <1>3 DEF UnixTakeKey
  <2>. QED
    BY <1>3, <2>1 DEF UnixTakeKey, Go
<1>4. CASE UnixRegister(c)
  <2>1. to_server[c] \o <<CMD_REGISTER_CLIENT, NL>> \in Seq(Sent)
    BY Items
  <2>. QED
    BY <1>4, <2>1 DEF UnixRegister, Go
<1>5. CASE UnixTakeReply(c)
  <2>1. PICK n \in 1 .. Len(to_client[c]) :
          to_client' = [to_client EXCEPT ![c] = SubSeq(@, n + 1, Len(@))]
    BY <1>5 DEF UnixTakeReply
  <2>2. SubSeq(to_client[c], n + 1, Len(to_client[c])) \in Seq(Piece)
    <3>1. to_client[c] \in Seq(Piece)
      OBVIOUS
    <3>. QED
      BY <3>1
  <2>. QED
    BY <1>5, <2>1, <2>2 DEF UnixTakeReply, Go, Fail
<1>6. CASE WindowsConfirm(c)
  <2>1. PICK n \in 1 .. Len(to_client[c]) : key' = [key EXCEPT ![c] = SubSeq(to_client[c], 1, n)]
    BY <1>6 DEF WindowsConfirm
  <2>2. SubSeq(to_client[c], 1, n) \in Seq(Piece)
    <3>1. to_client[c] \in Seq(Piece)
      OBVIOUS
    <3>. QED
      BY <3>1
  <2>. QED
    BY <1>6, <2>1, <2>2 DEF WindowsConfirm, Fail
<1>7. CASE WindowsTimeout(c)
  BY <1>7 DEF WindowsTimeout, Fail
<1>. QED
  BY <1>1, <1>2, <1>3, <1>4, <1>5, <1>6, <1>7 DEF UnixStep, WindowsStep

(* One step of the server.                                                 *)
LEMMA ServerTyped ==
  ASSUME Typed, (\E c \in Client : Server(c)) \/ StopServer
  PROVE  Typed'
<1>. USE DEF Typed, clientVars
<1>1. ASSUME NEW c \in Client, Accept(c) PROVE Typed'
  BY <1>1 DEF Accept
<1>2. ASSUME NEW c \in Client, Serve(c) PROVE Typed'
  <2>1. to_client[c] \o Answer(to_server[c]) \in Seq(Piece)
    BY Items
  <2>. QED
    BY <1>2, <2>1 DEF Serve
<1>3. ASSUME NEW c \in Client, Drop(c) PROVE Typed'
  BY <1>3 DEF Drop
<1>4. CASE StopServer
  BY <1>4 DEF StopServer
<1>. QED
  BY <1>1, <1>2, <1>3, <1>4 DEF Server

(* Only accept fills a slot, and it counts them first.                     *)
LEMMA SlotsKept ==
  ASSUME Typed, Slots, [Next]_vars
  PROVE  Slots'
<1>1. ASSUME InSlot' \subseteq InSlot PROVE Slots'
  <2>1. /\ IsFiniteSet(InSlot') /\ Cardinality(InSlot') <= Cardinality(InSlot)
        /\ Cardinality(InSlot) \in Nat /\ Cardinality(InSlot') \in Nat
    BY <1>1, FS_Subset, FS_CardinalityType DEF Slots
  <2>. QED
    BY <2>1, HandshakeAssumption DEF Slots
<1>2. ASSUME NEW c \in Client, Accept(c) PROVE Slots'
  <2>1. CASE Cardinality(InSlot) < MaxClients
    <3>1. InSlot' = InSlot \cup {c}
      BY <1>2, <2>1 DEF Accept, Typed, InSlot
    <3>2. /\ IsFiniteSet(InSlot \cup {c}) /\ Cardinality(InSlot) \in Nat
          /\ Cardinality(InSlot \cup {c}) \in {Cardinality(InSlot), Cardinality(InSlot) + 1}
      BY FS_AddElement, FS_CardinalityType DEF Slots
    <3>3. IsFiniteSet(InSlot') /\ Cardinality(InSlot') <= MaxClients
      BY <2>1, <3>1, <3>2, HandshakeAssumption
    <3>. QED
      BY <3>3 DEF Slots
  <2>2. CASE ~(Cardinality(InSlot) < MaxClients)
    BY <1>1, <1>2, <2>2 DEF Accept, Typed, InSlot
  <2>. QED
    BY <2>1, <2>2
<1>3. ASSUME NEW c \in Client, Connect(c) \/ Drop(c) PROVE InSlot' \subseteq InSlot
  BY <1>3 DEF Connect, Drop, Typed, InSlot
<1>4. ASSUME NEW c \in Client, LoseConnection(c) \/ Serve(c) \/ UnixStep(c) \/ WindowsStep(c)
      PROVE  InSlot' \subseteq InSlot
  BY <1>4 DEF LoseConnection, Serve, UnixStep, UnixTakeKey, UnixRegister, UnixTakeReply,
              WindowsStep, WindowsConfirm, WindowsTimeout, InSlot
<1>5. ASSUME StopServer PROVE InSlot' \subseteq InSlot
  BY <1>5 DEF StopServer, InSlot
<1>6. ASSUME UNCHANGED vars PROVE InSlot' \subseteq InSlot
  BY <1>6 DEF vars, InSlot
<1>. QED
  BY <1>1, <1>2, <1>3, <1>4, <1>5, <1>6 DEF Next, Step, Server

(* One step of anyone.                                                     *)
LEMMA NextTyped == Typed /\ [Next]_vars => Typed'
<1>1. Typed /\ UNCHANGED vars => Typed'
  BY DEF Typed, vars, clientVars
<1>. QED
  BY <1>1, ClientTyped, ServerTyped DEF Next, Step

(* At the start all slots are free.                                        *)
LEMMA InitTyped == Init => Typed /\ Slots
<1>. SUFFICES ASSUME Init PROVE Typed /\ Slots
  OBVIOUS
<1>1. Typed
  BY DEF Init, Typed, Position
<1>2. InSlot = {}
  BY DEF Init, InSlot
<1>3. Slots
  BY <1>2, FS_EmptySet, HandshakeAssumption DEF Slots
<1>. QED
  BY <1>1, <1>3

(* No more clients are in slots than there are slots, whoever connects,    *)
(* fails and connects again (lines 361-402).                               *)
THEOREM SlotsSuffice == SafetySpec => []TypeOK
<1>1. Typed /\ Slots /\ [Next]_vars => (Typed /\ Slots)'
  BY NextTyped, SlotsKept
<1>2. Typed /\ Slots => TypeOK
  BY DEF Typed, Slots, TypeOK, Position, Sent
<1>. QED
  BY <1>1, <1>2, InitTyped, PTL DEF SafetySpec

-----------------------------------------------------------------------------
(* Registration.                                                           *)

(* What another client does is nothing to c.                               *)
LEMMA Untouched ==
  ASSUME NEW c, UNCHANGED <<pc[c], key[c], sock[c], to_server[c], to_client[c]>>
  PROVE  (Refused(c) => Refused(c)') /\ (Stays(c) => Stays(c)')
BY DEF Refused, Stays

(* A step of one client leaves the others alone.                           *)
LEMMA OnlyOne ==
  ASSUME Typed, NEW c \in Client, Step(c), NEW d \in Client \ {c}
  PROVE  UNCHANGED <<pc[d], key[d], sock[d], to_server[d], to_client[d]>>
<1>. USE DEF Typed
<1>1. CASE Connect(c)
  BY <1>1 DEF Connect
<1>2. CASE LoseConnection(c) \/ UnixStep(c) \/ WindowsStep(c)
  BY <1>2 DEF LoseConnection, UnixStep, UnixTakeKey, UnixRegister, UnixTakeReply, WindowsStep,
              WindowsConfirm, WindowsTimeout, Go, Fail
<1>3. CASE Server(c)
  BY <1>3 DEF Server, Accept, Serve, Drop, clientVars
<1>. QED
  BY <1>1, <1>2, <1>3 DEF Step

(* What the server does with the connection of a UNIX client.              *)
LEMMA ServerRefuses ==
  ASSUME HandshakeInv, NEW c \in UnixClient, Server(c)
  PROVE  Refused(c)'
<1>. c \in Client /\ Typed /\ Refused(c)
  BY DEF Client, HandshakeInv
<1>1. CASE Accept(c)
  BY <1>1, Untouched DEF Accept, clientVars
<1>2. CASE Serve(c)
  <2>1. /\ UNCHANGED <<pc, key, sock>> /\ to_server[c] # <<>> /\ to_server'[c] = <<>>
        /\ to_client'[c] = IF sock[c] = "open" THEN to_client[c] \o Answer(to_server[c])
                                               ELSE to_client[c]
    BY <1>2 DEF Serve, clientVars, Typed
  <2>2. CASE pc[c] = "key"
    <3>1. to_client[c] = <<>> /\ to_server[c] = <<PublicKey>> /\ sock[c] = "open"
      BY <2>1, <2>2 DEF Refused
    <3>2. to_client'[c] = Refusal
      <4>1. <<>> \o Refusal = Refusal
        BY RefusalParts
      <4>. QED
        BY <2>1, <3>1, <4>1, KeyIsNoCommand
    <3>. QED
      BY <2>1, <2>2, <3>2 DEF Refused
  <2>3. CASE pc[c] \in {"register", "reply"}
    <3>1. PICK s \in Seq(Piece), a \in Seq(Piece) : s = to_client[c] /\ a = Answer(to_server[c])
      BY Items DEF Typed
    <3>2. s # <<>> => s \o a # <<>> /\ Head(s \o a) = Head(s)
      OBVIOUS
    <3>. QED
      BY <2>1, <2>3, <3>1, <3>2 DEF Refused
  <2>4. CASE pc[c] \notin {"key", "register", "reply"}
    BY <2>1, <2>4 DEF Refused
  <2>. QED
    BY <2>2, <2>3, <2>4
<1>3. CASE Drop(c)
  <2>1. pc[c] \notin {"key", "register", "reply"} /\ UNCHANGED pc
    BY <1>3 DEF Drop, clientVars, Refused
  <2>. QED
    BY <2>1 DEF Refused
<1>. QED
  BY <1>1, <1>2, <1>3 DEF Server

(* What a UNIX client makes of it.                                         *)
LEMMA UnixRefused ==
  ASSUME HandshakeInv, NEW c \in UnixClient, Connect(c) \/ LoseConnection(c) \/ UnixStep(c)
  PROVE  Refused(c)'
<1>. c \in Client /\ Typed /\ Refused(c)
  BY DEF Client, HandshakeInv
<1>1. CASE Connect(c)
  <2>1. /\ pc'[c] \in {"key", "failed"}
        /\ pc'[c] = "key" => /\ sock'[c] = "open" /\ to_server'[c] = <<PublicKey>>
                             /\ to_client'[c] = <<>>
    BY <1>1 DEF Connect, Typed
  <2>. QED
    BY <2>1 DEF Refused
<1>2. CASE LoseConnection(c)
  <2>1. pc'[c] = "failed"
    BY <1>2 DEF LoseConnection, Fail, Typed
  <2>. QED
    BY <2>1 DEF Refused
<1>3. CASE UnixTakeKey(c)
  <2>1. to_client[c] = Refusal /\ sock[c] = "open"
    BY <1>3 DEF UnixTakeKey, Refused
  <2>2. /\ pc'[c] = "register" /\ key'[c] = <<Head(Refusal)>> /\ to_client'[c] = Tail(Refusal)
        /\ UNCHANGED sock
    BY <1>3, <2>1 DEF UnixTakeKey, Go, Typed
  <2>. QED
    BY <2>1, <2>2, RefusalParts DEF Refused
<1>4. CASE UnixRegister(c)
  <2>1. pc[c] = "register" /\ pc'[c] = "reply" /\ UNCHANGED <<sock, key, to_client>>
    BY <1>4 DEF UnixRegister, Go, Typed
  <2>. QED
    BY <2>1 DEF Refused
<1>5. CASE UnixTakeReply(c)
  <2>1. Head(to_client[c]) # Head(Pieces("OK"))
    BY <1>5, RefusalParts DEF UnixTakeReply, Refused
  <2>2. pc'[c] = "failed"
    BY <1>5, <2>1 DEF UnixTakeReply, Fail, Typed
  <2>. QED
    BY <2>2 DEF Refused
<1>. QED
  BY <1>1, <1>2, <1>3, <1>4, <1>5 DEF UnixStep

(* The Windows client never gets as far as registering.                    *)
LEMMA WindowsStays ==
  ASSUME Typed, NEW c \in WindowsClient, Stays(c), Step(c)
  PROVE  Stays(c)'
<1>. c \in Client /\ c \notin UnixClient
  BY HandshakeAssumption DEF Client
<1>1. CASE Connect(c) \/ LoseConnection(c) \/ WindowsStep(c)
  BY <1>1 DEF Connect, LoseConnection, WindowsStep, WindowsConfirm, WindowsTimeout, Fail, Typed,
              Stays
<1>2. CASE Server(c)
  BY <1>2 DEF Server, Accept, Serve, Drop, clientVars, Stays
<1>. QED
  BY <1>1, <1>2 DEF Step

(* Every step of every client and of the server.                           *)
LEMMA NextRefuses == HandshakeInv /\ [Next]_vars => HandshakeInv'
<1>. SUFFICES ASSUME HandshakeInv, [Next]_vars PROVE HandshakeInv'
  OBVIOUS
<1>1. Typed /\ Typed'
  BY NextTyped DEF HandshakeInv
<1>2. CASE UNCHANGED <<pc, key, sock, to_server, to_client>>
  BY <1>1, <1>2, Untouched DEF HandshakeInv
<1>3. ASSUME NEW c \in Client, Step(c) PROVE HandshakeInv'
  <2>1. \A d \in Client \ {c} : UNCHANGED <<pc[d], key[d], sock[d], to_server[d], to_client[d]>>
    BY <1>1, <1>3, OnlyOne
  <2>2. ASSUME NEW u \in UnixClient PROVE Refused(u)'
    <3>1. CASE u = c
      <4>1. Connect(c) \/ LoseConnection(c) \/ Server(c) \/ UnixStep(c)
        BY <1>3, <3>1, HandshakeAssumption DEF Step
      <4>. QED
        BY <3>1, <4>1, ServerRefuses, UnixRefused
    <3>2. CASE u # c
      BY <2>1, <3>2, Untouched DEF HandshakeInv, Client
    <3>. QED
      BY <3>1, <3>2
  <2>3. ASSUME NEW w \in WindowsClient PROVE Stays(w)'
    <3>1. CASE w = c
      BY <1>1, <1>3, <3>1, WindowsStays DEF HandshakeInv
    <3>2. CASE w # c
      BY <2>1, <3>2, Untouched DEF HandshakeInv, Client
    <3>. QED
      BY <3>1, <3>2
  <2>. QED
    BY <1>1, <2>2, <2>3 DEF HandshakeInv
<1>. QED
  BY <1>2, <1>3 DEF Next, StopServer, vars, clientVars

(* At the start nobody is connected.                                       *)
LEMMA InitRefuses == Init => HandshakeInv
BY InitTyped DEF Init, HandshakeInv, Refused, Stays, Client

(* No client ever registers with this server: the UNIX client takes the    *)
(* beginning of a refusal for the key and the rest of it for the answer to *)
(* REGISTER_CLIENT, the Windows client waits for a word that is never sent *)
(* (ordinary_client.cpp:58-80, antivirus_server.c:404-437).                *)
THEOREM NobodyEverJoins == SafetySpec => []NobodyJoins
<1>1. HandshakeInv => NobodyJoins
  BY DEF HandshakeInv, NobodyJoins, Client, Refused, Stays
<1>. QED
  BY <1>1, InitRefuses, NextRefuses, PTL DEF SafetySpec

(* And whatever a UNIX client calls an established encryption has the same *)
(* key: the first four bytes of the refusal (crypto_common.c:204-211).     *)
THEOREM KeyIsTheRefusal == SafetySpec => []KeyIsRefusal
<1>1. HandshakeInv => KeyIsRefusal
  BY DEF HandshakeInv, KeyIsRefusal, Refused
<1>. QED
  BY <1>1, InitRefuses, NextRefuses, PTL DEF SafetySpec
=============================================================================
