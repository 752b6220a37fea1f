------------------------------- MODULE Peers -------------------------------
(***************************************************************************)
(* The programs at the other end of the connections, and the part of the   *)
(* kernel that queues a connection until it is accepted.  This is code     *)
(* outside the server: a peer may do anything a socket lets it do.         *)
(* One piece of text per connection is in flight at a time.                *)
(***************************************************************************)
EXTENDS ServerState

peersFrame == <<flagVars, clients, admin_client_fd, statsVars, fdTable,
                clientVars, adminVars, m_pc>>

(* Linux queues one connection more than the backlog.                      *)
Dial(p, listener, limit) ==
  /\ p \notin dialled
  /\ \E fd \in Fd : fdTable[fd] = listener
  /\ Len(backlog[listener]) <= limit
  /\ dialled' = dialled \cup {p}
  /\ backlog' = [backlog EXCEPT ![listener] = Append(@, p)]
  /\ UNCHANGED <<peersFrame, inbox, reply, hungup>>

SendText(p, texts) ==
  /\ Connected(p)
  /\ ~hungup[p]
  /\ inbox[p] = <<>>
  /\ \E text \in texts : inbox' = [inbox EXCEPT ![p] = text]
  /\ UNCHANGED <<peersFrame, backlog, reply, peerVars>>

(* A program that is gone keeps no response.                               *)
HangUp(p) ==
  /\ Connected(p)
  /\ ~hungup[p]
  /\ hungup' = [hungup EXCEPT ![p] = TRUE]
  /\ reply' = [reply EXCEPT ![p] = NoResponse]
  /\ UNCHANGED <<peersFrame, backlog, inbox, dialled>>

Peers ==
  \/ \E p \in Client : Dial(p, "client_socket", ClientBacklog) \/ SendText(p, ClientTexts)
  \/ \E p \in Admin  : Dial(p, "admin_socket", AdminBacklog) \/ SendText(p, AdminTexts)
  \/ \E p \in Peer   : HangUp(p)
=============================================================================
