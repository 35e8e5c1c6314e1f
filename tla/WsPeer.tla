------------------------------- MODULE WsPeer -------------------------------
(***************************************************************************)
(* The other end of the physical WebSocket: a Solana RPC node that grants, *)
(* refuses and cancels subscriptions and streams notifications, and the    *)
(* wire between it and the client.  None of it is code of the repository:  *)
(* it is what solana.rpc.websocket_api assumes of its peer and of the      *)
(* websockets library.                                                     *)
(*                                                                         *)
(* Requests on the wire form a set: the client matches answers by id, so   *)
(* the node may answer them in any order.  Frames to the client form a     *)
(* sequence: a WebSocket delivers them in order, and a remote close loses  *)
(* any suffix of them.                                                     *)
(***************************************************************************)
EXTENDS Integers, Sequences

CONSTANTS
    MaxRequests,   \* bound on the JSON-RPC requests of one connection
    MaxSubs,       \* number of server-side subscription ids
    MaxNotes,      \* bound on the notifications the node sends
    MaxFaults,     \* bound on duplicated answers and unreadable frames
    Kinds,         \* the subscription kinds the application asks for
    Recycle        \* may the node give the id of an ended subscription again?

SubscriptionKind == {"account", "block", "logs", "program", "signature",
                     "slot", "slotsUpdates", "root", "vote"}

ASSUME PeerAssumption ==
    /\ MaxRequests \in Nat \ {0}
    /\ MaxSubs \in Nat \ {0}
    /\ MaxNotes \in Nat
    /\ MaxFaults \in Nat
    /\ Kinds \subseteq SubscriptionKind
    /\ Recycle \in BOOLEAN

Requests == 1..MaxRequests
SubIds   == 1..MaxSubs
NoKind   == "unsubscribe"      \* the method of a request that is no subscribe

VARIABLES
    sock,       \* the WebSocket: see SockStates
    toServer,   \* requests written and not yet handled
    toClient,   \* frames sent and not yet read by the client
    srv,        \* what each server-side id serves: a request id, or 0
    asked,      \* the kind that request asked for
    granted,    \* the id granted to each subscribe request, 0 before
    lastSid,    \* the last fresh subscription id
    notes,      \* notifications sent so far
    faults      \* faults so far

peerVars == <<sock, toServer, toClient, srv, asked, granted, lastSid, notes, faults>>

SockStates == {"none", "handshake", "open", "closing", "closed"}
Answers    == {"confirm", "ack", "nack", "error"}
FrameTypes == Answers \cup {"note", "final", "bad"}

Message == [id : Requests, kind : Kinds \cup {NoKind}, sid : 0..MaxSubs]
Frame   == [type : FrameTypes, id : 0..MaxRequests, sid : 0..MaxSubs, n : 0..MaxNotes]

Answer(t, r, s) == [type |-> t, id |-> r, sid |-> s, n |-> 0]
Stream(t, s, i) == [type |-> t, id |-> 0, sid |-> s, n |-> i]
BadFrame        == [type |-> "bad", id |-> 0, sid |-> 0, n |-> 0]

PeerTypeOK ==
    /\ sock \in SockStates
    /\ toServer \in SUBSET Message
    /\ toClient \in Seq(Frame)
    /\ srv \in [SubIds -> 0..MaxRequests]
    /\ asked \in [Requests -> Kinds \cup {NoKind}]
    /\ granted \in [Requests -> 0..MaxSubs]
    /\ lastSid \in 0..MaxSubs
    /\ notes \in 0..MaxNotes
    /\ faults \in 0..MaxFaults

PeerInit ==
    /\ sock = "none"
    /\ toServer = {}
    /\ toClient = <<>>
    /\ srv = [s \in SubIds |-> 0]
    /\ asked = [r \in Requests |-> NoKind]
    /\ granted = [r \in Requests |-> 0]
    /\ lastSid = 0
    /\ notes = 0
    /\ faults = 0

----------------------------------------------------------------------------
(* The node takes a subscribe request and confirms it.  The subscription   *)
(* is active, and may notify, from here on.                                *)
FreeSid(s) == IF Recycle THEN srv[s] = 0 ELSE s = lastSid + 1

AcceptSubscribe(m) ==
    /\ sock = "open"
    /\ m \in toServer /\ m.kind # NoKind
    /\ \E s \in SubIds :
        /\ FreeSid(s)
        /\ srv' = [srv EXCEPT ![s] = m.id]
        /\ granted' = [granted EXCEPT ![m.id] = s]
        /\ lastSid' = s
        /\ toClient' = Append(toClient, Answer("confirm", m.id, s))
    /\ asked' = [asked EXCEPT ![m.id] = m.kind]
    /\ toServer' = toServer \ {m}
    /\ UNCHANGED <<sock, notes, faults>>

(* Any request may be answered by an error object.                         *)
Refuse(m) ==
    /\ sock = "open"
    /\ m \in toServer
    /\ toServer' = toServer \ {m}
    /\ toClient' = Append(toClient, Answer("error", m.id, 0))
    /\ UNCHANGED <<sock, srv, asked, granted, lastSid, notes, faults>>

(* An unsubscribe ends the subscription and answers true, or answers false *)
(* and ends nothing.                                                       *)
HandleUnsubscribe(m) ==
    /\ sock = "open"
    /\ m \in toServer /\ m.kind = NoKind
    /\ toServer' = toServer \ {m}
    /\ \/ /\ srv[m.sid] # 0
          /\ srv' = [srv EXCEPT ![m.sid] = 0]
          /\ toClient' = Append(toClient, Answer("ack", m.id, m.sid))
       \/ /\ srv' = srv
          /\ toClient' = Append(toClient, Answer("nack", m.id, m.sid))
    /\ UNCHANGED <<sock, asked, granted, lastSid, notes, faults>>

(* An active subscription notifies.  A signature subscription ends with    *)
(* its processed notification.                                             *)
Notify(s) ==
    /\ sock = "open"
    /\ srv[s] # 0
    /\ notes < MaxNotes
    /\ notes' = notes + 1
    /\ \/ /\ toClient' = Append(toClient, Stream("note", s, notes + 1))
          /\ srv' = srv
       \/ /\ asked[srv[s]] = "signature"
          /\ toClient' = Append(toClient, Stream("final", s, notes + 1))
          /\ srv' = [srv EXCEPT ![s] = 0]
    /\ UNCHANGED <<sock, toServer, asked, granted, lastSid, faults>>

(* An answer arrives twice, the second copy behind everything else.        *)
Duplicate ==
    /\ sock = "open"
    /\ faults < MaxFaults
    /\ faults' = faults + 1
    /\ \E i \in DOMAIN toClient :
        /\ toClient[i].type \in Answers
        /\ toClient' = Append(toClient, toClient[i])
    /\ UNCHANGED <<sock, toServer, srv, asked, granted, lastSid, notes>>

(* The node sends a frame the client cannot use: bytes that do not parse,  *)
(* or the error envelope with a null id of JSON-RPC 2.0 section 5.         *)
Corrupt ==
    /\ sock = "open"
    /\ faults < MaxFaults
    /\ faults' = faults + 1
    /\ toClient' = Append(toClient, BadFrame)
    /\ UNCHANGED <<sock, toServer, srv, asked, granted, lastSid, notes>>

(* The connection is lost: by the node, by the network, or by the keepalive *)
(* of the websockets library.  A suffix of the frames never arrives, and   *)
(* every subscription of the connection is gone.                           *)
RemoteClose ==
    /\ sock = "open"
    /\ sock' = "closed"
    /\ toServer' = {}
    /\ \E k \in 0..Len(toClient) : toClient' = SubSeq(toClient, 1, k)
    /\ srv' = [s \in SubIds |-> 0]
    /\ UNCHANGED <<asked, granted, lastSid, notes, faults>>

(* The closing handshake ends, or close_timeout elapses and the transport  *)
(* is aborted.                                                             *)
SocketClosed ==
    /\ sock = "closing"
    /\ sock' = "closed"
    /\ toServer' = {}
    /\ toClient' = <<>>
    /\ srv' = [s \in SubIds |-> 0]
    /\ UNCHANGED <<asked, granted, lastSid, notes, faults>>

PeerStep ==
    \/ \E m \in toServer : AcceptSubscribe(m) \/ Refuse(m) \/ HandleUnsubscribe(m)
    \/ \E s \in SubIds : Notify(s)
    \/ Duplicate
    \/ Corrupt
    \/ RemoteClose
    \/ SocketClosed
=============================================================================
