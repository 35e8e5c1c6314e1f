------------------------- MODULE SubscriptionProofs -------------------------
(***************************************************************************)
(* The subscriptions of SolanaWsClient, when the node gives no id again:   *)
(* none that the node serves is lost to the client, none that the client   *)
(* holds is dead without its end on the way, and each handle goes through  *)
(* the life Subscriptions gives it, for any number of calls and faults.    *)
(***************************************************************************)
EXTENDS CallProofs

USE PeerAssumption, ClientAssumption DEF PeerAssumption, ClientAssumption

(* Ids that are not given again belong to one request for ever, and a      *)
(* subscription that ended is served no more.                              *)
GrantsUnique ==
    /\ \A r \in Requests : granted[r] <= lastSid
    /\ \A q, r \in Requests : granted[q] = granted[r] /\ granted[q] # 0 => q = r
    /\ \A s \in SubIds : srv[s] # 0 => srv[s] \in Requests /\ granted[srv[s]] = s
    /\ \A f \in Flying : f.type = "final" => f.sid \in 1..lastSid /\ srv[f.sid] = 0

HandlesKnown ==
    \A s \in SubIds : subs[s] # 0 =>
        subs[s] \in Requests /\ fut[subs[s]] = "handle" /\ sid[subs[s]] = s

(* On an open connection a future ends unresolved only by a cancellation.  *)
OpenFutures ==
    closedExc = NoExc =>
        \A r \in Requests : fut[r] # "closed" /\ (fut[r] = "cancelled" => out[r] = "cancelled")

Served ==
    closedExc = NoExc => \A s \in SubIds : srv[s] # 0 =>
        \/ srv[s] \in pending
        \/ subs[s] = srv[s]
        \/ out[srv[s]] = "cancelled"

(* A call that will learn its subscription learns it before its end.       *)
Learns(r) ==
    \E i \in 1..Len(toClient) :
        /\ toClient[i].type = "confirm" /\ toClient[i].id = r
        /\ \/ srv[granted[r]] = r
           \/ \E k \in 1..Len(toClient) :
                i < k /\ toClient[k].type = "final" /\ toClient[k].sid = granted[r]

Alive == closedExc = NoExc /\ sock \in {"none", "handshake", "open"}

ConfirmFirst == Alive => \A r \in pending : granted[r] # 0 => Learns(r)

Acked(r) ==
    \/ out[r] = "cancelled"
    \/ r \in InCall /\ (fut[r] = "ack" \/ \E f \in Flying : f.type = "ack" /\ f.id = r)

Ending(s) == \E f \in Flying : f.type = "final" /\ f.sid = s

LiveOrEnding ==
    Alive => \A s \in SubIds : subs[s] # 0 =>
        \/ srv[s] = subs[s]
        \/ Ending(s)
        \/ \E r \in Requests : target[r] = subs[s] /\ Acked(r)

OpenInv == HandlesKnown /\ OpenFutures /\ Served /\ ConfirmFirst /\ LiveOrEnding

GrantInv == GrantsUnique /\ OpenInv

----------------------------------------------------------------------------
(* The steps of an open connection.                                        *)
Still ==
    /\ UNCHANGED <<toClient, srv, granted, fut, out, pending, subs, sid, kind, target>>
    /\ InCall' = InCall
    /\ sock' \in {"none", "handshake", "open"} => sock \in {"none", "handshake", "open"}

EndNotified == TakeNotification /\ subs' = EndedSubs /\ fut' = fut

LEMMA OpenSteps ==
    ASSUME TypeOK, [Next]_vars, closedExc' = NoExc
    PROVE  /\ closedExc = NoExc
           /\ \/ \E k \in Kinds : Subscribe(k)
              \/ \E r \in Requests : Unsubscribe(r) \/ CancelRequest(r) \/ Return(r)
              \/ DispatchSubscribed \/ DispatchAnswer \/ DispatchStray
              \/ EndNotified \/ Peer \/ Still
<1> USE DEF peerVars, callVars
<1>1. closedExc = NoExc /\ ~\E e \in Causes : Abandon(e)
  BY CauseStep, CausesAreClosures DEF Abandon, FirstCause
<1>2. CASE Call
  <2>1. ASSUME NEW r \in Requests, LockGranted(r) \/ Write(r) \/ Sent(r) PROVE Still
    <3>1. /\ UNCHANGED <<sock, toClient, srv, granted, fut, out, pending, subs, sid, kind, target>>
          /\ r \in InCall
          /\ pc'[r] \in {"sending", "draining", "waiting"}
          /\ \A q \in Requests : q # r => pc'[q] = pc[q]
      BY <2>1 DEF LockGranted, Write, Sent, NextInLine, LockQueue, InCall, TypeOK
    <3>2. InCall' = InCall
      BY <3>1 DEF InCall
    <3>3. QED BY <3>1, <3>2 DEF Still
  <2>2. ASSUME NEW r \in Requests PROVE ~LockRefused(r)
    BY <1>1 DEF LockRefused
  <2>3. ASSUME NEW r \in Requests PROVE ~SendFailed(r) /\ ~Timeout(r) /\ ~CancelWait(r)
    BY <1>1 DEF SendFailed, Timeout, CancelWait, EndWait, Causes
  <2>4. QED BY <1>1, <1>2, <2>1, <2>2, <2>3 DEF Call
<1>3. CASE Read
  <2>1. ~OverflowRaise /\ ~ReadFatal /\ ~ReaderEOF
    BY <1>1 DEF OverflowRaise, ReadFatal, ReaderEOF, Causes
  <2>2. ~ReadAfterClose
    BY <1>1 DEF ReadAfterClose, CanDispatch
  <2>3. ReaderStart => Still
    BY DEF ReaderStart, Still, InCall
  <2>4. Enqueue \/ OverflowDropOldest \/ OverflowDropNewest => EndNotified
    BY DEF Enqueue, OverflowDropOldest, OverflowDropNewest, EndNotified
  <2>5. QED BY <1>1, <1>3, <2>1, <2>2, <2>3, <2>4 DEF Read
<1>4. CASE Recv \/ UNCHANGED vars
  <2>1. Still
    BY <1>4 DEF Recv, RecvTake, RecvRaise, RecvBlock, RecvCancel, vars, Still, InCall
  <2>2. QED BY <1>1, <2>1
<1>5. CASE Connect
  <2>1. Still
    BY <1>5 DEF Connect, ConnectBegin, ConnectFail, ConnectOk, Still, InCall
  <2>2. QED BY <1>1, <2>1
<1>6. CASE Close
  <2>1. ASSUME NEW c \in Closers, NEW e \in {"local_close", "user_error"} PROVE ~CloseBegin(c, e)
    BY <1>1 DEF CloseBegin, Causes
  <2>2. Still
    BY <1>6, <2>1 DEF Close, ReleaseBegin, ReleaseEnd, CloseReturn, CloseCancel, Still, InCall
  <2>3. QED BY <1>1, <2>2
<1>7. QED BY <1>1, <1>2, <1>3, <1>4, <1>5, <1>6 DEF Next

(* Only the node grants, serves and ends subscriptions.                    *)
LEMMA NodeStep ==
    ASSUME TypeOK, [Next]_vars
    PROVE  Peer \/ (UNCHANGED <<srv, granted, lastSid>> /\ Flying' \subseteq Flying)
<1> USE DEF peerVars
<1>1. CASE Call
  <2>1. UNCHANGED <<srv, granted, lastSid, toClient>>
    BY <1>1 DEF Call, Subscribe, Unsubscribe, BeginRequest, LockGranted, LockRefused, Write, Sent,
                SendFailed, CancelRequest, Return, Timeout, CancelWait, EndWait
  <2>2. QED BY <2>1 DEF Flying
<1>2. CASE Read
  <2>1. UNCHANGED <<srv, granted, lastSid>> /\ (TakeFrame \/ UNCHANGED toClient)
    BY <1>2 DEF Read, ReaderStart, DispatchSubscribed, DispatchAnswer, DispatchStray, Enqueue,
                OverflowDropOldest, OverflowDropNewest, OverflowRaise, TakeNotification, ReadFatal,
                ReadAfterClose, ReaderEOF, TakeFrame
  <2>2. CASE UNCHANGED toClient
    BY <2>1, <2>2 DEF Flying
  <2>3. QED BY <2>1, <2>2, FlyingTaken
<1>3. CASE Recv \/ Connect \/ Close \/ UNCHANGED vars
  <2>1. UNCHANGED <<srv, granted, lastSid, toClient>>
    BY <1>3 DEF Recv, RecvTake, RecvRaise, RecvBlock, RecvCancel, Connect, ConnectBegin,
                ConnectFail, ConnectOk, Close, CloseBegin, ReleaseBegin, ReleaseEnd, CloseReturn,
                CloseCancel, vars
  <2>2. QED BY <2>1 DEF Flying
<1>4. QED BY <1>1, <1>2, <1>3 DEF Next

LEMMA GrantsType ==
    ASSUME TypeOK
    PROVE  /\ lastSid \in Nat /\ \A r \in Requests : granted[r] \in Nat
           /\ \A r \in Requests : granted[r] # 0 => granted[r] \in SubIds
           /\ \A s \in SubIds : srv[s] \in Nat /\ (srv[s] # 0 => srv[s] \in Requests)
           /\ \A s \in SubIds : subs[s] # 0 => subs[s] \in Requests
           /\ \A s \in SubIds : s \in Nat \ {0}
<1>1. lastSid \in Nat
  BY DEF TypeOK, PeerTypeOK
<1>2. \A r \in Requests : granted[r] \in Nat /\ (granted[r] # 0 => granted[r] \in SubIds)
  BY DEF TypeOK, PeerTypeOK, SubIds
<1>3. \A s \in SubIds : srv[s] \in Nat /\ (srv[s] # 0 => srv[s] \in Requests)
  BY DEF TypeOK, PeerTypeOK, Requests
<1>4. \A s \in SubIds : subs[s] # 0 => subs[s] \in Requests
  BY DEF TypeOK, Requests
<1>5. QED BY <1>1, <1>2, <1>3, <1>4 DEF SubIds

(* What a grant changes: the id is fresh.                                  *)
LEMMA AcceptGives ==
    ASSUME TypeOK, AnswerInv, ~Recycle, NEW m \in toServer, AcceptSubscribe(m)
    PROVE  \E s \in SubIds :
            /\ s = lastSid + 1 /\ lastSid' = s
            /\ srv'[s] = m.id /\ \A x \in SubIds : x # s => srv'[x] = srv[x]
            /\ granted'[m.id] = s /\ \A r \in Requests : r # m.id => granted'[r] = granted[r]
            /\ m.id \in Requests
            /\ toClient' = Append(toClient, Answer("confirm", m.id, s))
            /\ Answer("confirm", m.id, s) \in Frame
<1>1. m.id \in Requests
  BY TakenRequest
<1>2. PICK s \in SubIds :
        /\ s = lastSid + 1 /\ lastSid' = s
        /\ srv' = [srv EXCEPT ![s] = m.id] /\ granted' = [granted EXCEPT ![m.id] = s]
        /\ toClient' = Append(toClient, Answer("confirm", m.id, s))
  BY DEF AcceptSubscribe, FreeSid
<1>3. Answer("confirm", m.id, s) \in Frame
  BY <1>1 DEF Answer, Frame, FrameTypes, Answers, Requests, SubIds
<1>4. /\ srv'[s] = m.id /\ \A x \in SubIds : x # s => srv'[x] = srv[x]
      /\ granted'[m.id] = s /\ \A r \in Requests : r # m.id => granted'[r] = granted[r]
  BY <1>1, <1>2 DEF TypeOK, PeerTypeOK
<1>5. QED BY <1>1, <1>2, <1>3, <1>4

(* What a notification changes at the node.                                *)
LEMMA NotifyGives ==
    ASSUME TypeOK, NEW s \in SubIds, Notify(s)
    PROVE  \E f \in Frame :
            /\ f.type \in {"note", "final"} /\ f.sid = s /\ toClient' = Append(toClient, f)
            /\ srv[s] # 0 /\ UNCHANGED <<granted, lastSid, sock>>
            /\ f.type = "note" => srv' = srv
            /\ f.type = "final" => srv'[s] = 0 /\ \A x \in SubIds : x # s => srv'[x] = srv[x]
<1>1. notes + 1 \in 0..MaxNotes
  BY DEF Notify, TypeOK, PeerTypeOK
<1>2. \A t \in {"note", "final"} :
        /\ Stream(t, s, notes + 1) \in Frame
        /\ Stream(t, s, notes + 1).type = t /\ Stream(t, s, notes + 1).sid = s
  BY <1>1 DEF Stream, Frame, FrameTypes, SubIds
<1>3. CASE toClient' = Append(toClient, Stream("note", s, notes + 1)) /\ srv' = srv
  <2>1. Stream("note", s, notes + 1) \in Frame
    BY <1>2
  <2>2. QED BY <1>2, <1>3, <2>1 DEF Notify
<1>4. CASE /\ toClient' = Append(toClient, Stream("final", s, notes + 1))
           /\ srv' = [srv EXCEPT ![s] = 0]
  <2>1. srv'[s] = 0 /\ \A x \in SubIds : x # s => srv'[x] = srv[x]
    BY <1>4 DEF TypeOK, PeerTypeOK
  <2>2. Stream("final", s, notes + 1) \in Frame
    BY <1>2
  <2>3. QED BY <1>2, <1>4, <2>1, <2>2 DEF Notify
<1>5. QED BY <1>3, <1>4 DEF Notify

LEMMA GrantsStep ==
    ASSUME TypeOK, AnswerInv, GrantsUnique, ~Recycle, [Next]_vars
    PROVE  GrantsUnique'
<1>1. CASE UNCHANGED <<srv, granted, lastSid>> /\ Flying' \subseteq Flying
  BY <1>1 DEF GrantsUnique
<1>2. ASSUME NEW m \in toServer, AcceptSubscribe(m) PROVE GrantsUnique'
  <2>1. PICK s \in SubIds :
            /\ s = lastSid + 1 /\ lastSid' = s
            /\ srv'[s] = m.id /\ \A x \in SubIds : x # s => srv'[x] = srv[x]
            /\ granted'[m.id] = s /\ \A r \in Requests : r # m.id => granted'[r] = granted[r]
            /\ m.id \in Requests
            /\ toClient' = Append(toClient, Answer("confirm", m.id, s))
            /\ Answer("confirm", m.id, s) \in Frame
    BY <1>2, AcceptGives
  <2>2. \A f \in Flying' : f.type = "final" => f \in Flying
    BY <2>1, FlyingAppend DEF Answer
  <2>3. granted[m.id] = 0
    BY TakenRequest
  <2>4. \A r \in Requests : granted'[r] <= lastSid'
    BY <2>1, GrantsType DEF GrantsUnique
  <2>5. \A r \in Requests : granted[r] # s
    BY <2>1, GrantsType DEF GrantsUnique
  <2>6. \A q, r \in Requests : granted'[q] = granted'[r] /\ granted'[q] # 0 => q = r
    BY <2>1, <2>5 DEF GrantsUnique
  <2>7. \A x \in SubIds : srv'[x] # 0 => srv'[x] \in Requests /\ granted'[srv'[x]] = x
    BY <2>1, <2>3, GrantsType DEF GrantsUnique
  <2>8. \A f \in Flying' : f.type = "final" => f.sid \in 1..lastSid' /\ srv'[f.sid] = 0
    <3>1. ASSUME NEW f \in Flying', f.type = "final"
          PROVE  f.sid \in 1..lastSid' /\ srv'[f.sid] = 0
      <4>1. f.sid \in 1..lastSid /\ srv[f.sid] = 0
        BY <2>2, <3>1 DEF GrantsUnique
      <4>2. f.sid # s /\ f.sid \in 1..lastSid' /\ f.sid \in SubIds
        BY <2>1, <4>1, GrantsType DEF SubIds
      <4>3. QED BY <2>1, <4>1, <4>2
    <3>2. QED BY <3>1
  <2>9. QED BY <2>4, <2>6, <2>7, <2>8 DEF GrantsUnique
<1>3. ASSUME NEW s \in SubIds, Notify(s) PROVE GrantsUnique'
  <2>1. PICK f \in Frame :
            /\ f.type \in {"note", "final"} /\ f.sid = s /\ toClient' = Append(toClient, f)
            /\ srv[s] # 0 /\ UNCHANGED <<granted, lastSid, sock>>
            /\ f.type = "note" => srv' = srv
            /\ f.type = "final" => srv'[s] = 0 /\ \A x \in SubIds : x # s => srv'[x] = srv[x]
    BY <1>3, NotifyGives
  <2>2. Flying' = Flying \cup {f}
    BY <2>1, FlyingAppend
  <2>3. s \in 1..lastSid
    BY <2>1, GrantsType DEF GrantsUnique
  <2>4. \A g \in Flying : g.type = "final" => g.sid \in SubIds
    BY FlyingType, GrantsType DEF GrantsUnique, Frame, SubIds
  <2>5. QED BY <2>1, <2>2, <2>3, <2>4 DEF GrantsUnique
<1>4. ASSUME NEW m \in toServer, Refuse(m) \/ HandleUnsubscribe(m) PROVE GrantsUnique'
  <2>1. m.id \in Requests /\ m.sid \in 0..MaxSubs
    BY DEF TypeOK, PeerTypeOK, Message
  <2>2. \A t \in Answers, x \in 0..MaxSubs :
            Answer(t, m.id, x) \in Frame /\ Answer(t, m.id, x).type = t
    BY <2>1 DEF Answer, Frame, FrameTypes, Requests
  <2>3. \E t \in Answers, x \in 0..MaxSubs : toClient' = Append(toClient, Answer(t, m.id, x))
    BY <1>4, <2>1, ZeroInRange DEF Refuse, HandleUnsubscribe, Answers
  <2>4. \A f \in Flying' : f.type = "final" => f \in Flying
    BY <2>2, <2>3, FlyingAppend DEF Answers
  <2>5. UNCHANGED <<granted, lastSid>> /\ (srv' = srv \/ srv' = [srv EXCEPT ![m.sid] = 0])
    BY <1>4 DEF Refuse, HandleUnsubscribe
  <2>6. \A x \in SubIds : srv'[x] = srv[x] \/ srv'[x] = 0
    BY <2>5 DEF TypeOK, PeerTypeOK
  <2>7. \A g \in Flying : g.type = "final" => g.sid \in SubIds
    BY FlyingType, GrantsType DEF GrantsUnique, Frame, SubIds
  <2>8. QED BY <2>4, <2>5, <2>6, <2>7 DEF GrantsUnique
<1>5. CASE Duplicate
  <2>1. PICK i \in 1..Len(toClient) : toClient' = Append(toClient, toClient[i])
    BY <1>5, FlyingType, LenProperties DEF Duplicate
  <2>2. Flying' = Flying
    BY <2>1, FlyingAppend, FlyingType DEF Flying
  <2>3. QED BY <1>5, <2>2, <1>1 DEF Duplicate
<1>6. CASE Corrupt
  <2>1. BadFrame \in Frame /\ BadFrame.type # "final"
    BY DEF BadFrame, Frame, FrameTypes
  <2>2. Flying' = Flying \cup {BadFrame}
    BY <1>6, <2>1, FlyingAppend DEF Corrupt
  <2>3. QED BY <1>6, <2>1, <2>2 DEF Corrupt, GrantsUnique
<1>7. CASE RemoteClose \/ SocketClosed
  <2>1. Flying' \subseteq Flying
    <3>1. CASE RemoteClose
      BY <3>1, FlyingPrefix DEF RemoteClose
    <3>2. CASE SocketClosed
      BY <3>2 DEF SocketClosed, Flying
    <3>3. QED BY <1>7, <3>1, <3>2
  <2>2. \A x \in SubIds : srv'[x] = 0
    BY <1>7 DEF RemoteClose, SocketClosed
  <2>3. \A g \in Flying : g.type = "final" => g.sid \in SubIds
    BY FlyingType, GrantsType DEF GrantsUnique, Frame, SubIds
  <2>4. QED BY <1>7, <2>1, <2>2, <2>3 DEF RemoteClose, SocketClosed, GrantsUnique
<1>8. QED
  BY <1>1, <1>2, <1>3, <1>4, <1>5, <1>6, <1>7, NodeStep DEF Peer, PeerStep

----------------------------------------------------------------------------
(* The steps of a call.                                                    *)
LEMMA BeginOpens ==
    ASSUME TypeOK, AnswerInv, GrantInv, NEW k, NEW h, BeginRequest(k, h)
    PROVE  OpenInv'
<1> DEFINE n == nextReq
<1>1. /\ n \in Requests /\ fut[n] = "absent" /\ pc[n] = "idle" /\ granted[n] = 0
      /\ target[n] = 0 /\ out[n] = "none"
      /\ UNCHANGED <<sid, out, subs, toClient, srv, granted, sock, closedExc>>
      /\ pending' = pending \cup {n}
  BY NewRequest DEF BeginRequest, peerVars, lifeVars, AnswerInv, CallRecords
<1>2. /\ pc'[n] \in {"sending", "queued"} /\ fut'[n] = "pending"
      /\ \A r \in Requests : r # n => /\ pc'[r] = pc[r] /\ fut'[r] = fut[r]
                                      /\ target'[r] = target[r]
  BY <1>1 DEF BeginRequest, TypeOK
<1> HIDE DEF n
<1>3. Flying' = Flying /\ InCall \subseteq InCall' /\ Alive' = Alive
  BY <1>1, <1>2 DEF Flying, InCall, Alive
<1>4. HandlesKnown'
  BY <1>1, <1>2 DEF GrantInv, OpenInv, HandlesKnown
<1>5. OpenFutures'
  BY <1>1, <1>2 DEF GrantInv, OpenInv, OpenFutures
<1>6. Served'
  BY <1>1 DEF GrantInv, OpenInv, Served
<1>7. ConfirmFirst'
  BY <1>1, <1>3 DEF GrantInv, OpenInv, ConfirmFirst, Learns
<1>8. LiveOrEnding'
  <2>1. \A r \in Requests : Acked(r) /\ r # n => Acked(r)'
    BY <1>1, <1>2, <1>3 DEF Acked
  <2>2. QED BY <1>1, <1>2, <1>3, <2>1 DEF GrantInv, OpenInv, LiveOrEnding, Ending
<1>9. QED BY <1>4, <1>5, <1>6, <1>7, <1>8 DEF OpenInv

LEMMA CancelOpens ==
    ASSUME TypeOK, AnswerInv, GrantInv, NEW r \in Requests, CancelRequest(r)
    PROVE  OpenInv'
<1>1. /\ UNCHANGED <<sid, target, subs, toClient, srv, granted, sock, closedExc>>
      /\ pending' = pending \ {r} /\ out'[r] = "cancelled"
      /\ \A q \in Requests : q # r => /\ pc'[q] = pc[q] /\ out'[q] = out[q] /\ fut'[q] = fut[q]
      /\ fut'[r] = fut[r] \/ (fut[r] = "pending" /\ fut'[r] = "cancelled")
  BY DEF CancelRequest, Forget, Forgotten, Finish, peerVars, lifeVars, TypeOK
<1>2. Flying' = Flying /\ Alive' = Alive /\ \A q \in InCall : q # r => q \in InCall'
  BY <1>1 DEF Flying, InCall, Alive
<1>3. HandlesKnown'
  BY <1>1 DEF GrantInv, OpenInv, HandlesKnown
<1>4. OpenFutures'
  BY <1>1 DEF GrantInv, OpenInv, OpenFutures
<1>5. Served'
  BY <1>1, GrantsType DEF GrantInv, OpenInv, Served
<1>6. ConfirmFirst'
  BY <1>1, <1>2 DEF GrantInv, OpenInv, ConfirmFirst, Learns
<1>7. LiveOrEnding'
  <2>1. \A q \in Requests : Acked(q) => Acked(q)'
    BY <1>1, <1>2 DEF Acked
  <2>2. QED BY <1>1, <1>2, <2>1 DEF GrantInv, OpenInv, LiveOrEnding, Ending
<1>8. QED BY <1>3, <1>4, <1>5, <1>6, <1>7 DEF OpenInv

(* On an open connection a call returns with what the reader answered.     *)
LEMMA ReturnGives ==
    ASSUME TypeOK, CallInv, AnswerInv, GrantInv, closedExc = NoExc, NEW r \in Requests, Return(r)
    PROVE  /\ r \in InCall /\ fut[r] \in Resolved
           /\ UNCHANGED <<sid, kind, target, toClient, srv, granted, sock, closedExc, fut, pending>>
           /\ \A q \in Requests : q # r => pc'[q] = pc[q] /\ out'[q] = out[q]
           /\ \A s \in SubIds : subs'[s] = IF fut[r] = "ack" /\ s = sid[target[r]] THEN 0 ELSE subs[s]
<1>1. /\ UNCHANGED <<sid, kind, target, toClient, srv, granted, sock, closedExc>>
      /\ pc[r] \in {"draining", "waiting"} /\ fut[r] # "pending"
      /\ pending' = pending \ {r} /\ fut' = Forgotten(fut, r) /\ subs' = Removed(r)
      /\ \A q \in Requests : q # r => pc'[q] = pc[q] /\ out'[q] = out[q]
  BY DEF Return, Forget, Finish, peerVars, lifeVars, TypeOK
<1>2. fut' = fut
  BY <1>1 DEF Forgotten, TypeOK
<1>3. r \notin pending
  BY <1>1 DEF CallInv, PendingExact
<1>4. fut[r] # "absent" /\ out[r] = "none"
  BY <1>1 DEF AnswerInv, CallRecords
<1>5. fut[r] \notin {"closed", "cancelled"}
  BY <1>4 DEF GrantInv, OpenInv, OpenFutures
<1>6. fut[r] \in Resolved
  BY <1>1, <1>4, <1>5 DEF Resolved, TypeOK, Futures
<1>7. \A s \in SubIds : subs'[s] = IF fut[r] = "ack" /\ s = sid[target[r]] THEN 0 ELSE subs[s]
  BY <1>1 DEF Removed, TypeOK
<1>8. QED BY <1>1, <1>2, <1>3, <1>6, <1>7 DEF InCall

LEMMA ReturnOpens ==
    ASSUME TypeOK, CallInv, AnswerInv, GrantInv, closedExc = NoExc, NEW r \in Requests, Return(r)
    PROVE  OpenInv'
<1>1. /\ r \in InCall /\ fut[r] \in Resolved
      /\ UNCHANGED <<sid, kind, target, toClient, srv, granted, sock, closedExc, fut, pending>>
      /\ \A q \in Requests : q # r => pc'[q] = pc[q] /\ out'[q] = out[q]
      /\ \A s \in SubIds : subs'[s] = IF fut[r] = "ack" /\ s = sid[target[r]] THEN 0 ELSE subs[s]
  BY ReturnGives
<1>2. out[r] = "none" /\ \A q \in InCall : q # r => q \in InCall'
  BY <1>1 DEF InCall, AnswerInv, CallRecords
<1>3. Flying' = Flying /\ Alive' = Alive /\ \A s \in SubIds : subs'[s] = subs[s] \/ subs'[s] = 0
  BY <1>1 DEF Flying, Alive
<1>4. fut[r] = "ack" => /\ target[r] \in Requests /\ fut[target[r]] = "handle"
                        /\ granted[target[r]] = sid[target[r]] /\ sid[target[r]] \in SubIds
                        /\ srv[sid[target[r]]] # target[r]
  BY TargetSid DEF AnswerInv, AcksTrue, TargetsKnown
<1>5. HandlesKnown'
  BY <1>1, <1>3 DEF GrantInv, OpenInv, HandlesKnown
<1>6. OpenFutures'
  BY <1>1, <1>2, GrantsType DEF GrantInv, OpenInv, OpenFutures, Resolved
<1>7. Served'
  <2> SUFFICES ASSUME NEW s \in SubIds, srv[s] # 0
               PROVE  srv[s] \in pending \/ subs'[s] = srv[s] \/ out'[srv[s]] = "cancelled"
    BY <1>1 DEF Served
  <2>1. srv[s] \in Requests /\ granted[srv[s]] = s
    BY DEF GrantInv, GrantsUnique
  <2>2. srv[s] \in pending \/ subs[s] = srv[s] \/ out[srv[s]] = "cancelled"
    BY DEF GrantInv, OpenInv, Served
  <2>3. CASE fut[r] = "ack" /\ s = sid[target[r]]
    <3>1. srv[s] = target[r]
      BY <1>4, <2>1, <2>3, GrantsType DEF GrantInv, GrantsUnique
    <3>2. QED BY <1>4, <2>3, <3>1
  <2>4. CASE ~(fut[r] = "ack" /\ s = sid[target[r]])
    BY <1>1, <1>2, <2>1, <2>2, <2>4
  <2>5. QED BY <2>3, <2>4
<1>8. ConfirmFirst'
  BY <1>1, <1>3 DEF GrantInv, OpenInv, ConfirmFirst, Learns
<1>9. LiveOrEnding'
  <2> SUFFICES ASSUME Alive, NEW s \in SubIds, subs'[s] # 0
               PROVE  \/ srv[s] = subs'[s] \/ Ending(s)'
                      \/ \E q \in Requests : target'[q] = subs'[s] /\ Acked(q)'
    BY <1>1, <1>3 DEF LiveOrEnding
  <2>1. subs'[s] = subs[s]
    BY <1>3
  <2>2. CASE \E q \in Requests : target[q] = subs[s] /\ Acked(q)
    <3>1. PICK q \in Requests : target[q] = subs[s] /\ Acked(q)
      BY <2>2
    <3>2. CASE q # r
      BY <1>1, <1>2, <1>3, <2>1, <3>1, <3>2 DEF Acked
    <3>3. CASE q = r
      <4>1. fut[r] = "ack" \/ \E f \in Flying : f.type = "ack" /\ f.id = r
        BY <1>2, <3>1, <3>3 DEF Acked
      <4>2. fut[r] = "ack"
        BY <1>1, <4>1 DEF AnswerInv, AnswersOnWire, AnswerTrue, Answers, ResolvesTo
      <4>3. sid[target[r]] = s
        BY <2>1, <3>1, <3>3 DEF GrantInv, OpenInv, HandlesKnown
      <4>4. QED BY <1>1, <4>2, <4>3
    <3>4. QED BY <3>2, <3>3
  <2>3. QED BY <1>1, <1>3, <2>1, <2>2 DEF GrantInv, OpenInv, LiveOrEnding, Ending
<1>10. QED BY <1>5, <1>6, <1>7, <1>8, <1>9 DEF OpenInv

----------------------------------------------------------------------------
(* What a call will learn survives the other frames.                       *)
LEMMA LearnsTail ==
    ASSUME TypeOK, TakeFrame, UNCHANGED <<srv, granted>>, NEW r \in Requests, Learns(r),
           ~(frame.type = "confirm" /\ frame.id = r)
    PROVE  Learns(r)'
<1> DEFINE n == Len(toClient)
<1>1. n \in Nat /\ frame = toClient[1]
  BY FlyingType DEF frame
<1>2. Len(toClient') = n - 1 /\ \A i \in 1..(n - 1) : toClient'[i] = toClient[i + 1]
  BY FlyingType, HeadTailProperties DEF TakeFrame
<1>3. PICK i \in 1..n :
        /\ toClient[i].type = "confirm" /\ toClient[i].id = r
        /\ \/ srv[granted[r]] = r
           \/ \E k \in 1..n : i < k /\ toClient[k].type = "final" /\ toClient[k].sid = granted[r]
  BY DEF Learns
<1> HIDE DEF n
<1>4. i # 1
  BY <1>1, <1>3
<1>5. i - 1 \in 1..(n - 1) /\ (i - 1) + 1 = i
  BY <1>1, <1>4
<1>6. toClient'[i - 1] = toClient[i]
  BY <1>2, <1>5
<1>7. CASE srv[granted[r]] = r
  BY <1>2, <1>3, <1>5, <1>6, <1>7 DEF Learns
<1>8. CASE \E k \in 1..n : i < k /\ toClient[k].type = "final" /\ toClient[k].sid = granted[r]
  <2>1. PICK k \in 1..n : i < k /\ toClient[k].type = "final" /\ toClient[k].sid = granted[r]
    BY <1>8
  <2>2. k - 1 \in 1..(n - 1) /\ (k - 1) + 1 = k /\ i - 1 < k - 1
    BY <1>1, <1>5, <2>1
  <2>3. toClient'[k - 1] = toClient[k]
    BY <1>2, <2>2
  <2>4. QED BY <1>2, <1>3, <1>5, <1>6, <2>1, <2>2, <2>3 DEF Learns
<1>9. QED BY <1>3, <1>7, <1>8

LEMMA LearnsAppend ==
    ASSUME TypeOK, NEW f \in Frame, toClient' = Append(toClient, f), NEW r \in Requests,
           granted'[r] = granted[r], Learns(r),
           srv'[granted[r]] = srv[granted[r]] \/ (f.type = "final" /\ f.sid = granted[r])
    PROVE  Learns(r)'
<1> DEFINE n == Len(toClient)
<1>1. /\ n \in Nat /\ Len(toClient') = n + 1
      /\ \A i \in 1..n : toClient'[i] = toClient[i]
      /\ toClient'[n + 1] = f
  BY FlyingType, AppendProperties
<1>2. PICK i \in 1..n :
        /\ toClient[i].type = "confirm" /\ toClient[i].id = r
        /\ \/ srv[granted[r]] = r
           \/ \E k \in 1..n : i < k /\ toClient[k].type = "final" /\ toClient[k].sid = granted[r]
  BY DEF Learns
<1> HIDE DEF n
<1>3. i \in 1..(n + 1) /\ toClient'[i] = toClient[i] /\ n + 1 \in 1..(n + 1) /\ i < n + 1
  BY <1>1
<1>4. CASE \E k \in 1..n : i < k /\ toClient[k].type = "final" /\ toClient[k].sid = granted[r]
  <2>1. PICK k \in 1..n : i < k /\ toClient[k].type = "final" /\ toClient[k].sid = granted[r]
    BY <1>4
  <2>2. k \in 1..(n + 1) /\ toClient'[k] = toClient[k]
    BY <1>1
  <2>3. QED BY <1>1, <1>2, <1>3, <2>1, <2>2 DEF Learns
<1>5. CASE srv[granted[r]] = r /\ srv'[granted[r]] = srv[granted[r]]
  BY <1>1, <1>2, <1>3, <1>5 DEF Learns
<1>6. CASE f.type = "final" /\ f.sid = granted[r]
  BY <1>1, <1>2, <1>3, <1>6 DEF Learns
<1>7. QED BY <1>2, <1>4, <1>5, <1>6

LEMMA LearnsNow ==
    ASSUME TypeOK, NEW f \in Frame, toClient' = Append(toClient, f), NEW r \in Requests,
           f.type = "confirm", f.id = r, srv'[granted'[r]] = r
    PROVE  Learns(r)'
<1> DEFINE n == Len(toClient)
<1>1. n \in Nat /\ Len(toClient') = n + 1 /\ toClient'[n + 1] = f
  BY FlyingType, AppendProperties
<1> HIDE DEF n
<1>2. n + 1 \in 1..(n + 1)
  BY <1>1
<1>3. QED BY <1>1, <1>2 DEF Learns

----------------------------------------------------------------------------
(* The steps of the reader.  Only its own answer makes a call learn.       *)
LEMMA ReadLearns ==
    ASSUME TypeOK, ConfirmFirst, TakeFrame, UNCHANGED <<srv, granted, sock, closedExc>>,
           pending' \subseteq pending, frame.type = "confirm" => frame.id \notin pending'
    PROVE  ConfirmFirst'
<1> SUFFICES ASSUME Alive', NEW r \in pending', granted[r] # 0 PROVE Learns(r)'
  BY DEF ConfirmFirst
<1>1. Alive /\ r \in pending /\ r \in Requests
  BY DEF Alive, TypeOK
<1>2. Learns(r)
  BY <1>1 DEF ConfirmFirst
<1>3. QED BY <1>1, <1>2, LearnsTail

LEMMA SubscribedGives ==
    ASSUME TypeOK, CallInv, AnswerInv, DispatchSubscribed
    PROVE  /\ TakeFrame /\ frame \in Flying /\ closedExc = NoExc
           /\ frame.type = "confirm" /\ frame.id \in pending /\ frame.id \in Requests
           /\ fut[frame.id] = "pending" /\ kind[frame.id] # NoKind /\ out[frame.id] = "none"
           /\ granted[frame.id] = frame.sid /\ frame.sid \in SubIds
           /\ UNCHANGED <<srv, granted, sock, closedExc, pc, out, target, kind>>
           /\ pending' = pending \ {frame.id}
           /\ fut'[frame.id] = "handle" /\ sid'[frame.id] = frame.sid /\ subs'[frame.sid] = frame.id
           /\ \A r \in Requests : r # frame.id => fut'[r] = fut[r] /\ sid'[r] = sid[r]
           /\ \A s \in SubIds : s # frame.sid => subs'[s] = subs[s]
<1>1. /\ TakeFrame /\ frame \in Flying /\ frame \in Frame /\ closedExc = NoExc
      /\ frame.type = "confirm" /\ frame.id \in pending /\ kind[frame.id] # NoKind
      /\ UNCHANGED <<srv, granted, sock, closedExc, pc, out, target, kind>>
      /\ pending' = pending \ {frame.id} /\ fut' = [fut EXCEPT ![frame.id] = "handle"]
      /\ sid' = [sid EXCEPT ![frame.id] = frame.sid] /\ subs' = [subs EXCEPT ![frame.sid] = frame.id]
  BY FlyingTaken DEF DispatchSubscribed, CanDispatch, TakeFrame, Owner, lifeVars
<1>2. frame.id \in Requests /\ fut[frame.id] = "pending" /\ frame.id \in InCall
  BY <1>1 DEF CallInv, PendingExact, TypeOK
<1>3. out[frame.id] = "none"
  BY <1>2 DEF AnswerInv, CallRecords, InCall
<1>4. granted[frame.id] = frame.sid /\ frame.sid # 0
  BY <1>1 DEF AnswerInv, AnswersOnWire, AnswerTrue, Answers
<1>5. frame.sid \in SubIds
  BY <1>2, <1>4, GrantsType
<1>6. QED BY <1>1, <1>2, <1>3, <1>4, <1>5 DEF TypeOK

LEMMA SubscribedOpens ==
    ASSUME TypeOK, CallInv, AnswerInv, GrantInv, DispatchSubscribed
    PROVE  OpenInv'
<1> DEFINE o == frame.id
           x == frame.sid
<1>1. /\ TakeFrame /\ frame \in Flying /\ closedExc = NoExc
      /\ frame.type = "confirm" /\ o \in pending /\ o \in Requests
      /\ fut[o] = "pending" /\ kind[o] # NoKind /\ out[o] = "none"
      /\ granted[o] = x /\ x \in SubIds
      /\ UNCHANGED <<srv, granted, sock, closedExc, pc, out, target, kind>>
      /\ pending' = pending \ {o}
      /\ fut'[o] = "handle" /\ sid'[o] = x /\ subs'[x] = o
      /\ \A r \in Requests : r # o => fut'[r] = fut[r] /\ sid'[r] = sid[r]
      /\ \A s \in SubIds : s # x => subs'[s] = subs[s]
  BY SubscribedGives
<1>2. Alive' = Alive /\ InCall' = InCall /\ Flying = Flying' \cup {frame}
  BY <1>1, FlyingTaken DEF Alive, InCall
<1>3. o # 0 /\ x # 0
  BY <1>1 DEF Requests, SubIds
<1>4. HandlesKnown'
  BY <1>1 DEF GrantInv, OpenInv, HandlesKnown
<1>5. OpenFutures'
  BY <1>1 DEF GrantInv, OpenInv, OpenFutures
<1>6. Served'
  <2>1. \A s \in SubIds : srv[s] = o => s = x
    BY <1>1, <1>3 DEF GrantInv, GrantsUnique
  <2>2. \A s \in SubIds : s = x /\ srv[s] # 0 => srv[s] = o
    BY <1>1, <1>3 DEF GrantInv, GrantsUnique
  <2>3. QED BY <1>1, <2>1, <2>2 DEF GrantInv, OpenInv, Served
<1>7. ConfirmFirst'
  BY <1>1, ReadLearns DEF GrantInv, OpenInv
<1>8. LiveOrEnding'
  <2> SUFFICES ASSUME Alive, NEW s \in SubIds, subs'[s] # 0
               PROVE  \/ srv[s] = subs'[s] \/ Ending(s)'
                      \/ \E q \in Requests : target[q] = subs'[s] /\ Acked(q)'
    BY <1>1, <1>2 DEF LiveOrEnding
  <2>1. CASE s = x
    <3>1. Learns(o)
      BY <1>1, <1>3 DEF GrantInv, OpenInv, ConfirmFirst
    <3>2. CASE srv[x] = o
      BY <1>1, <2>1, <3>2
    <3>3. CASE srv[x] # o
      <4>1. PICK i \in 1..Len(toClient), k \in 1..Len(toClient) :
                i < k /\ toClient[k].type = "final" /\ toClient[k].sid = x
        BY <1>1, <3>1, <3>3 DEF Learns
      <4>2. toClient[k] \in Flying /\ toClient[k] # frame
        BY <1>1, <4>1 DEF Flying
      <4>3. toClient[k] \in Flying'
        BY <1>2, <4>2
      <4>4. QED BY <2>1, <4>1, <4>3 DEF Ending
    <3>4. QED BY <3>2, <3>3
  <2>2. CASE s # x
    <3>1. subs'[s] = subs[s]
      BY <1>1, <2>2
    <3>2. CASE Ending(s)
      BY <1>1, <1>2, <3>2 DEF Ending
    <3>3. CASE \E q \in Requests : target[q] = subs[s] /\ Acked(q)
      <4>1. PICK q \in Requests : target[q] = subs[s] /\ Acked(q)
        BY <3>3
      <4>2. fut[q] = "ack" => fut'[q] = "ack"
        BY <1>1
      <4>3. Acked(q)'
        BY <1>1, <1>2, <4>1, <4>2 DEF Acked
      <4>4. QED BY <1>1, <3>1, <4>1, <4>3
    <3>4. QED BY <3>1, <3>2, <3>3 DEF GrantInv, OpenInv, LiveOrEnding
  <2>3. QED BY <2>1, <2>2
<1>9. QED BY <1>4, <1>5, <1>6, <1>7, <1>8 DEF OpenInv

LEMMA AnswerOpens ==
    ASSUME TypeOK, CallInv, AnswerInv, GrantInv, DispatchAnswer
    PROVE  OpenInv'
<1> DEFINE o == frame.id
<1>1. /\ TakeFrame /\ frame \in Flying /\ closedExc = NoExc
      /\ frame.type \in {"ack", "nack", "error"} /\ o \in pending /\ o \in Requests
      /\ UNCHANGED <<srv, granted, sock, closedExc, pc, out, target, kind, sid, subs>>
      /\ pending' = pending \ {o} /\ fut' = [fut EXCEPT ![o] = frame.type]
  BY FlyingTaken DEF DispatchAnswer, CanDispatch, TakeFrame, Owner, lifeVars, TypeOK
<1>2. fut[o] = "pending" /\ fut'[o] = frame.type /\ o \in InCall
      /\ \A r \in Requests : r # o => fut'[r] = fut[r]
  BY <1>1 DEF CallInv, PendingExact, TypeOK
<1>3. Alive' = Alive /\ InCall' = InCall /\ Flying = Flying' \cup {frame}
  BY <1>1, FlyingTaken DEF Alive, InCall
<1>4. HandlesKnown'
  BY <1>1, <1>2 DEF GrantInv, OpenInv, HandlesKnown
<1>5. OpenFutures'
  BY <1>1, <1>2 DEF GrantInv, OpenInv, OpenFutures
<1>6. Served'
  <2>1. granted[o] = 0
    <3>1. AnswerTrue(frame)
      BY <1>1 DEF AnswerInv, AnswersOnWire, Answers
    <3>2. kind[o] = NoKind \/ frame.type = "error"
      BY <1>1, <3>1 DEF AnswerTrue, AnswerInv, TargetsKnown
    <3>3. QED BY <1>1, <3>1, <3>2 DEF AnswerTrue, AnswerInv, GrantsKnown
  <2>2. \A s \in SubIds : srv[s] # o \/ srv[s] = 0
    BY <2>1 DEF GrantInv, GrantsUnique, SubIds
  <2>3. QED BY <1>1, <2>2 DEF GrantInv, OpenInv, Served
<1>7. ConfirmFirst'
  BY <1>1, ReadLearns DEF GrantInv, OpenInv
<1>8. LiveOrEnding'
  <2>1. \A q \in Requests : Acked(q) => Acked(q)'
    BY <1>1, <1>2, <1>3 DEF Acked
  <2>2. \A s \in SubIds : Ending(s) => Ending(s)'
    BY <1>1, <1>3 DEF Ending
  <2>3. QED BY <1>1, <1>3, <2>1, <2>2 DEF GrantInv, OpenInv, LiveOrEnding
<1>9. QED BY <1>4, <1>5, <1>6, <1>7, <1>8 DEF OpenInv

LEMMA StrayOpens ==
    ASSUME TypeOK, CallInv, AnswerInv, GrantInv, DispatchStray
    PROVE  OpenInv'
<1>1. /\ TakeFrame /\ frame \in Flying /\ closedExc = NoExc
      /\ frame.type \in Answers /\ frame.id \notin pending
      /\ UNCHANGED <<srv, granted, sock, closedExc, pc, out, target, sid, subs, fut, pending>>
  BY FlyingTaken DEF DispatchStray, CanDispatch, TakeFrame, Owner, lifeVars, callVars
<1>2. Alive' = Alive /\ InCall' = InCall /\ Flying = Flying' \cup {frame}
  BY <1>1, FlyingTaken DEF Alive, InCall
<1>3. HandlesKnown' /\ OpenFutures' /\ Served'
  BY <1>1 DEF GrantInv, OpenInv, HandlesKnown, OpenFutures, Served
<1>4. ConfirmFirst'
  BY <1>1, ReadLearns DEF GrantInv, OpenInv
<1>5. LiveOrEnding'
  <2>1. ASSUME NEW q \in Requests, Acked(q) PROVE Acked(q)'
    <3>1. CASE q \in InCall /\ fut[q] # "ack" /\ frame.id = q
      <4>1. out[q] # "cancelled" /\ fut[q] # "absent"
        BY <3>1 DEF InCall, AnswerInv, CallRecords
      <4>2. fut[q] # "pending" /\ fut[q] \notin {"closed", "cancelled"}
        BY <1>1, <3>1, <4>1 DEF CallInv, PendingExact, GrantInv, OpenInv, OpenFutures
      <4>3. fut[q] \in Resolved
        BY <4>1, <4>2 DEF Resolved, TypeOK, Futures
      <4>4. PICK f \in Flying : f.type = "ack" /\ f.id = q
        BY <2>1, <3>1, <4>1 DEF Acked
      <4>5. fut[q] = "ack"
        BY <4>3, <4>4 DEF AnswerInv, AnswersOnWire, AnswerTrue, ResolvesTo, Answers
      <4>6. QED BY <3>1, <4>5
    <3>2. CASE ~(q \in InCall /\ fut[q] # "ack" /\ frame.id = q)
      BY <1>1, <1>2, <2>1, <3>2 DEF Acked
    <3>3. QED BY <3>1, <3>2
  <2>2. \A s \in SubIds : Ending(s) => Ending(s)'
    BY <1>1, <1>2 DEF Ending, Answers
  <2>3. QED BY <1>1, <1>2, <2>1, <2>2 DEF GrantInv, OpenInv, LiveOrEnding
<1>6. QED BY <1>3, <1>4, <1>5 DEF OpenInv

LEMMA NotifiedOpens ==
    ASSUME TypeOK, CallInv, AnswerInv, GrantInv, EndNotified, closedExc' = NoExc
    PROVE  OpenInv'
<1>1. /\ TakeFrame /\ frame \in Flying /\ closedExc = NoExc
      /\ frame.type \in {"note", "final"}
      /\ UNCHANGED <<srv, granted, sock, closedExc, pc, out, target, sid, fut, pending>>
      /\ subs' = EndedSubs
  BY FlyingTaken DEF EndNotified, TakeNotification, CanDispatch, TakeFrame
<1>2. Alive' = Alive /\ InCall' = InCall /\ Flying = Flying' \cup {frame}
  BY <1>1, FlyingTaken DEF Alive, InCall
<1>3. /\ \A s \in SubIds : subs'[s] = subs[s] \/ (subs'[s] = 0 /\ s = frame.sid /\ srv[s] = 0)
      /\ frame.type = "final" => subs'[frame.sid] = 0
  <2>1. CASE frame.type = "final"
    <3>1. srv[frame.sid] = 0 /\ frame.sid \in SubIds
      BY <1>1, <2>1, FlyingType, GrantsType DEF GrantInv, GrantsUnique, Frame, SubIds
    <3>2. QED BY <1>1, <2>1, <3>1 DEF EndedSubs, TypeOK
  <2>2. CASE frame.type # "final"
    BY <1>1, <2>2 DEF EndedSubs
  <2>3. QED BY <2>1, <2>2
<1>4. HandlesKnown' /\ OpenFutures' /\ Served'
  BY <1>1, <1>3 DEF GrantInv, OpenInv, HandlesKnown, OpenFutures, Served
<1>5. ConfirmFirst'
  BY <1>1, ReadLearns DEF GrantInv, OpenInv
<1>6. LiveOrEnding'
  <2>1. \A q \in Requests : Acked(q) => Acked(q)'
    BY <1>1, <1>2 DEF Acked
  <2>2. \A s \in SubIds : Ending(s) /\ subs'[s] # 0 => Ending(s)'
    BY <1>1, <1>2, <1>3 DEF Ending
  <2>3. QED BY <1>1, <1>2, <1>3, <2>1, <2>2 DEF GrantInv, OpenInv, LiveOrEnding
<1>7. QED BY <1>4, <1>5, <1>6 DEF OpenInv

----------------------------------------------------------------------------
(* The steps of the node.  A frame more disturbs nothing, as long as a     *)
(* subscription that stops being served leaves its end on the way.         *)
LEMMA AppendOpens ==
    ASSUME TypeOK, CallInv, GrantInv, UNCHANGED <<callVars, lifeVars, granted, sock>>,
           NEW f \in Frame, toClient' = Append(toClient, f),
           \A x \in SubIds : srv'[x] = srv[x] \/ srv'[x] = 0,
           \A r \in pending : granted[r] # 0 =>
               srv'[granted[r]] = srv[granted[r]] \/ (f.type = "final" /\ f.sid = granted[r]),
           \A x \in SubIds : srv[x] = subs[x] /\ subs[x] # 0 =>
               \/ srv'[x] = srv[x] \/ Ending(x)'
               \/ \E r \in Requests : target[r] = subs[x] /\ Acked(r)'
    PROVE  OpenInv'
<1>1. Flying \subseteq Flying' /\ Alive' = Alive /\ InCall' = InCall
  BY FlyingAppend DEF Alive, InCall, callVars, lifeVars
<1>2. HandlesKnown' /\ OpenFutures' /\ Served'
  BY DEF GrantInv, OpenInv, HandlesKnown, OpenFutures, Served, callVars, lifeVars
<1>3. ConfirmFirst'
  <2> SUFFICES ASSUME Alive, NEW r \in pending, granted[r] # 0 PROVE Learns(r)'
    BY <1>1 DEF ConfirmFirst, callVars
  <2>1. r \in Requests /\ Learns(r)
    BY DEF TypeOK, GrantInv, OpenInv, ConfirmFirst
  <2>2. QED BY <2>1, LearnsAppend
<1>4. LiveOrEnding'
  <2> SUFFICES ASSUME Alive, NEW s \in SubIds, subs[s] # 0
               PROVE  \/ srv'[s] = subs[s] \/ Ending(s)'
                      \/ \E r \in Requests : target[r] = subs[s] /\ Acked(r)'
    BY <1>1 DEF LiveOrEnding, callVars
  <2>1. \A r \in Requests : Acked(r) => Acked(r)'
    BY <1>1 DEF Acked, callVars
  <2>2. Ending(s) => Ending(s)'
    BY <1>1 DEF Ending
  <2>3. QED BY <2>1, <2>2 DEF GrantInv, OpenInv, LiveOrEnding
<1>5. QED BY <1>2, <1>3, <1>4 DEF OpenInv

LEMMA AcceptOpens ==
    ASSUME TypeOK, CallInv, AnswerInv, GrantInv, ~Recycle, UNCHANGED <<callVars, lifeVars>>,
           closedExc = NoExc, NEW m \in toServer, AcceptSubscribe(m)
    PROVE  OpenInv'
<1>1. PICK s \in SubIds :
        /\ s = lastSid + 1 /\ lastSid' = s
        /\ srv'[s] = m.id /\ \A x \in SubIds : x # s => srv'[x] = srv[x]
        /\ granted'[m.id] = s /\ \A r \in Requests : r # m.id => granted'[r] = granted[r]
        /\ m.id \in Requests
        /\ toClient' = Append(toClient, Answer("confirm", m.id, s))
        /\ Answer("confirm", m.id, s) \in Frame
  BY AcceptGives
<1>2. Flying \subseteq Flying' /\ Alive' = Alive /\ InCall' = InCall
  BY <1>1, FlyingAppend DEF Alive, InCall, callVars, lifeVars, AcceptSubscribe
<1>3. \A r \in Requests : granted[r] # s
  BY <1>1, GrantsType DEF GrantInv, GrantsUnique
<1>4. HandlesKnown' /\ OpenFutures'
  BY DEF GrantInv, OpenInv, HandlesKnown, OpenFutures, callVars, lifeVars
<1>5. Served'
  <2>1. fut[m.id] \notin Resolved /\ fut[m.id] # "absent"
    BY TakenRequest DEF AnswerInv, CallRecords, Written
  <2>2. fut[m.id] = "pending" \/ out[m.id] = "cancelled"
    BY <1>1, <2>1 DEF GrantInv, OpenInv, OpenFutures, TypeOK, Futures, Resolved
  <2>3. m.id \in pending \/ out[m.id] = "cancelled"
    BY <1>1, <2>2 DEF CallInv, PendingExact
  <2>4. QED BY <1>1, <2>3 DEF GrantInv, OpenInv, Served, callVars, lifeVars
<1>6. ConfirmFirst'
  <2> SUFFICES ASSUME Alive, NEW r \in pending, granted'[r] # 0 PROVE Learns(r)'
    BY <1>2 DEF ConfirmFirst, callVars
  <2>1. CASE r = m.id
    BY <1>1, <2>1, LearnsNow DEF Answer
  <2>2. CASE r # m.id
    <3>1. r \in Requests /\ Learns(r) /\ granted'[r] = granted[r]
      BY <1>1, <2>2 DEF TypeOK, GrantInv, OpenInv, ConfirmFirst
    <3>2. granted[r] \in SubIds /\ granted[r] # s
      BY <1>3, <3>1, GrantsType
    <3>3. QED BY <1>1, <3>1, <3>2, LearnsAppend
  <2>3. QED BY <2>1, <2>2
<1>7. LiveOrEnding'
  <2> SUFFICES ASSUME Alive, NEW x \in SubIds, subs[x] # 0
               PROVE  \/ srv'[x] = subs[x] \/ Ending(x)'
                      \/ \E r \in Requests : target[r] = subs[x] /\ Acked(r)'
    BY <1>2 DEF LiveOrEnding, callVars
  <2>1. x # s
    BY <1>3 DEF GrantInv, OpenInv, HandlesKnown, AnswerInv, GrantsKnown
  <2>2. \A r \in Requests : Acked(r) => Acked(r)'
    BY <1>2 DEF Acked, callVars
  <2>3. Ending(x) => Ending(x)'
    BY <1>2 DEF Ending
  <2>4. QED BY <1>1, <2>1, <2>2, <2>3 DEF GrantInv, OpenInv, LiveOrEnding
<1>8. QED BY <1>4, <1>5, <1>6, <1>7 DEF OpenInv

(* An unsubscribe request ends the subscription of its own handle.         *)
LEMMA UnsubscribeOpens ==
    ASSUME TypeOK, CallInv, AnswerInv, GrantInv, UNCHANGED <<callVars, lifeVars>>,
           closedExc = NoExc, NEW m \in toServer, HandleUnsubscribe(m)
    PROVE  OpenInv'
<1> DEFINE t == target[m.id]
<1>1. m.id \in Requests /\ m.kind = NoKind /\ t # 0 /\ m.sid = sid[t]
      /\ pc[m.id] \in Written /\ fut[m.id] \notin Resolved
  BY TakenRequest DEF HandleUnsubscribe
<1>2. t \in Requests /\ m.sid \in SubIds /\ granted[t] = m.sid /\ fut[t] = "handle"
  BY <1>1, TargetSid DEF AnswerInv, TargetsKnown
<1> HIDE DEF t
<1>3. \A a \in {"ack", "nack"} : /\ Answer(a, m.id, m.sid) \in Frame
                                 /\ Answer(a, m.id, m.sid).type = a
                                 /\ Answer(a, m.id, m.sid).id = m.id
  BY <1>1, <1>2 DEF Answer, Frame, FrameTypes, Answers, Requests, SubIds
<1>4. UNCHANGED <<granted, sock>>
  BY DEF HandleUnsubscribe
<1>5. CASE /\ toClient' = Append(toClient, Answer("ack", m.id, m.sid))
           /\ srv' = [srv EXCEPT ![m.sid] = 0]
  <2>1. \A x \in SubIds : IF x = m.sid THEN srv'[x] = 0 ELSE srv'[x] = srv[x]
    BY <1>5 DEF TypeOK, PeerTypeOK
  <2>2. \A r \in Requests : granted[r] = m.sid => r = t
    BY <1>2 DEF GrantInv, GrantsUnique, SubIds
  <2>3. \A r \in pending : r \in Requests /\ fut[r] = "pending"
    BY DEF CallInv, PendingExact, TypeOK
  <2>4. \A r \in pending : granted[r] # 0 => srv'[granted[r]] = srv[granted[r]]
    BY <1>2, <2>1, <2>2, <2>3, GrantsType
  <2>5. Acked(m.id)'
    <3>1. out[m.id] = "cancelled" \/ m.id \in InCall
      <4>1. fut[m.id] # "absent"
        BY <1>1 DEF AnswerInv, CallRecords, Written
      <4>2. fut[m.id] = "pending" \/ out[m.id] = "cancelled"
        BY <1>1, <4>1 DEF GrantInv, OpenInv, OpenFutures, TypeOK, Futures, Resolved
      <4>3. QED BY <1>1, <4>2 DEF CallInv, PendingExact
    <3>2. Answer("ack", m.id, m.sid) \in Flying'
      BY <1>3, <1>5, FlyingAppend
    <3>3. UNCHANGED <<out, pc>>
      BY DEF callVars
    <3>4. QED BY <1>3, <3>1, <3>2, <3>3 DEF Acked, InCall
  <2>6. subs[m.sid] # 0 => subs[m.sid] = t
    BY <1>2, <2>2 DEF GrantInv, OpenInv, HandlesKnown, AnswerInv, GrantsKnown
  <2>7. \A x \in SubIds : srv[x] = subs[x] /\ subs[x] # 0 =>
            srv'[x] = srv[x] \/ \E r \in Requests : target[r] = subs[x] /\ Acked(r)'
    BY <1>1, <2>1, <2>5, <2>6 DEF t
  <2>8. QED BY <1>3, <1>4, <1>5, <2>1, <2>4, <2>7, AppendOpens
<1>6. CASE toClient' = Append(toClient, Answer("nack", m.id, m.sid)) /\ srv' = srv
  BY <1>3, <1>4, <1>6, AppendOpens
<1>7. QED BY <1>5, <1>6 DEF HandleUnsubscribe

LEMMA PeerOpens ==
    ASSUME TypeOK, CallInv, AnswerInv, GrantInv, ~Recycle, closedExc = NoExc, Peer
    PROVE  OpenInv'
<1>1. UNCHANGED <<callVars, lifeVars>>
  BY DEF Peer
<1>2. ASSUME NEW m \in toServer, Refuse(m) PROVE OpenInv'
  <2>1. Answer("error", m.id, 0) \in Frame
    BY TakenRequest DEF Answer, Frame, FrameTypes, Answers, Requests
  <2>2. UNCHANGED <<granted, sock, srv>> /\ toClient' = Append(toClient, Answer("error", m.id, 0))
    BY <1>2 DEF Refuse
  <2>3. QED BY <1>1, <2>1, <2>2, AppendOpens
<1>3. ASSUME NEW s \in SubIds, Notify(s) PROVE OpenInv'
  <2>1. PICK f \in Frame :
            /\ f.type \in {"note", "final"} /\ f.sid = s /\ toClient' = Append(toClient, f)
            /\ srv[s] # 0 /\ UNCHANGED <<granted, lastSid, sock>>
            /\ f.type = "note" => srv' = srv
            /\ f.type = "final" => srv'[s] = 0 /\ \A x \in SubIds : x # s => srv'[x] = srv[x]
    BY <1>3, NotifyGives
  <2>2. CASE f.type = "note"
    BY <1>1, <2>1, <2>2, AppendOpens
  <2>3. CASE f.type = "final"
    <3>1. Ending(s)'
      BY <2>1, <2>3, FlyingAppend DEF Ending
    <3>2. \A r \in pending : granted[r] # 0 =>
              srv'[granted[r]] = srv[granted[r]] \/ (f.type = "final" /\ f.sid = granted[r])
      BY <2>1, <2>3, GrantsType DEF TypeOK
    <3>3. \A x \in SubIds : x # s => srv'[x] = srv[x]
      BY <2>1, <2>3
    <3>4. QED BY <1>1, <2>1, <2>3, <3>1, <3>2, <3>3, AppendOpens
  <2>4. QED BY <2>1, <2>2, <2>3
<1>4. CASE Duplicate
  <2>1. PICK i \in 1..Len(toClient) : toClient' = Append(toClient, toClient[i])
    BY <1>4, FlyingType, LenProperties DEF Duplicate
  <2>2. toClient[i] \in Frame
    BY FlyingType DEF Flying
  <2>3. QED BY <1>1, <1>4, <2>1, <2>2, AppendOpens DEF Duplicate
<1>5. CASE Corrupt
  <2>1. BadFrame \in Frame
    BY DEF BadFrame, Frame, FrameTypes
  <2>2. QED BY <1>1, <1>5, <2>1, AppendOpens DEF Corrupt
<1>6. CASE RemoteClose \/ SocketClosed
  <2>1. sock' = "closed" /\ \A s \in SubIds : srv'[s] = 0
    BY <1>6 DEF RemoteClose, SocketClosed
  <2>2. HandlesKnown' /\ OpenFutures'
    BY <1>1 DEF GrantInv, OpenInv, HandlesKnown, OpenFutures, callVars, lifeVars
  <2>3. Served' /\ ConfirmFirst' /\ LiveOrEnding'
    BY <2>1 DEF Served, ConfirmFirst, LiveOrEnding, Alive
  <2>4. QED BY <2>2, <2>3 DEF OpenInv
<1>7. QED BY <1>1, <1>2, <1>3, <1>4, <1>5, <1>6, AcceptOpens, UnsubscribeOpens DEF Peer, PeerStep

LEMMA StillOpens ==
    ASSUME GrantInv, Still, closedExc = NoExc, closedExc' = NoExc
    PROVE  OpenInv'
<1>1. Flying' = Flying /\ (Alive' => Alive)
  BY DEF Still, Flying, Alive
<1>2. HandlesKnown' /\ OpenFutures' /\ Served'
  BY DEF Still, GrantInv, OpenInv, HandlesKnown, OpenFutures, Served
<1>3. ConfirmFirst'
  BY <1>1 DEF Still, GrantInv, OpenInv, ConfirmFirst, Learns
<1>4. LiveOrEnding'
  BY <1>1 DEF Still, GrantInv, OpenInv, LiveOrEnding, Ending, Acked
<1>5. QED BY <1>2, <1>3, <1>4 DEF OpenInv

----------------------------------------------------------------------------
LEMMA GrantInvariant == ~Recycle => (Spec => []GrantInv)
<1> SUFFICES ASSUME ~Recycle PROVE Spec => []GrantInv
  OBVIOUS
<1>1. Init => GrantInv
  <2>1. Init => Flying = {}
    BY DEF Init, PeerInit, Flying
  <2>2. QED
    BY <2>1 DEF Init, PeerInit, GrantInv, OpenInv, GrantsUnique, HandlesKnown, OpenFutures, Served,
                ConfirmFirst, LiveOrEnding
<1>2. TypeOK /\ CallInv /\ AnswerInv /\ CallInv' /\ GrantInv /\ [Next]_vars => GrantInv'
  <2> SUFFICES ASSUME TypeOK, CallInv, AnswerInv, CallInv', GrantInv, [Next]_vars
               PROVE  OpenInv'
    BY GrantsStep DEF GrantInv
  <2>1. CASE closedExc' # NoExc
    <3>1. \A s \in SubIds : subs'[s] = 0
      BY <2>1 DEF CallInv, DeadConnectionOwnsNothing
    <3>2. QED
      BY <2>1, <3>1 DEF OpenInv, HandlesKnown, OpenFutures, Served, ConfirmFirst, LiveOrEnding, Alive
  <2>2. CASE closedExc' = NoExc
    <3>1. closedExc = NoExc
      BY <2>2, OpenSteps
    <3>2. ASSUME NEW k \in Kinds, Subscribe(k) PROVE OpenInv'
      BY <3>2, BeginOpens DEF Subscribe
    <3>3. ASSUME NEW r \in Requests, Unsubscribe(r) PROVE OpenInv'
      BY <3>3, BeginOpens DEF Unsubscribe
    <3>4. QED
      BY <2>2, <3>1, <3>2, <3>3, OpenSteps, CancelOpens, ReturnOpens, SubscribedOpens, AnswerOpens,
         StrayOpens, NotifiedOpens, PeerOpens, StillOpens
  <2>3. QED BY <2>1, <2>2
<1>3. QED BY <1>1, <1>2, TypeCorrect, CallInvariant, AnswerInvariant, PTL DEF Spec

(* No answer, cancellation or notification, in whatever order, leaves the  *)
(* node serving a subscription that the client can no longer end, when it  *)
(* gives no id again.                                                      *)
THEOREM NothingIsOrphaned == ~Recycle => (Spec => []NoOrphan)
<1> SUFFICES ASSUME ~Recycle PROVE Spec => []NoOrphan
  OBVIOUS
<1>1. CallInv /\ GrantInv => NoOrphan
  BY DEF CallInv, PendingExact, GrantInv, OpenInv, Served, NoOrphan, IsOpen
<1>2. QED BY <1>1, CallInvariant, GrantInvariant, PTL

(* No registered handle is dead for good: the node serves it, or the frame *)
(* or the unsubscribe call that removes it has yet to be processed, unless *)
(* that call was cancelled inside ws.send.                                 *)
THEOREM HandlesAreLiveOrEnding == ~Recycle => (Spec => []HandleLiveOrEnding)
<1> SUFFICES ASSUME ~Recycle PROVE Spec => []HandleLiveOrEnding
  OBVIOUS
<1>1. TypeOK /\ AnswerInv /\ GrantInv => HandleLiveOrEnding
  <2> SUFFICES ASSUME TypeOK, AnswerInv, GrantInv, IsOpen, sock = "open", NEW s \in SubIds, subs[s] # 0
               PROVE  \/ srv[s] = subs[s]
                      \/ InFlight("final", s)
                      \/ \E r \in Requests :
                          /\ target[r] = subs[s]
                          /\ \/ out[r] = "cancelled"
                             \/ r \in InCall /\ (fut[r] = "ack" \/ InFlight("ack", s))
    BY DEF HandleLiveOrEnding
  <2>1. DOMAIN toClient = 1..Len(toClient)
    BY FlyingType, LenProperties
  <2>2. \A f \in Flying : f.sid = s => InFlight(f.type, s)
    BY <2>1 DEF Flying, InFlight
  <2>3. \A r \in Requests : target[r] = subs[s] => sid[target[r]] = s
    BY DEF GrantInv, OpenInv, HandlesKnown
  <2>4. \A f \in Flying : f.type = "ack" => f.sid = sid[target[f.id]]
    BY DEF AnswerInv, AnswersOnWire, AnswerTrue, Answers
  <2>5. ASSUME NEW r \in Requests, target[r] = subs[s], Acked(r)
        PROVE  out[r] = "cancelled" \/ (r \in InCall /\ (fut[r] = "ack" \/ InFlight("ack", s)))
    BY <2>2, <2>3, <2>4, <2>5 DEF Acked
  <2>6. Ending(s) => InFlight("final", s)
    BY <2>2 DEF Ending
  <2>7. QED BY <2>5, <2>6 DEF GrantInv, OpenInv, LiveOrEnding, Alive, IsOpen
<1>2. QED BY <1>1, TypeCorrect, AnswerInvariant, GrantInvariant, PTL

----------------------------------------------------------------------------
(* The life of one handle changes, or none.                                *)
LEMMA OneBecomes ==
    ASSUME closedExc = NoExc, closedExc' = NoExc, NEW h \in Requests, NEW a, NEW b,
           LifeOf(h) = a, LifeOf(h)' = b,
           \A q \in Requests : q # h => LifeOf(q)' = LifeOf(q)
    PROVE  Lives!Becomes(h, a, b)
BY DEF Lives!Becomes

LEMMA NoneBecomes ==
    ASSUME closedExc' = closedExc, \A q \in Requests : LifeOf(q)' = LifeOf(q)
    PROVE  UNCHANGED Lives!subscriptionVars
BY DEF Lives!subscriptionVars

Registered(h) == \E s \in SubIds : subs[s] = h

LEMMA EntryEnds ==
    ASSUME AnswerInv, GrantInv, closedExc = NoExc, closedExc' = NoExc,
           UNCHANGED <<kind, fut>>, NEW x \in SubIds,
           \A s \in SubIds : subs'[s] = IF s = x THEN 0 ELSE subs[s]
    PROVE  (\E h \in Requests : Lives!End(h)) \/ UNCHANGED Lives!subscriptionVars
<1>1. CASE subs[x] = 0
  <2>1. \A s \in SubIds : subs'[s] = subs[s]
    BY <1>1
  <2>2. QED BY <2>1, NoneBecomes DEF LifeOf
<1>2. CASE subs[x] # 0
  <2>1. PICK h \in Requests : h = subs[x] /\ fut[h] = "handle" /\ sid[h] = x /\ kind[h] # NoKind
    BY <1>2 DEF GrantInv, OpenInv, HandlesKnown, AnswerInv, CallRecords
  <2>2. \A s \in SubIds : subs[s] = h => s = x
    BY <1>2, <2>1 DEF GrantInv, OpenInv, HandlesKnown
  <2>3. h # 0
    BY <1>2, <2>1
  <2>4. LifeOf(h) = "live"
    BY <2>1 DEF LifeOf
  <2>5. LifeOf(h)' = "gone"
    BY <2>1, <2>2, <2>3 DEF LifeOf
  <2>6. \A q \in Requests : q # h => LifeOf(q)' = LifeOf(q)
    <3>1. \A q \in Requests : q # h => (Registered(q)' <=> Registered(q))
      BY <2>1 DEF Registered, Requests
    <3>2. QED BY <3>1 DEF LifeOf, Registered
  <2>7. Lives!End(h)
    BY <2>1, <2>4, <2>5, <2>6, OneBecomes DEF Lives!End
  <2>8. QED BY <2>1, <2>7
<1>3. QED BY <1>1, <1>2

LEMMA LivesOpen ==
    ASSUME TypeOK, CallInv, AnswerInv, GrantInv, [Next]_vars, closedExc' = NoExc
    PROVE  Lives!Next \/ UNCHANGED Lives!subscriptionVars
<1>1. closedExc = NoExc
  BY OpenSteps
<1>2. \A q \in Requests : fut[q] = "pending" => ~Registered(q)
  BY DEF GrantInv, OpenInv, HandlesKnown, Registered, Requests
<1>3. ASSUME NEW k, NEW h, BeginRequest(k, h), k = NoKind \/ k \in Kinds
      PROVE  Lives!Next \/ UNCHANGED Lives!subscriptionVars
  <2>1. PICK n \in Requests : n = nextReq /\ kind[n] = NoKind /\ subs' = subs
    BY <1>3, NewRequest DEF BeginRequest, AnswerInv, CallRecords
  <2>2. /\ kind'[n] = k /\ fut'[n] = "pending"
        /\ \A r \in Requests : r # n => kind'[r] = kind[r] /\ fut'[r] = fut[r]
    BY <1>3, <2>1 DEF BeginRequest, TypeOK
  <2>3. LifeOf(n) = "none" /\ \A q \in Requests : q # n => LifeOf(q)' = LifeOf(q)
    BY <2>1, <2>2 DEF LifeOf
  <2>4. CASE k = NoKind
    BY <1>1, <2>2, <2>3, <2>4, NoneBecomes DEF LifeOf
  <2>5. CASE k # NoKind
    <3>1. LifeOf(n)' = "asked"
      BY <2>2, <2>5 DEF LifeOf
    <3>2. QED BY <1>1, <2>1, <2>3, <3>1, OneBecomes DEF Lives!Next, Lives!Ask
  <2>6. QED BY <2>4, <2>5
<1>4. ASSUME NEW r \in Requests, fut[r] = "pending", fut'[r] \notin {"pending", "handle"},
             UNCHANGED <<kind, subs>>, \A q \in Requests : q # r => fut'[q] = fut[q]
      PROVE  Lives!Next \/ UNCHANGED Lives!subscriptionVars
  <2>1. \A q \in Requests : q # r => LifeOf(q)' = LifeOf(q)
    BY <1>4 DEF LifeOf
  <2>2. CASE kind[r] = NoKind
    BY <1>1, <1>4, <2>1, <2>2, NoneBecomes DEF LifeOf
  <2>3. CASE kind[r] # NoKind
    <3>1. LifeOf(r) = "asked" /\ LifeOf(r)' = "gone"
      BY <1>2, <1>4, <2>3 DEF LifeOf, Registered
    <3>2. QED BY <1>1, <2>1, <3>1, OneBecomes DEF Lives!Next, Lives!Fail
  <2>4. QED BY <2>2, <2>3
<1>5. CASE UNCHANGED <<kind, fut, subs>>
  BY <1>1, <1>5, NoneBecomes DEF LifeOf
<1>6. ASSUME NEW r \in Requests, CancelRequest(r)
      PROVE  Lives!Next \/ UNCHANGED Lives!subscriptionVars
  <2>1. UNCHANGED <<kind, subs>> /\ fut' = Forgotten(fut, r)
    BY <1>6 DEF CancelRequest, Forget
  <2>2. CASE fut[r] = "pending"
    <3>1. fut'[r] = "cancelled" /\ \A q \in Requests : q # r => fut'[q] = fut[q]
      BY <2>1, <2>2 DEF Forgotten, TypeOK
    <3>2. QED BY <1>4, <2>1, <2>2, <3>1
  <2>3. CASE fut[r] # "pending"
    BY <1>5, <2>1, <2>3 DEF Forgotten, TypeOK
  <2>4. QED BY <2>2, <2>3
<1>7. ASSUME NEW r \in Requests, Return(r)
      PROVE  Lives!Next \/ UNCHANGED Lives!subscriptionVars
  <2>1. /\ UNCHANGED <<kind, fut>>
        /\ \A s \in SubIds : subs'[s] = IF fut[r] = "ack" /\ s = sid[target[r]] THEN 0 ELSE subs[s]
    BY <1>1, <1>7, ReturnGives
  <2>2. CASE fut[r] = "ack"
    <3>1. sid[target[r]] \in SubIds
      BY <2>2, TargetSid DEF AnswerInv, AcksTrue
    <3>2. QED BY <1>1, <2>1, <2>2, <3>1, EntryEnds DEF Lives!Next
  <2>3. CASE fut[r] # "ack"
    <3>1. \A s \in SubIds : subs'[s] = subs[s]
      BY <2>1, <2>3
    <3>2. QED BY <1>1, <2>1, <3>1, NoneBecomes DEF LifeOf
  <2>4. QED BY <2>2, <2>3
<1>8. CASE DispatchSubscribed
  <2>1. PICK o \in Requests, x \in SubIds :
        /\ fut[o] = "pending" /\ kind[o] # NoKind /\ kind' = kind /\ granted[o] = x
        /\ fut'[o] = "handle" /\ subs'[x] = o
        /\ \A r \in Requests : r # o => fut'[r] = fut[r]
        /\ \A s \in SubIds : s # x => subs'[s] = subs[s]
    BY <1>8, SubscribedGives
  <2>2. subs[x] = 0
    <3>1. subs[x] # 0 => subs[x] \in Requests /\ fut[subs[x]] = "handle" /\ granted[subs[x]] = x
      BY <2>1 DEF GrantInv, OpenInv, HandlesKnown, AnswerInv, GrantsKnown
    <3>2. QED BY <2>1, <3>1 DEF GrantInv, GrantsUnique, SubIds
  <2>3. \A q \in Requests : q # o => (Registered(q)' <=> Registered(q))
    BY <2>1, <2>2 DEF Registered, Requests
  <2>4. \A q \in Requests : q # o => LifeOf(q)' = LifeOf(q)
    BY <2>1, <2>3 DEF LifeOf, Registered
  <2>5. LifeOf(o) = "asked" /\ LifeOf(o)' = "live"
    BY <2>1 DEF LifeOf
  <2>6. QED BY <1>1, <2>1, <2>4, <2>5, OneBecomes DEF Lives!Next, Lives!Confirm
<1>9. CASE DispatchAnswer
  <2>1. /\ frame.id \in pending /\ UNCHANGED <<kind, subs>>
        /\ fut' = [fut EXCEPT ![frame.id] = frame.type] /\ frame.type \in {"ack", "nack", "error"}
    BY <1>9 DEF DispatchAnswer, Owner
  <2>2. frame.id \in Requests /\ fut[frame.id] = "pending"
    BY <1>1, <2>1 DEF CallInv, PendingExact, TypeOK
  <2>3. /\ fut'[frame.id] \notin {"pending", "handle"}
        /\ \A q \in Requests : q # frame.id => fut'[q] = fut[q]
    BY <2>1, <2>2 DEF TypeOK
  <2>4. QED BY <1>4, <2>1, <2>2, <2>3
<1>10. CASE EndNotified
  <2>1. UNCHANGED <<kind, fut>> /\ subs' = EndedSubs /\ TakeFrame
    BY <1>10 DEF EndNotified, TakeNotification
  <2>2. CASE frame.type = "final"
    <3>1. frame.sid \in SubIds
      BY <2>1, <2>2, FlyingTaken, GrantsType DEF GrantInv, GrantsUnique, Frame, SubIds
    <3>2. \A s \in SubIds : subs'[s] = IF s = frame.sid THEN 0 ELSE subs[s]
      BY <2>1, <2>2 DEF EndedSubs, TypeOK
    <3>3. QED BY <1>1, <2>1, <3>1, <3>2, EntryEnds DEF Lives!Next
  <2>3. CASE frame.type # "final"
    BY <1>5, <2>1, <2>3 DEF EndedSubs
  <2>4. QED BY <2>2, <2>3
<1>11. DispatchStray \/ Peer \/ Still => UNCHANGED <<kind, fut, subs>>
  BY DEF DispatchStray, Peer, Still, callVars
<1>12. ASSUME NEW k \in Kinds, Subscribe(k)
       PROVE  Lives!Next \/ UNCHANGED Lives!subscriptionVars
  BY <1>3, <1>12 DEF Subscribe
<1>13. ASSUME NEW r \in Requests, Unsubscribe(r)
       PROVE  Lives!Next \/ UNCHANGED Lives!subscriptionVars
  BY <1>3, <1>13 DEF Unsubscribe
<1>14. QED
  BY <1>5, <1>6, <1>7, <1>8, <1>9, <1>10, <1>11, <1>12, <1>13, OpenSteps

LEMMA LivesClosed ==
    ASSUME TypeOK, CallInv', [Next]_vars, closedExc' # NoExc
    PROVE  Lives!Disconnect
<1>1. kind' = kind
  <2>1. Call => kind' = kind
    BY DEF Call, Subscribe, Unsubscribe, BeginRequest, IsOpen, lifeVars, LockGranted, LockRefused,
           Write, Sent, SendFailed, CancelRequest, Return, Timeout, CancelWait, EndWait
  <2>2. Read => kind' = kind
    BY DEF Read, ReaderStart, DispatchSubscribed, DispatchAnswer, DispatchStray, Enqueue,
           OverflowDropOldest, OverflowDropNewest, OverflowRaise, TakeNotification, ReadFatal,
           ReadAfterClose, ReaderEOF, callVars
  <2>3. Peer \/ Recv \/ Connect \/ Close \/ UNCHANGED vars => kind' = kind
    BY DEF Peer, Recv, RecvTake, RecvRaise, RecvBlock, RecvCancel, Connect, ConnectBegin,
           ConnectFail, ConnectOk, Close, CloseBegin, ReleaseBegin, ReleaseEnd, CloseReturn,
           CloseCancel, vars, callVars
  <2>4. QED BY <2>1, <2>2, <2>3 DEF Next
<1>2. /\ \A s \in SubIds : subs'[s] = 0
      /\ \A r \in Requests : fut'[r] # "pending"
  BY DEF CallInv, DeadConnectionOwnsNothing
<1>3. \A h \in Requests : LifeOf(h)' = IF kind[h] = NoKind THEN "none" ELSE "gone"
  BY <1>1, <1>2 DEF LifeOf, Requests
<1>4. \A h \in Requests : LifeOf(h) = "none" <=> kind[h] = NoKind
  BY DEF LifeOf
<1>5. QED BY <1>3, <1>4 DEF Lives!Disconnect

(* SolanaWsClient implements Subscriptions when the node gives no id       *)
(* again: every step of a call, of the reader, of the node or of the       *)
(* connection changes the life of at most one handle, and in the one       *)
(* direction, or ends the connection with all of them.                     *)
THEOREM HandlesLive == ~Recycle => (Spec => HandleLives)
<1> SUFFICES ASSUME ~Recycle PROVE Spec => HandleLives
  OBVIOUS
<1>1. Init => Lives!Init
  BY DEF Init, Lives!Init, LifeOf
<1>2. TypeOK /\ CallInv /\ CallInv' /\ AnswerInv /\ GrantInv /\ [Next]_vars
        => [Lives!Next]_Lives!subscriptionVars
  BY LivesOpen, LivesClosed DEF Lives!Next
<1>3. QED
  BY <1>1, <1>2, TypeCorrect, CallInvariant, AnswerInvariant, GrantInvariant, PTL
  DEF Spec, HandleLives, Lives!Spec, Lives!subscriptionVars
=============================================================================
