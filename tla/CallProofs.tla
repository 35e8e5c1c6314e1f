----------------------------- MODULE CallProofs -----------------------------
(***************************************************************************)
(* The calls of SolanaWsClient and the node that answers them, for any     *)
(* number of requests, subscription ids and faults: every call gets its    *)
(* own answer, and no subscription is lost between the node and the client.*)
(***************************************************************************)
EXTENDS SolanaWsClientProofs

USE PeerAssumption, ClientAssumption DEF PeerAssumption, ClientAssumption

(* The frames on their way to the client, whatever their order.            *)
Flying == {toClient[i] : i \in 1..Len(toClient)}

Written == {"draining", "waiting", "done"}            \* pc, once the request is out
Resolved == {"handle", "ack", "nack", "error"}        \* fut, once the reader answered

ResolvesTo(t) == IF t = "confirm" THEN "handle" ELSE t

(* What is known of a call from where it is suspended, and of an           *)
(* unsubscribe call about its handle.                                      *)
CallRecords ==
    \A r \in Requests :
        /\ pc[r] = "idle" <=> nextReq <= r
        /\ pc[r] = "idle" <=> fut[r] = "absent"
        /\ pc[r] = "idle" => target[r] = 0 /\ kind[r] = NoKind
        /\ out[r] # "none" => pc[r] = "done"
        /\ out[r] = "ok" => fut[r] \in {"handle", "ack"}
        /\ fut[r] \in Resolved => pc[r] \in Written
        /\ fut[r] = "handle" => kind[r] # NoKind
        /\ kind[r] = NoKind /\ pc[r] # "idle" => target[r] # 0

TargetsKnown ==
    \A r \in Requests : target[r] # 0 =>
        /\ target[r] \in Requests
        /\ pc[target[r]] = "done" /\ fut[target[r]] = "handle" /\ kind[r] = NoKind

(* A request the node has not handled has no answer yet.                   *)
RequestsOnWire ==
    \A m \in toServer :
        /\ m = Request(m.id) /\ pc[m.id] \in Written
        /\ granted[m.id] = 0 /\ fut[m.id] \notin Resolved
        /\ \A f \in Flying : f.type \in Answers => f.id # m.id

(* What was granted was asked for, and what was confirmed was granted.     *)
GrantsKnown ==
    \A r \in Requests :
        /\ granted[r] # 0 => kind[r] # NoKind /\ pc[r] \in Written
        /\ fut[r] = "handle" => sid[r] = granted[r] /\ sid[r] # 0

(* An answer says what the node did for its call, and there is only one.   *)
AnswerTrue(f) ==
    /\ f.id \in Requests /\ pc[f.id] \in Written
    /\ f.type = "confirm" => f.sid = granted[f.id] /\ f.sid # 0
    /\ f.type \in {"ack", "nack"} => target[f.id] # 0
    /\ f.type = "ack" => f.sid = sid[target[f.id]] /\ srv[f.sid] # target[f.id]
    /\ f.type = "error" => granted[f.id] = 0
    /\ fut[f.id] \in Resolved => fut[f.id] = ResolvesTo(f.type)
    /\ \A g \in Flying : g.type \in Answers /\ g.id = f.id => g = f

AnswersOnWire == \A f \in Flying : f.type \in Answers => AnswerTrue(f)

AcksTrue == \A r \in Requests : fut[r] = "ack" => target[r] # 0 /\ srv[sid[target[r]]] # target[r]

AnswerInv ==
    CallRecords /\ TargetsKnown /\ RequestsOnWire /\ GrantsKnown /\ AnswersOnWire /\ AcksTrue


----------------------------------------------------------------------------
(* The handle an unsubscribe call ends was granted an id.                  *)
LEMMA TargetSid ==
    ASSUME TypeOK, AnswerInv, NEW r \in Requests, target[r] # 0
    PROVE  /\ target[r] \in Requests /\ sid[target[r]] \in SubIds
           /\ granted[target[r]] = sid[target[r]]
<1>1. target[r] \in Requests /\ fut[target[r]] = "handle"
  BY DEF AnswerInv, TargetsKnown
<1>2. sid[target[r]] = granted[target[r]] /\ sid[target[r]] # 0
  BY <1>1 DEF AnswerInv, GrantsKnown
<1>3. sid[target[r]] \in 0..MaxSubs
  BY <1>1 DEF TypeOK
<1>4. QED BY <1>1, <1>2, <1>3 DEF SubIds

LEMMA FlyingType ==
    ASSUME TypeOK
    PROVE  toClient \in Seq(Frame) /\ Len(toClient) \in Nat /\ Flying \subseteq Frame
<1>1. toClient \in Seq(Frame)
  BY DEF TypeOK, PeerTypeOK
<1>2. QED BY <1>1, LenProperties, ElementOfSeq DEF Flying

LEMMA FlyingAppend ==
    ASSUME TypeOK, NEW f \in Frame, toClient' = Append(toClient, f)
    PROVE  Flying' = Flying \cup {f}
<1> DEFINE n == Len(toClient)
<1>1. /\ n \in Nat /\ Len(toClient') = n + 1
      /\ \A i \in 1..n : toClient'[i] = toClient[i]
      /\ toClient'[n + 1] = f
  BY FlyingType, AppendProperties
<1> HIDE DEF n
<1>2. 1..(n + 1) = (1..n) \cup {n + 1}
  BY <1>1
<1>3. {toClient'[i] : i \in 1..(n + 1)} = {toClient[i] : i \in 1..n} \cup {f}
  BY <1>1, <1>2
<1>4. QED BY <1>1, <1>3 DEF Flying, n

LEMMA FlyingTail ==
    ASSUME TypeOK, toClient # <<>>, toClient' = Tail(toClient)
    PROVE  frame \in Frame /\ frame \in Flying /\ Flying = Flying' \cup {frame}
<1> DEFINE n == Len(toClient)
<1>1. n \in Nat /\ n # 0 /\ 1 \in 1..n /\ frame = toClient[1]
  BY FlyingType, EmptySeq DEF frame
<1>2. Len(toClient') = n - 1 /\ \A i \in 1..(n - 1) : toClient'[i] = toClient[i + 1]
  BY FlyingType, HeadTailProperties
<1> HIDE DEF n
<1>3. \A i \in 1..n : i # 1 => i - 1 \in 1..(n - 1) /\ toClient'[i - 1] = toClient[i]
  <2>1. ASSUME NEW i \in 1..n, i # 1 PROVE i - 1 \in 1..(n - 1) /\ (i - 1) + 1 = i
    BY <1>1, <2>1
  <2>2. QED BY <1>2, <2>1
<1>4. \A i \in 1..(n - 1) : i + 1 \in 1..n
  BY <1>1
<1>5. {toClient[i] : i \in 1..n} = {toClient'[i] : i \in 1..(n - 1)} \cup {toClient[1]}
  BY <1>1, <1>2, <1>3, <1>4
<1>6. frame \in Flying
  BY <1>1 DEF Flying, n
<1>7. QED BY <1>1, <1>2, <1>5, <1>6, FlyingType DEF Flying, n

LEMMA FlyingPrefix ==
    ASSUME TypeOK, NEW k \in 0..Len(toClient), toClient' = SubSeq(toClient, 1, k)
    PROVE  Flying' \subseteq Flying
<1>1. Len(toClient') = k /\ \A i \in 1..k : toClient'[i] = toClient[i]
  BY FlyingType, ElementOfSeq, SubSeqProperties
<1>2. \A i \in 1..k : i \in 1..Len(toClient)
  BY FlyingType
<1>3. QED BY <1>1, <1>2 DEF Flying

LEMMA FlyingTaken ==
    ASSUME TypeOK, TakeFrame
    PROVE  frame \in Frame /\ frame \in Flying /\ Flying = Flying' \cup {frame}
BY FlyingTail DEF TakeFrame

----------------------------------------------------------------------------
(* Most steps are quiet: they begin, write and answer no request.  Calls   *)
(* may go on or end, futures fail, frames and subscriptions vanish.        *)
Quiet ==
    /\ UNCHANGED <<nextReq, kind, target, sid, granted>>
    /\ toServer' \subseteq toServer
    /\ \A f \in Flying' : f \in Flying \/ f.type \notin Answers
    /\ \A s \in SubIds : srv'[s] = srv[s] \/ srv'[s] = 0
    /\ \A r \in Requests :
        /\ fut'[r] = fut[r] \/ (fut[r] = "pending" /\ fut'[r] \in {"closed", "cancelled"})
        /\ pc'[r] = "idle" <=> pc[r] = "idle"
        /\ pc[r] \in Written => pc'[r] \in Written
        /\ pc[r] = "done" => pc'[r] = "done"
        /\ out'[r] = out[r] \/ (pc'[r] = "done" /\ (out'[r] = "ok" => fut[r] \in {"handle", "ack"}))

LEMMA QuietKeeps ==
    ASSUME TypeOK, AnswerInv, Quiet
    PROVE  AnswerInv'
<1>1. CallRecords'
  BY DEF Quiet, AnswerInv, CallRecords, Resolved
<1>2. TargetsKnown'
  BY DEF Quiet, AnswerInv, TargetsKnown
<1>3. \A r \in Requests : Request(r)' = Request(r)
  BY DEF Quiet, Request
<1>4. RequestsOnWire'
  <2> SUFFICES ASSUME NEW m \in toServer'
               PROVE  /\ m = Request(m.id)' /\ pc'[m.id] \in Written
                      /\ granted'[m.id] = 0 /\ fut'[m.id] \notin Resolved
                      /\ \A f \in Flying' : f.type \in Answers => f.id # m.id
    BY DEF RequestsOnWire
  <2>1. m \in toServer /\ m.id \in Requests
    BY DEF Quiet, TypeOK, PeerTypeOK, Message
  <2>2. QED BY <1>3, <2>1 DEF Quiet, AnswerInv, RequestsOnWire, Resolved
<1>5. GrantsKnown'
  BY DEF Quiet, AnswerInv, GrantsKnown
<1>6. AcksTrue'
  <2> SUFFICES ASSUME NEW r \in Requests, fut'[r] = "ack"
               PROVE  target'[r] # 0 /\ srv'[sid'[target'[r]]] # target'[r]
    BY DEF AcksTrue
  <2>1. fut[r] = "ack" /\ target[r] # 0 /\ srv[sid[target[r]]] # target[r]
    BY DEF Quiet, AnswerInv, AcksTrue
  <2>2. sid[target[r]] \in SubIds
    BY <2>1, TargetSid
  <2>3. QED BY <2>1, <2>2 DEF Quiet
<1>7. AnswersOnWire'
  <2> SUFFICES ASSUME NEW f \in Flying', f.type \in Answers
               PROVE  AnswerTrue(f)'
    BY DEF AnswersOnWire
  <2>1. f \in Flying /\ AnswerTrue(f)
    BY DEF Quiet, AnswerInv, AnswersOnWire
  <2>2. f.id \in Requests
    BY <2>1 DEF AnswerTrue
  <2>3. f.type = "ack" => f.sid \in SubIds
    BY <2>1, <2>2, TargetSid DEF AnswerTrue
  <2>4. f.type = "ack" => srv'[f.sid] # target[f.id]
    BY <2>1, <2>3 DEF AnswerTrue, Quiet
  <2>5. QED BY <2>1, <2>2, <2>4 DEF AnswerTrue, Quiet, Resolved
<1>8. QED BY <1>1, <1>2, <1>4, <1>5, <1>6, <1>7 DEF AnswerInv

(* A call ends, whether it abandons the connection or not.                 *)
LEMMA EndIsQuiet ==
    ASSUME TypeOK, NEW r \in Requests, NEW o, NEW f, f = fut \/ f = AbandonedFut,
           Forget(f, r), Finish(r, o), pc[r] # "idle", o = "ok" => fut[r] \in {"handle", "ack"},
           UNCHANGED <<nextReq, kind, target, sid, toServer, toClient, srv, granted>>
    PROVE  Quiet
<1>1. \A q \in Requests : f[q] = fut[q] \/ (fut[q] = "pending" /\ f[q] = "closed")
  BY DEF AbandonedFut
<1>2. f \in [Requests -> Futures]
  BY DEF TypeOK, AbandonedFut, Futures
<1>3. \A q \in Requests :
          fut'[q] = fut[q] \/ (fut[q] = "pending" /\ fut'[q] \in {"closed", "cancelled"})
  BY <1>1, <1>2 DEF Forget, Forgotten
<1>4. \A q \in Requests :
          IF q = r THEN pc'[q] = "done" /\ out'[q] = o ELSE pc'[q] = pc[q] /\ out'[q] = out[q]
  BY DEF Finish, TypeOK
<1>5. Flying' = Flying
  BY DEF Flying
<1>6. QED BY <1>3, <1>4, <1>5 DEF Quiet, Written

LEMMA QuietCall ==
    ASSUME TypeOK, CallInv, AnswerInv, NEW r \in Requests,
           \/ LockGranted(r) \/ LockRefused(r) \/ Sent(r) \/ SendFailed(r)
           \/ CancelRequest(r) \/ Return(r) \/ Timeout(r) \/ CancelWait(r)
    PROVE  Quiet
<1> USE DEF peerVars
<1>1. CASE LockGranted(r) \/ Sent(r)
  <2>1. /\ UNCHANGED <<nextReq, kind, target, sid, toServer, toClient, srv, granted, fut, out>>
        /\ pc[r] \in {"queued", "draining"}
        /\ pc' = [pc EXCEPT ![r] = "sending"] \/ pc' = [pc EXCEPT ![r] = "waiting"]
        /\ pc[r] = "draining" => pc' = [pc EXCEPT ![r] = "waiting"]
    BY <1>1 DEF LockGranted, Sent, NextInLine, LockQueue
  <2>2. \A q \in Requests : q # r => pc'[q] = pc[q]
    BY <2>1 DEF TypeOK
  <2>3. pc'[r] \in {"sending", "waiting"} /\ (pc[r] = "draining" => pc'[r] = "waiting")
    BY <2>1 DEF TypeOK
  <2>4. Flying' = Flying
    BY <2>1 DEF Flying
  <2>5. QED BY <2>1, <2>2, <2>3, <2>4 DEF Quiet, Written
<1>2. CASE LockRefused(r) \/ CancelRequest(r)
  BY <1>2, EndIsQuiet DEF LockRefused, CancelRequest, NextInLine, LockQueue, InSend
<1>3. CASE SendFailed(r)
  BY <1>3, EndIsQuiet DEF SendFailed, InSend
<1>4. CASE Timeout(r) \/ CancelWait(r)
  BY <1>4, EndIsQuiet DEF Timeout, CancelWait, EndWait
<1>5. CASE Return(r)
  <2>1. OutcomeOf(fut[r]) = "ok" => fut[r] \in {"handle", "ack"}
    BY DEF OutcomeOf, TypeOK, Futures
  <2>2. QED BY <1>5, <2>1, EndIsQuiet DEF Return
<1>6. QED BY <1>1, <1>2, <1>3, <1>4, <1>5

LEMMA FailIsQuiet ==
    ASSUME TypeOK, fut' = fut \/ fut' = AbandonedFut, Flying' \subseteq Flying,
           UNCHANGED <<nextReq, kind, target, sid, toServer, srv, granted, pc, out>>
    PROVE  Quiet
<1>1. \A q \in Requests : fut'[q] = fut[q] \/ (fut[q] = "pending" /\ fut'[q] = "closed")
  BY DEF AbandonedFut
<1>2. QED BY <1>1 DEF Quiet

LEMMA QuietRead ==
    ASSUME TypeOK, Read
    PROVE  DispatchSubscribed \/ DispatchAnswer \/ Quiet
<1>1. CASE \/ DispatchStray \/ Enqueue \/ OverflowDropOldest \/ OverflowDropNewest
           \/ OverflowRaise \/ ReadFatal \/ ReadAfterClose
  <2>1. TakeFrame
    BY <1>1 DEF DispatchStray, Enqueue, OverflowDropOldest, OverflowDropNewest, OverflowRaise,
                TakeNotification, ReadFatal, ReadAfterClose
  <2>2. /\ fut' = fut \/ fut' = AbandonedFut
        /\ UNCHANGED <<nextReq, kind, target, sid, toServer, srv, granted, pc, out>>
    BY <1>1 DEF DispatchStray, Enqueue, OverflowDropOldest, OverflowDropNewest, OverflowRaise,
                TakeNotification, ReadFatal, ReadAfterClose, TakeFrame, callVars
  <2>3. QED BY <2>1, <2>2, FlyingTaken, FailIsQuiet
<1>2. CASE ReaderStart \/ ReaderEOF
  <2>1. /\ fut' = fut \/ fut' = AbandonedFut
        /\ UNCHANGED <<nextReq, kind, target, sid, toServer, toClient, srv, granted, pc, out>>
    BY <1>2 DEF ReaderStart, ReaderEOF, peerVars, callVars
  <2>2. Flying' = Flying
    BY <2>1 DEF Flying
  <2>3. QED BY <2>1, <2>2, FailIsQuiet
<1>3. QED BY <1>1, <1>2 DEF Read

LEMMA QuietOther ==
    ASSUME TypeOK, Recv \/ Connect \/ Close \/ UNCHANGED vars
    PROVE  Quiet
<1>1. /\ fut' = fut \/ fut' = AbandonedFut
      /\ UNCHANGED <<nextReq, kind, target, sid, toServer, toClient, srv, granted, pc, out>>
  BY DEF Recv, RecvTake, RecvRaise, RecvBlock, RecvCancel, Connect, ConnectBegin, ConnectFail,
         ConnectOk, Close, CloseBegin, ReleaseBegin, ReleaseEnd, CloseReturn, CloseCancel, vars,
         peerVars, callVars
<1>2. Flying' = Flying
  BY <1>1 DEF Flying
<1>3. QED BY <1>1, <1>2, FailIsQuiet

(* The node notifies, repeats itself or is lost.                           *)
LEMMA QuietPeer ==
    ASSUME TypeOK, UNCHANGED callVars,
           (\E s \in SubIds : Notify(s)) \/ Duplicate \/ Corrupt \/ RemoteClose \/ SocketClosed
    PROVE  Quiet
<1>1. ASSUME NEW s \in SubIds, Notify(s) PROVE Quiet
  <2>1. notes + 1 \in 0..MaxNotes
    BY <1>1 DEF Notify, TypeOK, PeerTypeOK
  <2>2. \A t \in {"note", "final"} :
            /\ Stream(t, s, notes + 1) \in Frame
            /\ Stream(t, s, notes + 1).type \notin Answers
    BY <2>1 DEF Stream, Frame, FrameTypes, SubIds, Answers
  <2>3. \E t \in {"note", "final"} : toClient' = Append(toClient, Stream(t, s, notes + 1))
    BY <1>1 DEF Notify
  <2>4. \A f \in Flying' : f \in Flying \/ f.type \notin Answers
    BY <2>2, <2>3, FlyingAppend
  <2>5. srv' = srv \/ srv' = [srv EXCEPT ![s] = 0]
    BY <1>1 DEF Notify
  <2>6. \A x \in SubIds : srv'[x] = srv[x] \/ srv'[x] = 0
    BY <2>5 DEF TypeOK, PeerTypeOK
  <2>7. QED BY <1>1, <2>4, <2>6 DEF Notify, Quiet, callVars
<1>2. CASE Duplicate
  <2>1. PICK i \in 1..Len(toClient) : toClient' = Append(toClient, toClient[i])
    BY <1>2, FlyingType, LenProperties DEF Duplicate
  <2>2. toClient[i] \in Flying /\ toClient[i] \in Frame
    BY FlyingType DEF Flying
  <2>3. Flying' = Flying
    BY <2>1, <2>2, FlyingAppend
  <2>4. QED BY <1>2, <2>3 DEF Duplicate, Quiet, callVars
<1>3. CASE Corrupt
  <2>1. BadFrame \in Frame /\ BadFrame.type \notin Answers
    BY DEF BadFrame, Frame, FrameTypes, Answers
  <2>2. Flying' = Flying \cup {BadFrame}
    BY <1>3, <2>1, FlyingAppend DEF Corrupt
  <2>3. QED BY <1>3, <2>1, <2>2 DEF Corrupt, Quiet, callVars
<1>4. CASE RemoteClose
  <2>1. Flying' \subseteq Flying
    BY <1>4, FlyingPrefix DEF RemoteClose
  <2>2. QED BY <1>4, <2>1 DEF RemoteClose, Quiet, callVars
<1>5. CASE SocketClosed
  <2>1. Flying' = {}
    BY <1>5 DEF SocketClosed, Flying
  <2>2. QED BY <1>5, <2>1 DEF SocketClosed, Quiet, callVars
<1>6. QED BY <1>1, <1>2, <1>3, <1>4, <1>5

----------------------------------------------------------------------------
(* The steps that are not quiet.  A new request is not on the wire.        *)
LEMMA NewRequest ==
    ASSUME TypeOK, AnswerInv, nextReq \in Requests
    PROVE  /\ pc[nextReq] = "idle" /\ fut[nextReq] = "absent" /\ out[nextReq] = "none"
           /\ granted[nextReq] = 0
           /\ \A m \in toServer : m.id \in Requests /\ m.id # nextReq
           /\ \A f \in Flying : f.type \in Answers => f.id # nextReq
           /\ \A r \in Requests : target[r] # nextReq
<1>1. nextReq \in Nat
  BY DEF Requests
<1>2. pc[nextReq] = "idle" /\ fut[nextReq] = "absent" /\ out[nextReq] = "none"
  BY <1>1 DEF AnswerInv, CallRecords
<1>3. granted[nextReq] = 0
  BY <1>2 DEF AnswerInv, GrantsKnown, Written
<1>4. \A m \in toServer : m.id \in Requests /\ m.id # nextReq
  BY <1>2 DEF AnswerInv, RequestsOnWire, Written, TypeOK, PeerTypeOK, Message
<1>5. \A f \in Flying : f.type \in Answers => f.id # nextReq
  BY <1>2 DEF AnswerInv, AnswersOnWire, AnswerTrue, Written
<1>6. \A r \in Requests : target[r] # nextReq
  BY <1>1, <1>2 DEF AnswerInv, TargetsKnown, Requests
<1>7. QED BY <1>2, <1>3, <1>4, <1>5, <1>6

LEMMA BeginKeeps ==
    ASSUME TypeOK, AnswerInv, NEW k, NEW h, BeginRequest(k, h),
           \/ k # NoKind /\ h = 0
           \/ k = NoKind /\ h \in Requests /\ pc[h] = "done" /\ fut[h] = "handle"
    PROVE  AnswerInv'
<1> DEFINE n == nextReq
<1>1. n \in Requests /\ n \in Nat /\ nextReq' = n + 1
  BY DEF BeginRequest, Requests
<1>2. /\ UNCHANGED <<sid, out, toServer, srv, granted>> /\ Flying' = Flying
  BY DEF BeginRequest, peerVars, Flying
<1>3. /\ pc'[n] \in {"sending", "queued"} /\ fut'[n] = "pending" /\ kind'[n] = k /\ target'[n] = h
      /\ \A r \in Requests : r # n => /\ pc'[r] = pc[r] /\ fut'[r] = fut[r]
                                      /\ kind'[r] = kind[r] /\ target'[r] = target[r]
  BY <1>1 DEF BeginRequest, TypeOK
<1>4. \A r \in Requests : r # n => (n + 1 <= r <=> n <= r)
  BY <1>1 DEF Requests
<1>5. ~(n + 1 <= n)
  BY <1>1
<1> HIDE DEF n
<1>6. CallRecords'
  BY <1>1, <1>2, <1>3, <1>4, <1>5, NewRequest DEF AnswerInv, CallRecords, Resolved, Written, n, Requests
<1>7. TargetsKnown'
  <2>1. \A r \in Requests : target'[r] # 0 =>
            /\ target'[r] \in Requests /\ pc[target'[r]] = "done" /\ fut[target'[r]] = "handle"
            /\ kind'[r] = NoKind
    BY <1>3 DEF AnswerInv, TargetsKnown, Requests
  <2>2. pc[n] # "done"
    BY <1>1, NewRequest DEF n
  <2>3. QED BY <1>3, <2>1, <2>2 DEF TargetsKnown
<1>8. RequestsOnWire'
  <2>1. \A m \in toServer : m.id \in Requests /\ m.id # n
    BY <1>1, NewRequest DEF n
  <2>2. \A r \in Requests : r # n => Request(r)' = Request(r)
    BY <1>2, <1>3 DEF Request
  <2>3. QED BY <1>2, <1>3, <2>1, <2>2 DEF AnswerInv, RequestsOnWire
<1>9. GrantsKnown'
  BY <1>1, <1>2, <1>3, NewRequest DEF AnswerInv, GrantsKnown, n
<1>10. AcksTrue'
  BY <1>2, <1>3 DEF AnswerInv, AcksTrue
<1>11. AnswersOnWire'
  <2>1. \A f \in Flying : f.type \in Answers => f.id # n
    BY <1>1, NewRequest DEF n
  <2>2. QED BY <1>2, <1>3, <2>1 DEF AnswerInv, AnswersOnWire, AnswerTrue
<1>12. QED BY <1>6, <1>7, <1>8, <1>9, <1>10, <1>11 DEF AnswerInv

LEMMA WriteKeeps ==
    ASSUME TypeOK, AnswerInv, NEW r \in Requests, Write(r)
    PROVE  AnswerInv'
<1>1. /\ UNCHANGED <<nextReq, kind, target, sid, fut, out, srv, granted>> /\ Flying' = Flying
      /\ pc[r] = "sending" /\ pc'[r] = "draining"
      /\ \A q \in Requests : q # r => pc'[q] = pc[q]
  BY DEF Write, Flying, TypeOK
<1>2. /\ granted[r] = 0 /\ fut[r] \notin Resolved
      /\ \A f \in Flying : f.type \in Answers => f.id # r
  BY <1>1 DEF AnswerInv, GrantsKnown, CallRecords, AnswersOnWire, AnswerTrue, Written
<1>3. CallRecords'
  BY <1>1 DEF AnswerInv, CallRecords, Written
<1>4. TargetsKnown'
  BY <1>1 DEF AnswerInv, TargetsKnown
<1>5. RequestsOnWire'
  <2>1. \A q \in Requests : Request(q)' = Request(q)
    BY <1>1 DEF Request
  <2>2. Request(r).id = r /\ toServer' = toServer \cup {Request(r)}
    BY DEF Request, Write
  <2>3. \A m \in toServer : m.id \in Requests
    BY DEF TypeOK, PeerTypeOK, Message
  <2>4. QED BY <1>1, <1>2, <2>1, <2>2, <2>3 DEF AnswerInv, RequestsOnWire, Written
<1>6. GrantsKnown'
  BY <1>1 DEF AnswerInv, GrantsKnown, Written
<1>7. AcksTrue'
  BY <1>1 DEF AnswerInv, AcksTrue
<1>8. AnswersOnWire'
  BY <1>1 DEF AnswerInv, AnswersOnWire, AnswerTrue, Written
<1>9. QED BY <1>3, <1>4, <1>5, <1>6, <1>7, <1>8 DEF AnswerInv

(* A request the node takes is the only one of its call.                   *)
LEMMA TakenRequest ==
    ASSUME TypeOK, AnswerInv, NEW m \in toServer
    PROVE  /\ m.id \in Requests /\ pc[m.id] \in Written /\ granted[m.id] = 0
           /\ fut[m.id] \notin Resolved /\ kind[m.id] = m.kind
           /\ m.kind = NoKind => target[m.id] # 0 /\ m.sid = sid[target[m.id]]
           /\ \A x \in toServer \ {m} : x.id \in Requests /\ x.id # m.id
           /\ \A f \in Flying : f.type \in Answers => f.id # m.id
           /\ \A r \in Requests : target[r] # m.id
<1>1. \A x \in toServer : x.id \in Requests /\ x = Request(x.id)
  BY DEF TypeOK, PeerTypeOK, Message, AnswerInv, RequestsOnWire
<1>2. /\ pc[m.id] \in Written /\ granted[m.id] = 0 /\ fut[m.id] \notin Resolved
      /\ \A f \in Flying : f.type \in Answers => f.id # m.id
  BY DEF AnswerInv, RequestsOnWire
<1>3. kind[m.id] = m.kind
  BY <1>1 DEF Request
<1>4. m.kind = NoKind => target[m.id] # 0 /\ m.sid = sid[target[m.id]]
  <2>1. m.kind = NoKind => target[m.id] # 0
    BY <1>1, <1>2, <1>3 DEF AnswerInv, CallRecords, Written
  <2>2. QED BY <1>1, <2>1 DEF Request
<1>5. \A r \in Requests : target[r] # m.id
  BY <1>1, <1>2 DEF AnswerInv, TargetsKnown, Resolved, Requests
<1>6. QED BY <1>1, <1>2, <1>3, <1>4, <1>5

(* The node answers a request: what it leaves alone, and what the answer   *)
(* must say.                                                               *)
LEMMA AnswerKeeps ==
    ASSUME TypeOK, AnswerInv, UNCHANGED callVars, NEW m \in toServer,
           toServer' = toServer \ {m}, NEW f \in Frame, f.type \in Answers, f.id = m.id,
           toClient' = Append(toClient, f),
           \A r \in Requests : r # m.id => granted'[r] = granted[r],
           granted'[m.id] # 0 => kind[m.id] # NoKind,
           \A s \in SubIds : srv'[s] \in {srv[s], 0, m.id},
           f.type = "confirm" => f.sid = granted'[m.id] /\ f.sid # 0,
           f.type = "error" => granted'[m.id] = 0,
           f.type \in {"ack", "nack"} => m.kind = NoKind,
           f.type = "ack" => f.sid = m.sid /\ srv'[f.sid] = 0
    PROVE  AnswerInv'
<1> USE DEF callVars
<1>1. Flying' = Flying \cup {f}
  BY FlyingAppend
<1>2. \A r \in Requests : Request(r)' = Request(r)
  BY DEF Request
<1>3. CallRecords' /\ TargetsKnown'
  BY DEF AnswerInv, CallRecords, TargetsKnown
<1>4. RequestsOnWire'
  <2>1. \A x \in toServer' : x \in toServer /\ x.id \in Requests /\ x.id # m.id
    BY TakenRequest
  <2>2. QED BY <1>1, <1>2, <2>1 DEF AnswerInv, RequestsOnWire
<1>5. GrantsKnown'
  BY TakenRequest DEF AnswerInv, GrantsKnown, Resolved
<1>6. \A r \in Requests : target[r] # 0 => target[r] # m.id /\ sid[target[r]] \in SubIds
  BY TakenRequest, TargetSid
<1>7. AcksTrue'
  BY <1>6 DEF AnswerInv, AcksTrue
<1>8. ASSUME NEW g \in Flying, g.type \in Answers PROVE AnswerTrue(g)'
  <2>1. AnswerTrue(g) /\ g.id # m.id /\ g.id \in Requests
    BY <1>8, TakenRequest DEF AnswerInv, AnswersOnWire, AnswerTrue
  <2>2. g.type = "ack" => srv'[g.sid] # target[g.id]
    BY <1>6, <2>1 DEF AnswerTrue
  <2>3. \A x \in Flying' : x.type \in Answers /\ x.id = g.id => x = g
    BY <1>1, <2>1 DEF AnswerTrue
  <2>4. QED BY <2>1, <2>2, <2>3 DEF AnswerTrue
<1>9. AnswerTrue(f)'
  <2>1. \A x \in Flying' : x.type \in Answers /\ x.id = f.id => x = f
    BY <1>1, TakenRequest
  <2>2. f.type \in {"ack", "nack"} => target[f.id] # 0
    BY TakenRequest
  <2>3. f.type = "ack" => f.sid = sid[target[f.id]] /\ srv'[f.sid] # target[f.id]
    BY <2>2, TakenRequest
  <2>4. f.id \in Requests /\ pc[f.id] \in Written /\ fut[f.id] \notin Resolved
    BY TakenRequest
  <2>5. QED BY <2>1, <2>2, <2>3, <2>4 DEF AnswerTrue
<1>10. AnswersOnWire'
  BY <1>1, <1>8, <1>9 DEF AnswersOnWire
<1>11. QED BY <1>3, <1>4, <1>5, <1>7, <1>10 DEF AnswerInv

LEMMA PeerKeeps ==
    ASSUME TypeOK, AnswerInv, Peer
    PROVE  AnswerInv'
<1>1. UNCHANGED callVars
  BY DEF Peer
<1>2. ASSUME NEW m \in toServer, AcceptSubscribe(m) PROVE AnswerInv'
  <2>1. m.id \in Requests /\ m.kind # NoKind /\ kind[m.id] = m.kind
    BY <1>2, TakenRequest DEF AcceptSubscribe
  <2>2. PICK s \in SubIds :
            /\ srv' = [srv EXCEPT ![s] = m.id]
            /\ granted' = [granted EXCEPT ![m.id] = s]
            /\ toClient' = Append(toClient, Answer("confirm", m.id, s))
    BY <1>2 DEF AcceptSubscribe
  <2>3. /\ Answer("confirm", m.id, s) \in Frame
        /\ Answer("confirm", m.id, s).type = "confirm"
        /\ Answer("confirm", m.id, s).id = m.id
        /\ Answer("confirm", m.id, s).sid = s
    BY <2>1 DEF Answer, Frame, FrameTypes, Answers, Requests, SubIds
  <2>4. /\ \A r \in Requests : r # m.id => granted'[r] = granted[r]
        /\ granted'[m.id] = s /\ s # 0
        /\ \A x \in SubIds : srv'[x] \in {srv[x], 0, m.id}
    BY <2>1, <2>2 DEF TypeOK, PeerTypeOK, SubIds
  <2>5. "confirm" \in Answers /\ toServer' = toServer \ {m}
    BY <1>2 DEF Answers, AcceptSubscribe
  <2>6. QED BY <1>1, <2>1, <2>2, <2>3, <2>4, <2>5, AnswerKeeps
<1>3. ASSUME NEW m \in toServer, Refuse(m) PROVE AnswerInv'
  <2>1. m.id \in Requests /\ granted[m.id] = 0
    BY TakenRequest
  <2>2. /\ Answer("error", m.id, 0) \in Frame
        /\ Answer("error", m.id, 0).type = "error"
        /\ Answer("error", m.id, 0).id = m.id
    BY <2>1 DEF Answer, Frame, FrameTypes, Answers, Requests
  <2>3. /\ UNCHANGED <<srv, granted>> /\ "error" \in Answers /\ toServer' = toServer \ {m}
        /\ toClient' = Append(toClient, Answer("error", m.id, 0))
    BY <1>3 DEF Answers, Refuse
  <2>4. QED BY <1>1, <2>1, <2>2, <2>3, AnswerKeeps
<1>4. ASSUME NEW m \in toServer, HandleUnsubscribe(m) PROVE AnswerInv'
  <2>1. m.id \in Requests /\ granted[m.id] = 0 /\ m.kind = NoKind
    BY <1>4, TakenRequest DEF HandleUnsubscribe
  <2>2. m.sid \in SubIds
    BY <2>1, TakenRequest, TargetSid
  <2>3. /\ UNCHANGED granted /\ {"ack", "nack"} \subseteq Answers /\ toServer' = toServer \ {m}
    BY <1>4 DEF Answers, HandleUnsubscribe
  <2>4. \A t \in {"ack", "nack"} : /\ Answer(t, m.id, m.sid) \in Frame
                                   /\ Answer(t, m.id, m.sid).type = t
                                   /\ Answer(t, m.id, m.sid).id = m.id
                                   /\ Answer(t, m.id, m.sid).sid = m.sid
    BY <2>1, <2>2 DEF Answer, Frame, FrameTypes, Answers, Requests, SubIds
  <2>5. \/ /\ toClient' = Append(toClient, Answer("ack", m.id, m.sid))
           /\ srv' = [srv EXCEPT ![m.sid] = 0]
        \/ /\ toClient' = Append(toClient, Answer("nack", m.id, m.sid))
           /\ srv' = srv
    BY <1>4 DEF HandleUnsubscribe
  <2>6. \A x \in SubIds : srv'[x] \in {srv[x], 0, m.id}
    BY <2>5 DEF TypeOK, PeerTypeOK
  <2>7. CASE toClient' = Append(toClient, Answer("ack", m.id, m.sid)) /\ srv' = [srv EXCEPT ![m.sid] = 0]
    <3>1. srv'[m.sid] = 0
      BY <2>2, <2>7 DEF TypeOK, PeerTypeOK
    <3>2. QED BY <1>1, <2>1, <2>3, <2>4, <2>6, <2>7, <3>1, AnswerKeeps
  <2>8. CASE toClient' = Append(toClient, Answer("nack", m.id, m.sid)) /\ srv' = srv
    BY <1>1, <2>1, <2>3, <2>4, <2>6, <2>8, AnswerKeeps
  <2>9. QED BY <2>5, <2>7, <2>8
<1>5. CASE (\E s \in SubIds : Notify(s)) \/ Duplicate \/ Corrupt \/ RemoteClose \/ SocketClosed
  BY <1>1, <1>5, QuietPeer, QuietKeeps
<1>6. QED BY <1>2, <1>3, <1>4, <1>5 DEF Peer, PeerStep

(* The reader hands an answer to the call that waits for it.               *)
LEMMA DispatchKeeps ==
    ASSUME TypeOK, CallInv, AnswerInv, DispatchSubscribed \/ DispatchAnswer
    PROVE  AnswerInv'
<1> DEFINE o == frame.id
<1>1. /\ frame \in Flying /\ frame.type \in Answers /\ Flying' \subseteq Flying
      /\ o \in pending /\ o \in Requests
      /\ UNCHANGED <<nextReq, pc, kind, target, out, toServer, srv, granted>>
  BY FlyingTaken DEF DispatchSubscribed, DispatchAnswer, Owner, Answers, TakeFrame, TypeOK
<1>2. AnswerTrue(frame)
  BY <1>1 DEF AnswerInv, AnswersOnWire
<1>3. fut[o] = "pending" /\ pc[o] \in {"draining", "waiting"} /\ out[o] = "none"
  <2>1. closedExc = NoExc
    BY DEF DispatchSubscribed, DispatchAnswer, CanDispatch
  <2>2. fut[o] = "pending" /\ o \in InCall
    BY <1>1, <2>1 DEF CallInv, PendingExact
  <2>3. QED BY <1>1, <1>2, <2>2 DEF AnswerTrue, AnswerInv, CallRecords, InCall, Written
<1>4. /\ fut'[o] = ResolvesTo(frame.type)
      /\ \A r \in Requests : r # o => fut'[r] = fut[r] /\ sid'[r] = sid[r]
  BY <1>1 DEF DispatchSubscribed, DispatchAnswer, Owner, ResolvesTo, TypeOK
<1>5. /\ frame.type = "confirm" => sid'[o] = frame.sid /\ kind[o] # NoKind
      /\ frame.type # "confirm" => sid'[o] = sid[o]
  BY <1>1 DEF DispatchSubscribed, DispatchAnswer, Owner, TypeOK
<1>6. fut'[o] \in Resolved /\ (fut'[o] = "handle" <=> frame.type = "confirm")
      /\ (fut'[o] = "ack" <=> frame.type = "ack")
  BY <1>1, <1>4 DEF ResolvesTo, Resolved, Answers
<1> HIDE DEF o
<1>7. \A r \in Requests : target[r] # o
  BY <1>1, <1>3 DEF AnswerInv, TargetsKnown, Requests
<1>8. \A r \in Requests : target[r] # 0 => sid'[target[r]] = sid[target[r]] /\ fut'[target[r]] = fut[target[r]]
  BY <1>4, <1>7 DEF AnswerInv, TargetsKnown
<1>9. CallRecords'
  BY <1>1, <1>3, <1>4, <1>5, <1>6 DEF AnswerInv, CallRecords, Resolved, Written
<1>10. TargetsKnown'
  BY <1>1, <1>8 DEF AnswerInv, TargetsKnown
<1>11. RequestsOnWire'
  <2>1. \A m \in toServer : m.id \in Requests /\ m.id # o
    BY <1>1 DEF AnswerInv, RequestsOnWire, TypeOK, PeerTypeOK, Message, o
  <2>2. \A r \in Requests : Request(r)' = Request(r)
    BY <1>1, <1>8 DEF Request
  <2>3. QED BY <1>1, <1>4, <2>1, <2>2 DEF AnswerInv, RequestsOnWire
<1>12. GrantsKnown'
  <2>1. frame.type = "confirm" => frame.sid = granted[o] /\ frame.sid # 0
    BY <1>2 DEF AnswerTrue, o
  <2>2. QED BY <1>1, <1>4, <1>5, <1>6, <2>1 DEF AnswerInv, GrantsKnown
<1>13. AcksTrue'
  <2>1. frame.type = "ack" => target[o] # 0 /\ srv[sid[target[o]]] # target[o]
    BY <1>2 DEF AnswerTrue, o
  <2>2. QED BY <1>1, <1>4, <1>6, <1>8, <2>1 DEF AnswerInv, AcksTrue
<1>14. AnswersOnWire'
  <2> SUFFICES ASSUME NEW f \in Flying', f.type \in Answers PROVE AnswerTrue(f)'
    BY DEF AnswersOnWire
  <2>1. f \in Flying /\ AnswerTrue(f) /\ f.id \in Requests
    BY <1>1 DEF AnswerInv, AnswersOnWire, AnswerTrue
  <2>2. f.id = o => f = frame
    BY <1>1, <1>2, <2>1 DEF AnswerTrue, o
  <2>3. fut'[f.id] \in Resolved => fut'[f.id] = ResolvesTo(f.type)
    BY <1>4, <2>1, <2>2 DEF AnswerTrue
  <2>4. f.type \in {"ack", "nack"} => sid'[target[f.id]] = sid[target[f.id]]
    BY <1>8, <2>1 DEF AnswerTrue
  <2>5. QED BY <1>1, <2>1, <2>3, <2>4 DEF AnswerTrue
<1>15. QED BY <1>9, <1>10, <1>11, <1>12, <1>13, <1>14 DEF AnswerInv

LEMMA AnswerInvariant == Spec => []AnswerInv
<1>1. Init => AnswerInv
  <2>1. Init => Flying = {} /\ toServer = {}
    BY DEF Init, PeerInit, Flying
  <2>2. Init => \A r \in Requests :
            /\ pc[r] = "idle" /\ nextReq <= r /\ fut[r] = "absent" /\ target[r] = 0
            /\ kind[r] = NoKind /\ out[r] = "none" /\ granted[r] = 0
    BY DEF Init, PeerInit, Requests
  <2>3. QED
    BY <2>1, <2>2
    DEF AnswerInv, CallRecords, TargetsKnown, RequestsOnWire, GrantsKnown, AnswersOnWire, AcksTrue,
        Resolved
<1>2. TypeOK /\ CallInv /\ AnswerInv /\ [Next]_vars => AnswerInv'
  <2> SUFFICES ASSUME TypeOK, CallInv, AnswerInv, [Next]_vars PROVE AnswerInv'
    OBVIOUS
  <2>1. ASSUME NEW k \in Kinds, Subscribe(k) PROVE AnswerInv'
    <3>1. k # NoKind
      BY DEF NoKind, SubscriptionKind
    <3>2. QED BY <2>1, <3>1, BeginKeeps DEF Subscribe
  <2>2. ASSUME NEW h \in Requests, Unsubscribe(h) PROVE AnswerInv'
    <3>1. pc[h] = "done" /\ fut[h] = "handle"
      BY <2>2 DEF Unsubscribe, CanUnsubscribe, AnswerInv, CallRecords, AcksTrue
    <3>2. QED BY <2>2, <3>1, BeginKeeps DEF Unsubscribe
  <2>3. CASE Call
    BY <2>1, <2>2, <2>3, QuietCall, QuietKeeps, WriteKeeps DEF Call
  <2>4. CASE Read
    BY <2>4, QuietRead, QuietKeeps, DispatchKeeps
  <2>5. CASE Peer
    BY <2>5, PeerKeeps
  <2>6. CASE Recv \/ Connect \/ Close \/ UNCHANGED vars
    BY <2>6, QuietOther, QuietKeeps
  <2>7. QED BY <2>3, <2>4, <2>5, <2>6 DEF Next
<1>3. QED BY <1>1, <1>2, TypeCorrect, CallInvariant, PTL DEF Spec

(* Whatever order the node answers in, and whatever it repeats, the handle *)
(* of a subscribe call carries the id granted to that very request, and an *)
(* unsubscribe call that succeeded ended that very subscription.           *)
THEOREM OwnAnswers == Spec => []AnswersReachTheirCall
<1>1. AnswerInv => AnswersReachTheirCall
  BY DEF AnswerInv, GrantsKnown, AcksTrue, AnswersReachTheirCall, Handles
<1>2. QED BY <1>1, AnswerInvariant, PTL

----------------------------------------------------------------------------
(* The ids under way to their end.                                         *)
EndingCalls == {r \in InCall : target[r] # 0}

(* Nobody begins or ends an unsubscribe call.                              *)
LEMMA SameReservations ==
    ASSUME TypeOK, UnsubscribingExact, UNCHANGED <<target, unsubscribing>>, InCall' = InCall,
           \A r \in Requests : target[r] # 0 => sid'[target[r]] = sid[target[r]]
    PROVE  UnsubscribingExact'
<1>1. EndingCalls' = EndingCalls /\ \A r \in EndingCalls : sid'[target'[r]] = sid[target[r]]
  BY DEF EndingCalls, InCall
<1>2. {sid'[target'[r]] : r \in EndingCalls'} = {sid[target[r]] : r \in EndingCalls}
  BY <1>1
<1>3. QED BY <1>1, <1>2 DEF UnsubscribingExact, EndingCalls

(* A call ends: its reservation goes, and no other.                        *)
LEMMA ReservationEnds ==
    ASSUME TypeOK, UnsubscribingExact, NEW r \in Requests, NEW o, r \in InCall, Finish(r, o),
           UNCHANGED <<target, sid>>
    PROVE  UnsubscribingExact'
<1>1. InCall' = InCall \ {r}
  BY DEF Finish, InCall, TypeOK
<1>2. EndingCalls' = EndingCalls \ {r}
  BY <1>1 DEF EndingCalls
<1>3. unsubscribing' = unsubscribing \ (IF r \in EndingCalls THEN {sid[target[r]]} ELSE {})
  BY DEF Finish, Reserved, EndingCalls
<1>4. /\ unsubscribing = {sid[target[q]] : q \in EndingCalls}
      /\ \A p, q \in EndingCalls : sid[target[p]] = sid[target[q]] => p = q
  BY DEF UnsubscribingExact, EndingCalls
<1>5. unsubscribing' = {sid[target[q]] : q \in EndingCalls'}
  BY <1>2, <1>3, <1>4
<1>6. \A p, q \in EndingCalls' : sid[target[p]] = sid[target[q]] => p = q
  BY <1>2, <1>4
<1>7. QED BY <1>5, <1>6 DEF UnsubscribingExact, EndingCalls

LEMMA ReservationBegins ==
    ASSUME TypeOK, AnswerInv, UnsubscribingExact, NEW h \in Requests, Unsubscribe(h)
    PROVE  UnsubscribingExact'
<1> DEFINE n == nextReq
<1>1. n \in Requests /\ pc[n] = "idle" /\ UNCHANGED sid /\ sid[h] \notin unsubscribing
      /\ unsubscribing' = unsubscribing \cup {sid[h]}
  BY NewRequest DEF Unsubscribe, BeginRequest, CanUnsubscribe
<1>2. /\ pc'[n] \in {"sending", "queued"} /\ target'[n] = h
      /\ \A r \in Requests : r # n => pc'[r] = pc[r] /\ target'[r] = target[r]
  BY <1>1 DEF Unsubscribe, BeginRequest, TypeOK
<1>3. h # 0
  BY DEF Requests
<1> HIDE DEF n
<1>4. EndingCalls' = EndingCalls \cup {n} /\ n \notin EndingCalls /\ EndingCalls \subseteq Requests
  BY <1>1, <1>2, <1>3 DEF EndingCalls, InCall
<1>5. /\ unsubscribing = {sid[target[q]] : q \in EndingCalls}
      /\ \A p, q \in EndingCalls : sid[target[p]] = sid[target[q]] => p = q
  BY DEF UnsubscribingExact, EndingCalls
<1>6. \A q \in EndingCalls : sid'[target'[q]] = sid[target[q]] /\ sid[target[q]] # sid[h]
  BY <1>1, <1>2, <1>4, <1>5
<1>7. sid'[target'[n]] = sid[h]
  BY <1>1, <1>2
<1>8. unsubscribing' = {sid'[target'[q]] : q \in EndingCalls'}
  BY <1>1, <1>4, <1>5, <1>6, <1>7
<1>9. \A p, q \in EndingCalls' : sid'[target'[p]] = sid'[target'[q]] => p = q
  BY <1>4, <1>5, <1>6, <1>7
<1>10. QED BY <1>8, <1>9 DEF UnsubscribingExact, EndingCalls

LEMMA ReservationStep ==
    ASSUME TypeOK, CallInv, AnswerInv, UnsubscribingExact, [Next]_vars
    PROVE  UnsubscribingExact'
<1>1. ASSUME NEW k \in Kinds, Subscribe(k) PROVE UnsubscribingExact'
  <2>1. /\ nextReq \in Requests /\ pc[nextReq] = "idle" /\ target[nextReq] = 0
        /\ UNCHANGED <<sid, unsubscribing>>
    BY <1>1, NewRequest DEF Subscribe, BeginRequest, AnswerInv, CallRecords
  <2>2. /\ pc'[nextReq] \in {"sending", "queued"} /\ target' = target
        /\ \A r \in Requests : r # nextReq => pc'[r] = pc[r]
    BY <1>1, <2>1 DEF Subscribe, BeginRequest, TypeOK
  <2>3. EndingCalls' = EndingCalls
    BY <2>1, <2>2 DEF EndingCalls, InCall
  <2>4. QED BY <2>1, <2>2, <2>3 DEF UnsubscribingExact, EndingCalls
<1>2. ASSUME NEW r \in Requests, LockGranted(r) \/ Write(r) \/ Sent(r) PROVE UnsubscribingExact'
  <2>1. /\ UNCHANGED <<target, sid, unsubscribing>> /\ r \in InCall
        /\ pc'[r] \in {"sending", "draining", "waiting"}
        /\ \A q \in Requests : q # r => pc'[q] = pc[q]
    BY <1>2 DEF LockGranted, Write, Sent, NextInLine, LockQueue, InCall, TypeOK
  <2>2. InCall' = InCall
    BY <2>1 DEF InCall
  <2>3. QED BY <2>1, <2>2, SameReservations
<1>3. ASSUME NEW r \in Requests,
             \/ LockRefused(r) \/ SendFailed(r) \/ CancelRequest(r)
             \/ Return(r) \/ Timeout(r) \/ CancelWait(r)
      PROVE  UnsubscribingExact'
  <2>1. r \in InCall /\ UNCHANGED <<target, sid>> /\ \E o : Finish(r, o)
    BY <1>3 DEF LockRefused, SendFailed, CancelRequest, Return, Timeout, CancelWait, EndWait,
                NextInLine, LockQueue, InSend, InCall
  <2>2. QED BY <2>1, ReservationEnds
<1>4. CASE Call
  BY <1>1, <1>2, <1>3, <1>4, ReservationBegins DEF Call
<1>5. CASE DispatchSubscribed
  <2>1. UNCHANGED <<target, unsubscribing>> /\ InCall' = InCall
    BY <1>5 DEF DispatchSubscribed, InCall
  <2>2. Owner \in pending /\ closedExc = NoExc /\ sid' = [sid EXCEPT ![Owner] = frame.sid]
    BY <1>5 DEF DispatchSubscribed, CanDispatch
  <2>3. \A r \in Requests : target[r] # 0 => target[r] # Owner /\ target[r] \in Requests
    BY <2>2, TargetSid DEF CallInv, PendingExact, AnswerInv, TargetsKnown
  <2>4. QED BY <2>1, <2>2, <2>3, SameReservations DEF TypeOK
<1>6. CASE Read /\ ~DispatchSubscribed
  <2>1. UNCHANGED <<target, sid, unsubscribing, pc>>
    BY <1>6 DEF Read, ReaderStart, DispatchAnswer, DispatchStray, Enqueue, OverflowDropOldest,
                OverflowDropNewest, OverflowRaise, TakeNotification, ReadFatal, ReadAfterClose,
                ReaderEOF, callVars
  <2>2. QED BY <2>1, SameReservations DEF InCall
<1>7. CASE Peer \/ Recv \/ Connect \/ Close \/ UNCHANGED vars
  <2>1. UNCHANGED <<target, sid, unsubscribing, pc>>
    BY <1>7 DEF Peer, Recv, RecvTake, RecvRaise, RecvBlock, RecvCancel, Connect, ConnectBegin,
                ConnectFail, ConnectOk, Close, CloseBegin, ReleaseBegin, ReleaseEnd, CloseReturn,
                CloseCancel, vars, callVars
  <2>2. QED BY <2>1, SameReservations DEF InCall
<1>8. QED BY <1>4, <1>5, <1>6, <1>7 DEF Next

(* However its calls end, an id is reserved exactly while one call is      *)
(* ending it, and no two calls end the same id.                            *)
THEOREM ReservationsAreExact == Spec => []UnsubscribingExact
<1>1. Init => UnsubscribingExact
  <2>1. Init => InCall = {} /\ unsubscribing = {}
    BY DEF Init, InCall
  <2>2. QED BY <2>1 DEF UnsubscribingExact
<1>2. TypeOK /\ CallInv /\ AnswerInv /\ UnsubscribingExact /\ [Next]_vars => UnsubscribingExact'
  BY ReservationStep
<1>3. QED BY <1>1, <1>2, TypeCorrect, CallInvariant, AnswerInvariant, PTL DEF Spec
=============================================================================
