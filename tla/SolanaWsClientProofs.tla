------------------------ MODULE SolanaWsClientProofs ------------------------
(***************************************************************************)
(* Safety of SolanaWsClient for every number of requests, subscription     *)
(* ids, notifications, faults and closers, every queue size and every      *)
(* overflow policy.                                                        *)
(***************************************************************************)
EXTENDS SolanaWsClient, SequenceTheorems, TLAPS

USE PeerAssumption, ClientAssumption DEF PeerAssumption, ClientAssumption

(* A sequence keeps its type when its head, its tail or a prefix is taken, *)
(* or an element of the same set is appended.                              *)
LEMMA SeqTypes ==
    ASSUME NEW S, NEW q \in Seq(S)
    PROVE  /\ q # <<>> => Head(q) \in S /\ Tail(q) \in Seq(S)
           /\ \A x \in S : Append(q, x) \in Seq(S)
           /\ \A k \in 0..Len(q) : SubSeq(q, 1, k) \in Seq(S)
<1>1. q # <<>> => Head(q) \in S /\ Tail(q) \in Seq(S)
  BY HeadTailProperties
<1>2. \A x \in S : Append(q, x) \in Seq(S)
  BY AppendProperties
<1>3. \A k \in 0..Len(q) : SubSeq(q, 1, k) \in Seq(S)
  BY SubSeqProperties
<1>4. QED BY <1>1, <1>2, <1>3

(* Updating a function keeps its type, whether or not the argument is in   *)
(* its domain.                                                             *)
LEMMA UpdateType ==
    ASSUME NEW S, NEW V, NEW f \in [S -> V], NEW x, NEW v \in V
    PROVE  [f EXCEPT ![x] = v] \in [S -> V]
OBVIOUS

LEMMA ZeroInRange == 0 \in 0..MaxRequests /\ 0 \in 0..MaxSubs
OBVIOUS

LEMMA PeerType ==
    ASSUME PeerTypeOK, PeerStep
    PROVE  PeerTypeOK'
<1> USE DEF PeerTypeOK, Requests, SubIds
<1>1. ASSUME NEW m \in toServer, AcceptSubscribe(m) PROVE PeerTypeOK'
  <2>1. m.id \in Requests /\ m.kind \in Kinds \cup {NoKind}
    BY DEF Message
  <2>2. PICK s \in SubIds :
            /\ srv' = [srv EXCEPT ![s] = m.id]
            /\ granted' = [granted EXCEPT ![m.id] = s]
            /\ lastSid' = s
            /\ toClient' = Append(toClient, Answer("confirm", m.id, s))
    BY <1>1 DEF AcceptSubscribe
  <2>3. Answer("confirm", m.id, s) \in Frame
    BY <2>1 DEF Answer, Frame, FrameTypes, Answers
  <2>4. toClient' \in Seq(Frame)
    BY <2>2, <2>3, SeqTypes
  <2>5. QED BY <1>1, <2>1, <2>2, <2>4, SMTT(20) DEF AcceptSubscribe
<1>2. ASSUME NEW m \in toServer, Refuse(m) PROVE PeerTypeOK'
  <2>1. Answer("error", m.id, 0) \in Frame
    BY DEF Message, Frame, Answer, FrameTypes, Answers
  <2>2. toClient' \in Seq(Frame)
    BY <1>2, <2>1, SeqTypes DEF Refuse
  <2>3. QED BY <1>2, <2>2 DEF Refuse
<1>3. ASSUME NEW m \in toServer, HandleUnsubscribe(m) PROVE PeerTypeOK'
  <2>1. /\ Answer("ack", m.id, m.sid) \in Frame
        /\ Answer("nack", m.id, m.sid) \in Frame
    BY DEF Message, Answer, Frame, FrameTypes, Answers
  <2>2. /\ Append(toClient, Answer("ack", m.id, m.sid)) \in Seq(Frame)
        /\ Append(toClient, Answer("nack", m.id, m.sid)) \in Seq(Frame)
    BY <2>1, SeqTypes
  <2>3. toClient' \in Seq(Frame)
    BY <1>3, <2>2 DEF HandleUnsubscribe
  <2>4. srv' \in [SubIds -> 0..MaxRequests]
    <3>1. [srv EXCEPT ![m.sid] = 0] \in [SubIds -> 0..MaxRequests]
      BY UpdateType, ZeroInRange
    <3>2. QED BY <1>3, <3>1 DEF HandleUnsubscribe
  <2>5. QED BY <1>3, <2>3, <2>4 DEF HandleUnsubscribe
<1>4. ASSUME NEW s \in SubIds, Notify(s) PROVE PeerTypeOK'
  <2>1. notes + 1 \in 0..MaxNotes
    BY <1>4 DEF Notify
  <2>2. /\ Stream("note", s, notes + 1) \in Frame
        /\ Stream("final", s, notes + 1) \in Frame
    BY <2>1 DEF Frame, Stream, FrameTypes
  <2>3. /\ Append(toClient, Stream("note", s, notes + 1)) \in Seq(Frame)
        /\ Append(toClient, Stream("final", s, notes + 1)) \in Seq(Frame)
    BY <2>2, SeqTypes
  <2>4. toClient' \in Seq(Frame)
    BY <1>4, <2>3 DEF Notify
  <2>5. srv' \in [SubIds -> 0..MaxRequests]
    <3>1. [srv EXCEPT ![s] = 0] \in [SubIds -> 0..MaxRequests]
      BY UpdateType, ZeroInRange
    <3>2. QED BY <1>4, <3>1 DEF Notify
  <2>6. QED BY <1>4, <2>1, <2>4, <2>5 DEF Notify
<1>5. CASE Duplicate
  BY <1>5, SeqTypes, ElementOfSeq DEF Duplicate
<1>6. CASE Corrupt
  BY <1>6, SeqTypes DEF Corrupt, Frame, BadFrame, FrameTypes
<1>7. CASE RemoteClose
  BY <1>7, SeqTypes DEF RemoteClose, SockStates
<1>8. CASE SocketClosed
  BY <1>8 DEF SocketClosed, SockStates
<1>9. QED
  BY <1>1, <1>2, <1>3, <1>4, <1>5, <1>6, <1>7, <1>8 DEF PeerStep

----------------------------------------------------------------------------
(* What _abandon, the clean-up of a call and its end do to the types.      *)
LEMMA AbandonType ==
    ASSUME TypeOK, NEW e \in Causes
    PROVE  /\ FirstCause(e) \in Causes \cup {NoExc}
           /\ AbandonedFut \in [Requests -> Futures]
           /\ AbandonedSubs \in [SubIds -> 0..MaxRequests]
           /\ AbandonedReady \in BOOLEAN
BY DEF TypeOK, FirstCause, AbandonedFut, AbandonedSubs, AbandonedReady, Futures

LEMMA ForgetType ==
    ASSUME TypeOK, NEW f \in [Requests -> Futures], NEW r \in Requests, Forget(f, r)
    PROVE  pending' \in SUBSET Requests /\ fut' \in [Requests -> Futures]
BY DEF TypeOK, Forget, Forgotten, Futures

LEMMA FinishType ==
    ASSUME TypeOK, NEW r \in Requests, NEW o \in Outcomes, Finish(r, o)
    PROVE  /\ pc' \in [Requests -> {"idle", "queued", "sending", "draining", "waiting", "done"}]
           /\ out' \in [Requests -> Outcomes]
           /\ unsubscribing' \in SUBSET (0..MaxSubs)
BY DEF TypeOK, Finish

LEMMA FrameType ==
    ASSUME TypeOK, toClient # <<>>
    PROVE  frame \in Frame /\ Tail(toClient) \in Seq(Frame)
BY SeqTypes DEF TypeOK, PeerTypeOK, frame

LEMMA TakeFrameType ==
    ASSUME TypeOK, TakeFrame
    PROVE  PeerTypeOK' /\ frame \in Frame
BY FrameType DEF TypeOK, PeerTypeOK, TakeFrame

LEMMA BeginType ==
    ASSUME TypeOK, NEW k \in Kinds \cup {NoKind}, NEW h \in 0..MaxRequests, BeginRequest(k, h)
    PROVE  /\ nextReq' \in 1..(MaxRequests + 1)
           /\ pc' \in [Requests -> {"idle", "queued", "sending", "draining", "waiting", "done"}]
           /\ kind' \in [Requests -> Kinds \cup {NoKind}]
           /\ target' \in [Requests -> 0..MaxRequests]
           /\ fut' \in [Requests -> Futures]
           /\ pending' \in SUBSET Requests
<1>1. nextReq \in Requests
  BY DEF BeginRequest
<1>2. nextReq' \in 1..(MaxRequests + 1)
  BY <1>1 DEF BeginRequest, Requests
<1>3. "pending" \in Futures
  BY DEF Futures
<1>4. QED
  BY <1>1, <1>2, <1>3 DEF BeginRequest, TypeOK

LEMMA CallType ==
    ASSUME TypeOK, Call
    PROVE  TypeOK'
<1> USE DEF TypeOK, PeerTypeOK, peerVars, streamVars, lifeVars
<1>1. ASSUME NEW k \in Kinds, Subscribe(k) PROVE TypeOK'
  BY <1>1, BeginType, ZeroInRange DEF Subscribe, BeginRequest
<1>2. ASSUME NEW h \in Requests, Unsubscribe(h) PROVE TypeOK'
  <2>1. h \in 0..MaxRequests /\ sid[h] \in 0..MaxSubs
    BY DEF Requests
  <2>2. QED BY <1>2, <2>1, BeginType DEF Unsubscribe, BeginRequest
<1>3. ASSUME NEW r \in Requests, LockGranted(r) PROVE TypeOK'
  BY <1>3 DEF LockGranted
<1>4. ASSUME NEW r \in Requests, LockRefused(r) PROVE TypeOK'
  BY <1>4, ForgetType, FinishType DEF LockRefused, Outcomes
<1>5. ASSUME NEW r \in Requests, Write(r) PROVE TypeOK'
  <2>1. target[r] \in 0..MaxRequests /\ kind[r] \in Kinds \cup {NoKind}
    BY DEF Requests
  <2>2. (IF target[r] = 0 THEN 0 ELSE sid[target[r]]) \in 0..MaxSubs
    <3>1. target[r] # 0 => target[r] \in Requests
      BY <2>1, SMTT(20) DEF Requests
    <3>2. QED BY <3>1, ZeroInRange
  <2>3. Request(r) \in Message
    BY <2>1, <2>2 DEF Request, Message
  <2>4. QED BY <1>5, <2>3 DEF Write
<1>6. ASSUME NEW r \in Requests, Sent(r) PROVE TypeOK'
  BY <1>6 DEF Sent
<1>7. ASSUME NEW r \in Requests, SendFailed(r) PROVE TypeOK'
  BY <1>7, AbandonType, ForgetType, FinishType DEF SendFailed, Abandon, Causes, Outcomes
<1>8. ASSUME NEW r \in Requests, CancelRequest(r) PROVE TypeOK'
  BY <1>8, ForgetType, FinishType DEF CancelRequest, Outcomes
<1>9. ASSUME NEW r \in Requests, Return(r) PROVE TypeOK'
  <2>1. OutcomeOf(fut[r]) \in Outcomes
    BY DEF OutcomeOf, Outcomes
  <2>2. Removed(r) \in [SubIds -> 0..MaxRequests]
    BY UpdateType, ZeroInRange DEF Removed
  <2>3. QED BY <1>9, <2>1, <2>2, ForgetType, FinishType DEF Return
<1>10. ASSUME NEW r \in Requests, NEW e \in {"timeout", "cancelled"}, EndWait(r, e) PROVE TypeOK'
  BY <1>10, AbandonType, ForgetType, FinishType DEF EndWait, Abandon, Causes, Outcomes
<1>11. QED
  BY <1>1, <1>2, <1>3, <1>4, <1>5, <1>6, <1>7, <1>8, <1>9, <1>10
  DEF Call, Timeout, CancelWait

LEMMA ReadType ==
    ASSUME TypeOK, Read
    PROVE  TypeOK'
<1> USE DEF TypeOK, callVars, streamVars, lifeVars
<1>1. CASE DispatchSubscribed
  <2>1. PeerTypeOK' /\ frame \in Frame
    BY <1>1, TakeFrameType DEF DispatchSubscribed
  <2>2. frame.id \in Requests /\ frame.id \in 0..MaxRequests /\ frame.sid \in 0..MaxSubs
    BY <1>1, <2>1 DEF DispatchSubscribed, Owner, Frame
  <2>3. "handle" \in Futures
    BY DEF Futures
  <2>4. QED BY <1>1, <2>1, <2>2, <2>3, UpdateType DEF DispatchSubscribed, Owner
<1>2. CASE DispatchAnswer
  <2>1. PeerTypeOK' /\ frame \in Frame
    BY <1>2, TakeFrameType DEF DispatchAnswer
  <2>2. frame.type \in Futures
    BY <1>2 DEF DispatchAnswer, Futures
  <2>3. QED BY <1>2, <2>1, <2>2 DEF DispatchAnswer, Owner
<1>3. CASE DispatchStray
  BY <1>3, TakeFrameType DEF DispatchStray
<1>4. ASSUME TakeNotification
      PROVE  /\ PeerTypeOK'
             /\ frame.n \in 0..MaxNotes
             /\ EndedSubs \in [SubIds -> 0..MaxRequests]
             /\ Append(queue, frame.n) \in Seq(0..MaxNotes)
  <2>1. PeerTypeOK' /\ frame \in Frame
    BY <1>4, TakeFrameType DEF TakeNotification
  <2>2. frame.n \in 0..MaxNotes
    BY <2>1 DEF Frame
  <2>3. EndedSubs \in [SubIds -> 0..MaxRequests]
    BY UpdateType, ZeroInRange DEF EndedSubs
  <2>4. QED BY <2>1, <2>2, <2>3, SeqTypes
<1>5. CASE Enqueue
  BY <1>4, <1>5 DEF Enqueue, TakeNotification
<1>6. CASE OverflowDropOldest
  <2>1. Full => queue # <<>>
    BY DEF Full
  <2>2. Displaced(queue, frame.n) \in Seq(0..MaxNotes)
    BY <1>4, <1>6, <2>1, SeqTypes DEF OverflowDropOldest, Displaced
  <2>3. QED BY <1>4, <1>6, <2>2 DEF OverflowDropOldest, TakeNotification, Discarded
<1>7. CASE OverflowDropNewest
  BY <1>4, <1>7 DEF OverflowDropNewest, TakeNotification, Discarded
<1>8. CASE OverflowRaise
  BY <1>4, <1>8, AbandonType DEF OverflowRaise, TakeNotification, Abandon, Causes
<1>9. CASE ReadFatal
  BY <1>9, AbandonType, TakeFrameType DEF ReadFatal, Abandon, Causes
<1>10. CASE ReadAfterClose
  BY <1>10, TakeFrameType DEF ReadAfterClose
<1>11. CASE ReaderEOF
  BY <1>11, AbandonType DEF ReaderEOF, Abandon, Causes, PeerTypeOK, peerVars
<1>12. CASE ReaderStart
  BY <1>12 DEF ReaderStart, PeerTypeOK, peerVars
<1>13. QED
  BY <1>1, <1>2, <1>3, <1>5, <1>6, <1>7, <1>8, <1>9, <1>10, <1>11, <1>12 DEF Read

LEMMA RecvType ==
    ASSUME TypeOK, Recv
    PROVE  TypeOK'
<1> USE DEF TypeOK, PeerTypeOK, peerVars, callVars, lifeVars
<1>1. CASE RecvTake
  BY <1>1, SeqTypes DEF RecvTake
<1>2. CASE RecvRaise
  BY <1>2 DEF RecvRaise
<1>3. CASE RecvBlock
  BY <1>3 DEF RecvBlock
<1>4. CASE RecvCancel
  BY <1>4 DEF RecvCancel
<1>5. QED BY <1>1, <1>2, <1>3, <1>4 DEF Recv

LEMMA LifeType ==
    ASSUME TypeOK, Connect \/ Close
    PROVE  TypeOK'
<1> USE DEF TypeOK, PeerTypeOK, peerVars, callVars, streamVars
<1>1. CASE ConnectBegin
  BY <1>1 DEF ConnectBegin, SockStates, lifeVars
<1>2. CASE ConnectFail
  BY <1>2 DEF ConnectFail, SockStates, lifeVars
<1>3. CASE ConnectOk
  BY <1>3 DEF ConnectOk, SockStates
<1>4. ASSUME NEW c \in Closers, NEW e \in {"local_close", "user_error"}, CloseBegin(c, e)
      PROVE  TypeOK'
  BY <1>4, AbandonType DEF CloseBegin, Abandon, Causes
<1>5. ASSUME NEW c \in Closers, ReleaseBegin(c) PROVE TypeOK'
  BY <1>5 DEF ReleaseBegin, SockStates
<1>6. ASSUME NEW c \in Closers, ReleaseEnd(c) PROVE TypeOK'
  BY <1>6 DEF ReleaseEnd
<1>7. ASSUME NEW c \in Closers, CloseReturn(c) PROVE TypeOK'
  BY <1>7 DEF CloseReturn
<1>8. ASSUME NEW c \in Closers, CloseCancel(c) PROVE TypeOK'
  BY <1>8 DEF CloseCancel
<1>9. QED
  BY <1>1, <1>2, <1>3, <1>4, <1>5, <1>6, <1>7, <1>8 DEF Connect, Close

(* Every reachable state has the shape TypeOK describes: what run Calls    *)
(* checks for three requests holds for any number of anything.             *)
THEOREM TypeCorrect == Spec => []TypeOK
<1>1. Init => TypeOK
  <2>1. /\ 0 \in 0..MaxNotes /\ 0 \in 0..MaxFaults
        /\ 1 \in 1..(MaxRequests + 1)
        /\ <<>> \in Seq(Frame) /\ <<>> \in Seq(0..MaxNotes)
    OBVIOUS
  <2>2. PeerInit => PeerTypeOK
    BY <2>1, ZeroInRange DEF PeerInit, PeerTypeOK, SockStates
  <2>3. "absent" \in Futures /\ "none" \in Outcomes
    BY DEF Futures, Outcomes
  <2>4. Init => /\ closedExc \in Causes \cup {NoExc}
                /\ kind \in [Requests -> Kinds \cup {NoKind}]
                /\ pc \in [Requests -> {"idle", "queued", "sending", "draining", "waiting", "done"}]
                /\ closer \in [Closers -> {"idle", "waiting", "cancelledOnce", "gone", "raised",
                                           "returned", "returnedEarly"}]
                /\ release \in [Closers -> {"none", "created", "closing", "ended"}]
    BY DEF Init
  <2>5. Init => /\ target \in [Requests -> 0..MaxRequests]
                /\ sid \in [Requests -> 0..MaxSubs]
                /\ fut \in [Requests -> Futures]
                /\ out \in [Requests -> Outcomes]
                /\ subs \in [SubIds -> 0..MaxRequests]
    BY <2>3, ZeroInRange DEF Init
  <2>6. Init => ready \in BOOLEAN /\ reported \in BOOLEAN
    BY DEF Init
  <2>7. Init => /\ reader \in {"none", "created", "reading", "done"}
                /\ nextReq \in 1..(MaxRequests + 1)
                /\ pending \in SUBSET Requests
                /\ unsubscribing \in SUBSET (0..MaxSubs)
                /\ overflow \in Policies
                /\ queue \in Seq(0..MaxNotes)
                /\ rcv \in {"idle", "waiting"}
                /\ dropped \in Nat
                /\ arrived \in 0..MaxNotes
                /\ delivered \in Seq(0..MaxNotes)
    BY <2>1 DEF Init
  <2>8. Init => PeerTypeOK
    BY <2>2 DEF Init
  <2>9. QED
    BY <2>4, <2>5, <2>6, <2>7, <2>8, Zenon DEF TypeOK
<1>2. TypeOK /\ [Next]_vars => TypeOK'
  <2> SUFFICES ASSUME TypeOK, [Next]_vars PROVE TypeOK'
    OBVIOUS
  <2>1. CASE Peer
    BY <2>1, PeerType DEF Peer, TypeOK, callVars, streamVars, lifeVars
  <2>2. CASE Call
    BY <2>2, CallType
  <2>3. CASE Read
    BY <2>3, ReadType
  <2>4. CASE Recv
    BY <2>4, RecvType
  <2>5. CASE Connect \/ Close
    BY <2>5, LifeType
  <2>6. CASE UNCHANGED vars
    BY <2>6 DEF vars, peerVars, callVars, streamVars, lifeVars, TypeOK, PeerTypeOK
  <2>7. QED BY <2>1, <2>2, <2>3, <2>4, <2>5, <2>6 DEF Next
<1>3. QED BY <1>1, <1>2, PTL DEF Spec

----------------------------------------------------------------------------
(* An action either leaves _closed_exc alone or abandons the connection.   *)
LEMMA CauseStep ==
    ASSUME [Next]_vars
    PROVE  closedExc' = closedExc \/ \E e \in Causes : Abandon(e)
<1> USE DEF peerVars, callVars, streamVars, lifeVars
<1>1. CASE Peer
  BY <1>1 DEF Peer
<1>2. CASE Call
  <2>1. ASSUME NEW r \in Requests, SendFailed(r) PROVE \E e \in Causes : Abandon(e)
    BY <2>1 DEF SendFailed, Causes
  <2>2. ASSUME NEW r \in Requests, Timeout(r) \/ CancelWait(r)
        PROVE  \E e \in Causes : Abandon(e)
    BY <2>2 DEF Timeout, CancelWait, EndWait, Causes
  <2>3. ASSUME NEW k, NEW h, BeginRequest(k, h) PROVE closedExc' = closedExc
    BY <2>3 DEF BeginRequest
  <2>4. ASSUME NEW r \in Requests,
               \/ LockGranted(r) \/ LockRefused(r) \/ Write(r) \/ Sent(r)
               \/ CancelRequest(r) \/ Return(r)
        PROVE  closedExc' = closedExc
    BY <2>4 DEF LockGranted, LockRefused, Write, Sent, CancelRequest, Return
  <2>5. QED BY <1>2, <2>1, <2>2, <2>3, <2>4 DEF Call, Subscribe, Unsubscribe
<1>3. CASE Read
  <2>1. CASE OverflowRaise
    BY <2>1 DEF OverflowRaise, Causes
  <2>2. CASE ReadFatal
    BY <2>2 DEF ReadFatal, Causes
  <2>3. CASE ReaderEOF
    BY <2>3 DEF ReaderEOF, Causes
  <2>4. CASE \/ DispatchSubscribed \/ DispatchAnswer \/ DispatchStray \/ Enqueue
             \/ OverflowDropOldest \/ OverflowDropNewest \/ ReadAfterClose \/ ReaderStart
    BY <2>4 DEF ReaderStart, DispatchSubscribed, DispatchAnswer, DispatchStray, Enqueue,
                OverflowDropOldest, OverflowDropNewest, ReadAfterClose
  <2>5. QED BY <1>3, <2>1, <2>2, <2>3, <2>4 DEF Read
<1>4. CASE Recv
  BY <1>4 DEF Recv, RecvTake, RecvRaise, RecvBlock, RecvCancel
<1>5. CASE Connect
  BY <1>5 DEF Connect, ConnectBegin, ConnectFail, ConnectOk
<1>6. CASE Close
  <2>1. ASSUME NEW c \in Closers, NEW e \in {"local_close", "user_error"}, CloseBegin(c, e)
        PROVE  \E x \in Causes : Abandon(x)
    BY <2>1 DEF CloseBegin, Causes
  <2>2. ASSUME NEW c \in Closers,
               ReleaseBegin(c) \/ ReleaseEnd(c) \/ CloseReturn(c) \/ CloseCancel(c)
        PROVE  closedExc' = closedExc
    BY <2>2 DEF ReleaseBegin, ReleaseEnd, CloseReturn, CloseCancel
  <2>3. QED BY <1>6, <2>1, <2>2 DEF Close
<1>7. CASE UNCHANGED vars
  BY <1>7 DEF vars
<1>8. QED BY <1>1, <1>2, <1>3, <1>4, <1>5, <1>6, <1>7 DEF Next

LEMMA CausesAreClosures == NoExc \notin Causes
BY DEF NoExc, Causes

(* The cause a waiter reports never changes once it is recorded, whichever *)
(* tasks fail, time out, are cancelled or close afterwards.                *)
THEOREM FirstCauseIsKept == Spec => FirstCauseWins
<1>1. [Next]_vars => [closedExc # NoExc => closedExc' = closedExc]_vars
  BY CauseStep DEF Abandon, FirstCause
<1>2. QED BY <1>1, PTL DEF Spec, FirstCauseWins

----------------------------------------------------------------------------
(* The inductive invariant behind PendingExact and                         *)
(* DeadConnectionOwnsNothing.  Neither is inductive alone: that _abandon   *)
(* fails every open future needs every open future to be in                *)
(* _pending_requests, and that a late answer finds an open future needs    *)
(* the reader to stop at a recorded cause.                                 *)
CallInv == TypeOK /\ PendingExact /\ DeadConnectionOwnsNothing

(* _abandon leaves no open future and no handle.                           *)
LEMMA AbandonFailsAll ==
    ASSUME CallInv, NEW e \in Causes, Abandon(e)
    PROVE  /\ closedExc' # NoExc
           /\ \A s \in SubIds : subs'[s] = 0
           /\ \A r \in Requests : AbandonedFut[r] # "pending"
           /\ AbandonedFut \in [Requests -> Futures]
<1> USE DEF CallInv
<1>1. closedExc' # NoExc
  BY CausesAreClosures DEF Abandon, FirstCause
<1>2. \A s \in SubIds : subs'[s] = 0
  BY DEF Abandon, AbandonedSubs, DeadConnectionOwnsNothing
<1>3. \A r \in Requests : AbandonedFut[r] # "pending"
  BY DEF AbandonedFut, PendingExact, DeadConnectionOwnsNothing
<1>4. QED BY <1>1, <1>2, <1>3, AbandonType

(* The connection is abandoned by somebody who is not inside a call.       *)
LEMMA AbandonKeeps ==
    ASSUME CallInv, NEW e \in Causes, Abandon(e),
           fut' = AbandonedFut, pending' = pending, pc' = pc
    PROVE  PendingExact' /\ DeadConnectionOwnsNothing'
BY AbandonFailsAll DEF CallInv, PendingExact, DeadConnectionOwnsNothing, InCall

(* The connection is abandoned by a call on its way out.                   *)
LEMMA AbandonAndEndKeeps ==
    ASSUME CallInv, NEW e \in Causes, Abandon(e),
           NEW r \in Requests, NEW o, Forget(AbandonedFut, r), Finish(r, o)
    PROVE  PendingExact' /\ DeadConnectionOwnsNothing'
<1>1. \A q \in Requests : fut'[q] # "pending"
  BY AbandonFailsAll DEF Forget, Forgotten
<1>2. \A q \in pending' : q \in pending /\ q # r
  BY DEF Forget
<1>3. \A q \in Requests : q # r => pc'[q] = pc[q]
  BY DEF Finish, CallInv, TypeOK
<1>4. QED
  BY <1>1, <1>2, <1>3, AbandonFailsAll
  DEF CallInv, TypeOK, PendingExact, DeadConnectionOwnsNothing, InCall

(* A call ends and the connection is left alone.                           *)
LEMMA EndKeeps ==
    ASSUME CallInv, NEW r \in Requests, NEW o, Forget(fut, r), Finish(r, o),
           closedExc' = closedExc, subs' = subs \/ subs' = Removed(r)
    PROVE  PendingExact' /\ DeadConnectionOwnsNothing'
<1>1. \A q \in Requests : q # r => fut'[q] = fut[q] /\ pc'[q] = pc[q]
  BY DEF Forget, Forgotten, Finish, CallInv, TypeOK
<1>2. fut'[r] # "pending" /\ r \notin pending'
  BY DEF Forget, Forgotten, CallInv, TypeOK
<1>3. PendingExact'
  BY <1>1, <1>2 DEF CallInv, TypeOK, PendingExact, InCall, Forget
<1>4. \A s \in SubIds : subs[s] = 0 => subs'[s] = 0
  BY DEF Removed, CallInv, TypeOK
<1>5. DeadConnectionOwnsNothing'
  BY <1>1, <1>2, <1>4 DEF CallInv, DeadConnectionOwnsNothing
<1>6. QED BY <1>3, <1>5

(* An answer for an entry of _pending_requests removes it and resolves its *)
(* future.                                                                 *)
LEMMA ResolveKeeps ==
    ASSUME CallInv, NEW r \in pending, NEW v, v # "pending", CanDispatch,
           pending' = pending \ {r}, fut' = [fut EXCEPT ![r] = v],
           closedExc' = closedExc, pc' = pc
    PROVE  PendingExact' /\ DeadConnectionOwnsNothing'
<1>1. \A q \in Requests : q # r => fut'[q] = fut[q]
  BY DEF CallInv, TypeOK
<1>2. fut'[r] = v
  BY DEF CallInv, TypeOK
<1>3. QED
  BY <1>1, <1>2 DEF CallInv, TypeOK, PendingExact, DeadConnectionOwnsNothing, InCall, CanDispatch

(* A step that leaves the calls and the cause alone.                       *)
LEMMA IdleKeeps ==
    ASSUME CallInv, closedExc' = closedExc, UNCHANGED callVars
    PROVE  PendingExact' /\ DeadConnectionOwnsNothing'
BY DEF CallInv, callVars, PendingExact, DeadConnectionOwnsNothing, InCall

LEMMA CallInvCall ==
    ASSUME CallInv, Call
    PROVE  PendingExact' /\ DeadConnectionOwnsNothing'
<1> USE DEF lifeVars
<1>1. ASSUME NEW k, NEW h, BeginRequest(k, h) PROVE PendingExact' /\ DeadConnectionOwnsNothing'
  <2>1. nextReq \in Requests /\ closedExc = NoExc
    BY <1>1 DEF BeginRequest, IsOpen
  <2>2. \A q \in Requests : q # nextReq => fut'[q] = fut[q] /\ pc'[q] = pc[q]
    BY <1>1, <2>1 DEF BeginRequest, CallInv, TypeOK
  <2>3. fut'[nextReq] = "pending" /\ pc'[nextReq] \in {"sending", "queued"}
    BY <1>1, <2>1 DEF BeginRequest, CallInv, TypeOK
  <2>4. closedExc' = NoExc /\ pending' = pending \cup {nextReq}
    BY <1>1, <2>1 DEF BeginRequest
  <2>5. QED
    BY <2>1, <2>2, <2>3, <2>4 DEF CallInv, TypeOK, PendingExact, DeadConnectionOwnsNothing, InCall
<1>2. ASSUME NEW r \in Requests, LockGranted(r) \/ Write(r) \/ Sent(r)
      PROVE  PendingExact' /\ DeadConnectionOwnsNothing'
  <2>1. /\ r \in InCall
        /\ pc'[r] \in {"sending", "draining", "waiting"}
        /\ \A q \in Requests : q # r => pc'[q] = pc[q]
    BY <1>2 DEF LockGranted, Write, Sent, NextInLine, LockQueue, InCall, CallInv, TypeOK
  <2>2. UNCHANGED <<closedExc, fut, pending, subs>>
    BY <1>2 DEF LockGranted, Write, Sent
  <2>3. QED
    BY <2>1, <2>2 DEF CallInv, TypeOK, PendingExact, DeadConnectionOwnsNothing, InCall
<1>3. ASSUME NEW r \in Requests, LockRefused(r) \/ CancelRequest(r) \/ Return(r)
      PROVE  PendingExact' /\ DeadConnectionOwnsNothing'
  BY <1>3, EndKeeps DEF LockRefused, CancelRequest, Return
<1>4. ASSUME NEW r \in Requests, SendFailed(r) \/ Timeout(r) \/ CancelWait(r)
      PROVE  PendingExact' /\ DeadConnectionOwnsNothing'
  BY <1>4, AbandonAndEndKeeps DEF SendFailed, Timeout, CancelWait, EndWait, Causes
<1>5. QED
  BY <1>1, <1>2, <1>3, <1>4 DEF Call, Subscribe, Unsubscribe

LEMMA CallInvRead ==
    ASSUME CallInv, Read
    PROVE  PendingExact' /\ DeadConnectionOwnsNothing'
<1> USE DEF lifeVars
<1>1. CASE DispatchSubscribed
  BY <1>1, ResolveKeeps DEF DispatchSubscribed, Owner
<1>2. CASE DispatchAnswer
  BY <1>2, ResolveKeeps DEF DispatchAnswer, Owner
<1>3. CASE DispatchStray
  BY <1>3, IdleKeeps DEF DispatchStray
<1>4. CASE Enqueue \/ OverflowDropOldest \/ OverflowDropNewest
  <2>1. closedExc = NoExc /\ UNCHANGED <<closedExc, fut, pending, pc>>
    BY <1>4 DEF Enqueue, OverflowDropOldest, OverflowDropNewest, TakeNotification, CanDispatch
  <2>2. QED BY <2>1 DEF CallInv, PendingExact, DeadConnectionOwnsNothing, InCall
<1>5. CASE OverflowRaise \/ ReadFatal \/ ReaderEOF
  BY <1>5, AbandonKeeps DEF OverflowRaise, TakeNotification, ReadFatal, ReaderEOF, Causes
<1>6. CASE ReadAfterClose \/ ReaderStart
  BY <1>6, IdleKeeps DEF ReadAfterClose, ReaderStart
<1>7. QED BY <1>1, <1>2, <1>3, <1>4, <1>5, <1>6 DEF Read

LEMMA CallInvOther ==
    ASSUME CallInv, Peer \/ Recv \/ Connect \/ Close \/ UNCHANGED vars
    PROVE  PendingExact' /\ DeadConnectionOwnsNothing'
<1> USE DEF lifeVars
<1>1. CASE Peer
  BY <1>1, IdleKeeps DEF Peer
<1>2. CASE Recv
  BY <1>2, IdleKeeps DEF Recv, RecvTake, RecvRaise, RecvBlock, RecvCancel
<1>3. CASE Connect
  BY <1>3, IdleKeeps DEF Connect, ConnectBegin, ConnectFail, ConnectOk
<1>4. ASSUME NEW c \in Closers, NEW e \in {"local_close", "user_error"}, CloseBegin(c, e)
      PROVE  PendingExact' /\ DeadConnectionOwnsNothing'
  BY <1>4, AbandonKeeps DEF CloseBegin, Causes
<1>5. ASSUME NEW c \in Closers,
             ReleaseBegin(c) \/ ReleaseEnd(c) \/ CloseReturn(c) \/ CloseCancel(c)
      PROVE  PendingExact' /\ DeadConnectionOwnsNothing'
  BY <1>5, IdleKeeps DEF ReleaseBegin, ReleaseEnd, CloseReturn, CloseCancel
<1>6. CASE UNCHANGED vars
  BY <1>6, IdleKeeps DEF vars
<1>7. QED BY <1>1, <1>2, <1>3, <1>4, <1>5, <1>6 DEF Close

LEMMA CallInvariant == Spec => []CallInv
<1>1. Init => PendingExact /\ DeadConnectionOwnsNothing
  BY DEF Init, PendingExact, DeadConnectionOwnsNothing
<1>2. TypeOK /\ CallInv /\ [Next]_vars => PendingExact' /\ DeadConnectionOwnsNothing'
  BY CallInvCall, CallInvRead, CallInvOther DEF Next
<1>3. QED BY <1>1, <1>2, TypeCorrect, PTL DEF Spec, CallInv

(* The reader never resolves a resolved future and never misses the future *)
(* a call waits for, however many calls are in flight.                     *)
THEOREM PendingIsExact == Spec => []PendingExact
BY CallInvariant, PTL DEF CallInv

(* Once a cause is recorded, no handle is registered and no future stays   *)
(* open, however many calls were in flight.                                *)
THEOREM DeadOwnsNothing == Spec => []DeadConnectionOwnsNothing
BY CallInvariant, PTL DEF CallInv

----------------------------------------------------------------------------
(* The receiver.  A closure is reported only with the queue empty, and     *)
(* nothing is queued once a cause is recorded.                             *)
ReportedWhenDrained == reported => closedExc # NoExc /\ queue = <<>>

RecvInv == TypeOK /\ ReceiverWoken /\ ReportedWhenDrained

LEMMA RecvIdleKeeps ==
    ASSUME RecvInv, closedExc' = closedExc, UNCHANGED <<queue, ready, rcv, reported>>
    PROVE  ReceiverWoken' /\ ReportedWhenDrained'
BY DEF RecvInv, ReceiverWoken, ReportedWhenDrained

(* _abandon sets the event, so a suspended receiver runs.                  *)
LEMMA RecvAbandonKeeps ==
    ASSUME RecvInv, NEW e \in Causes, Abandon(e), UNCHANGED <<queue, rcv, reported>>
    PROVE  ReceiverWoken' /\ ReportedWhenDrained'
<1>1. closedExc' # NoExc
  BY CausesAreClosures DEF Abandon, FirstCause
<1>2. rcv = "waiting" => ready'
  BY DEF Abandon, AbandonedReady, RecvInv, ReceiverWoken
<1>3. QED
  BY <1>1, <1>2 DEF RecvInv, ReceiverWoken, ReportedWhenDrained, Abandon

LEMMA RecvInvStep ==
    ASSUME RecvInv, [Next]_vars
    PROVE  ReceiverWoken' /\ ReportedWhenDrained'
<1> USE DEF streamVars, lifeVars
<1>1. CASE Peer
  BY <1>1, RecvIdleKeeps DEF Peer
<1>2. CASE Call
  <2>1. ASSUME NEW k, NEW h, BeginRequest(k, h) PROVE ReceiverWoken' /\ ReportedWhenDrained'
    BY <2>1, RecvIdleKeeps DEF BeginRequest
  <2>2. ASSUME NEW r \in Requests,
               \/ LockGranted(r) \/ LockRefused(r) \/ Write(r) \/ Sent(r)
               \/ CancelRequest(r) \/ Return(r)
        PROVE  ReceiverWoken' /\ ReportedWhenDrained'
    BY <2>2, RecvIdleKeeps DEF LockGranted, LockRefused, Write, Sent, CancelRequest, Return
  <2>3. ASSUME NEW r \in Requests, SendFailed(r) \/ Timeout(r) \/ CancelWait(r)
        PROVE  ReceiverWoken' /\ ReportedWhenDrained'
    BY <2>3, RecvAbandonKeeps DEF SendFailed, Timeout, CancelWait, EndWait, Causes
  <2>4. QED BY <1>2, <2>1, <2>2, <2>3 DEF Call, Subscribe, Unsubscribe
<1>3. CASE Read
  <2>1. CASE \/ DispatchSubscribed \/ DispatchAnswer \/ DispatchStray
             \/ ReadAfterClose \/ ReaderStart
    BY <2>1, RecvIdleKeeps
    DEF DispatchSubscribed, DispatchAnswer, DispatchStray, ReadAfterClose, ReaderStart
  <2>2. CASE Enqueue \/ OverflowDropOldest
    <3>1. frame.n \in 0..MaxNotes
      BY <2>2, TakeFrameType DEF Enqueue, OverflowDropOldest, TakeNotification, RecvInv, Frame
    <3>2. OverflowDropOldest => Tail(queue) \in Seq(0..MaxNotes)
      BY SeqTypes DEF OverflowDropOldest, Full, RecvInv, TypeOK
    <3>3. queue' # <<>>
      BY <2>2, <3>1, <3>2, AppendProperties
      DEF Enqueue, OverflowDropOldest, Displaced, RecvInv, TypeOK
    <3>4. /\ ready' = TRUE /\ rcv' = rcv /\ reported' = reported
          /\ closedExc' = closedExc /\ closedExc = NoExc
      BY <2>2 DEF Enqueue, OverflowDropOldest, TakeNotification, CanDispatch
    <3>5. QED BY <3>3, <3>4 DEF RecvInv, ReceiverWoken, ReportedWhenDrained
  <2>3. CASE OverflowDropNewest
    BY <2>3, RecvIdleKeeps DEF OverflowDropNewest, TakeNotification
  <2>4. CASE OverflowRaise \/ ReadFatal \/ ReaderEOF
    BY <2>4, RecvAbandonKeeps DEF OverflowRaise, TakeNotification, ReadFatal, ReaderEOF, Causes
  <2>5. QED BY <1>3, <2>1, <2>2, <2>3, <2>4 DEF Read
<1>4. CASE Recv
  <2>1. CASE RecvTake
    BY <2>1 DEF RecvTake, RecvInv, ReceiverWoken, ReportedWhenDrained
  <2>2. CASE RecvRaise
    BY <2>2 DEF RecvRaise, ClosureDue, RecvInv, ReceiverWoken, ReportedWhenDrained
  <2>3. CASE RecvBlock
    BY <2>3 DEF RecvBlock, IsOpen, RecvInv, ReceiverWoken, ReportedWhenDrained
  <2>4. CASE RecvCancel
    BY <2>4 DEF RecvCancel, RecvInv, ReceiverWoken, ReportedWhenDrained
  <2>5. QED BY <1>4, <2>1, <2>2, <2>3, <2>4 DEF Recv
<1>5. CASE Connect
  BY <1>5, RecvIdleKeeps DEF Connect, ConnectBegin, ConnectFail, ConnectOk
<1>6. CASE Close
  <2>1. ASSUME NEW c \in Closers, NEW e \in {"local_close", "user_error"}, CloseBegin(c, e)
        PROVE  ReceiverWoken' /\ ReportedWhenDrained'
    BY <2>1, RecvAbandonKeeps DEF CloseBegin, Causes
  <2>2. ASSUME NEW c \in Closers,
               ReleaseBegin(c) \/ ReleaseEnd(c) \/ CloseReturn(c) \/ CloseCancel(c)
        PROVE  ReceiverWoken' /\ ReportedWhenDrained'
    BY <2>2, RecvIdleKeeps DEF ReleaseBegin, ReleaseEnd, CloseReturn, CloseCancel
  <2>3. QED BY <1>6, <2>1, <2>2 DEF Close
<1>7. CASE UNCHANGED vars
  BY <1>7, RecvIdleKeeps DEF vars
<1>8. QED BY <1>1, <1>2, <1>3, <1>4, <1>5, <1>6, <1>7 DEF Next

LEMMA RecvInvariant == Spec => []RecvInv
<1>1. Init => ReceiverWoken /\ ReportedWhenDrained
  BY DEF Init, ReceiverWoken, ReportedWhenDrained
<1>2. RecvInv /\ [Next]_vars => ReceiverWoken' /\ ReportedWhenDrained'
  BY RecvInvStep
<1>3. QED BY <1>1, <1>2, TypeCorrect, PTL DEF Spec, RecvInv

(* No wake-up of the receiver is lost, and none is for nothing.            *)
THEOREM ReceiverIsWoken == Spec => []ReceiverWoken
BY RecvInvariant, PTL DEF RecvInv

(* Only the reader on an open connection and the receiver move the stream. *)
LEMMA StreamStep ==
    ASSUME [Next]_vars, closedExc # NoExc
    PROVE  RecvTake \/ UNCHANGED <<queue, delivered>>
<1> USE DEF streamVars
<1>1. CASE Peer \/ UNCHANGED vars
  BY <1>1 DEF Peer, vars
<1>2. CASE Call
  BY <1>2 DEF Call, Subscribe, Unsubscribe, BeginRequest, LockGranted, LockRefused, Write, Sent,
              SendFailed, CancelRequest, Return, Timeout, CancelWait, EndWait
<1>3. CASE Read
  BY <1>3 DEF Read, ReaderStart, DispatchSubscribed, DispatchAnswer, DispatchStray, Enqueue,
              OverflowDropOldest, OverflowDropNewest, OverflowRaise, TakeNotification, CanDispatch,
              ReadFatal, ReadAfterClose, ReaderEOF
<1>4. CASE Recv
  BY <1>4 DEF Recv, RecvRaise, RecvBlock, RecvCancel
<1>5. CASE Connect \/ Close
  BY <1>5 DEF Connect, ConnectBegin, ConnectFail, ConnectOk, Close, CloseBegin, ReleaseBegin,
              ReleaseEnd, CloseReturn, CloseCancel
<1>6. QED BY <1>1, <1>2, <1>3, <1>4, <1>5 DEF Next

(* Once recv() has raised the closure, nothing is queued and nothing is    *)
(* delivered any more.                                                     *)
THEOREM ClosureIsLast == Spec => ClosureReportedLast
<1>1. RecvInv /\ [Next]_vars => [reported => delivered' = delivered /\ queue' = queue]_vars
  BY StreamStep DEF RecvInv, ReportedWhenDrained, RecvTake
<1>2. QED BY <1>1, RecvInvariant, PTL DEF Spec, ClosureReportedLast

----------------------------------------------------------------------------
(* close().  A release task ends only with the socket closed and the       *)
(* reader done, and neither comes back.                                    *)
ReleasedWhenEnded ==
    \A c \in Closers : release[c] = "ended" => sock = "closed" /\ reader = "done"

CloseInv == TypeOK /\ ReleasedWhenEnded /\
    \A c \in Closers : closer[c] \in {"returned", "raised"} => release[c] = "ended"

(* A closed socket stays closed and a finished reader stays finished.      *)
LEMMA ClosedForGood ==
    ASSUME [Next]_vars
    PROVE  /\ sock = "closed" => sock' = "closed"
           /\ sock = "closed" /\ reader = "done" => reader' = "done"
<1> USE DEF peerVars, lifeVars
<1>1. CASE Peer
  BY <1>1 DEF Peer, PeerStep, AcceptSubscribe, Refuse, HandleUnsubscribe, Notify, Duplicate,
              Corrupt, RemoteClose, SocketClosed
<1>2. CASE Call
  BY <1>2 DEF Call, Subscribe, Unsubscribe, BeginRequest, LockGranted, LockRefused, Write, Sent,
              SendFailed, CancelRequest, Return, Timeout, CancelWait, EndWait
<1>3. CASE Read
  BY <1>3 DEF Read, ReaderStart, DispatchSubscribed, DispatchAnswer, DispatchStray, Enqueue,
              OverflowDropOldest, OverflowDropNewest, OverflowRaise, TakeNotification, ReadFatal,
              ReadAfterClose, ReaderEOF, TakeFrame
<1>4. CASE Recv
  BY <1>4 DEF Recv, RecvTake, RecvRaise, RecvBlock, RecvCancel
<1>5. CASE Connect
  BY <1>5 DEF Connect, ConnectBegin, ConnectFail, ConnectOk
<1>6. CASE Close
  BY <1>6 DEF Close, CloseBegin, ReleaseBegin, ReleaseEnd, CloseReturn, CloseCancel
<1>7. CASE UNCHANGED vars
  BY <1>7 DEF vars
<1>8. QED BY <1>1, <1>2, <1>3, <1>4, <1>5, <1>6, <1>7 DEF Next

(* Only close() and its release tasks move closer and release.             *)
LEMMA CloserStep ==
    ASSUME [Next]_vars
    PROVE  Close \/ UNCHANGED <<closer, release>>
<1> USE DEF lifeVars
<1>1. CASE Peer \/ UNCHANGED vars
  BY <1>1 DEF Peer, vars
<1>2. CASE Call
  BY <1>2 DEF Call, Subscribe, Unsubscribe, BeginRequest, LockGranted, LockRefused, Write, Sent,
              SendFailed, CancelRequest, Return, Timeout, CancelWait, EndWait
<1>3. CASE Read
  BY <1>3 DEF Read, ReaderStart, DispatchSubscribed, DispatchAnswer, DispatchStray, Enqueue,
              OverflowDropOldest, OverflowDropNewest, OverflowRaise, TakeNotification, ReadFatal,
              ReadAfterClose, ReaderEOF
<1>4. CASE Recv \/ Connect
  BY <1>4 DEF Recv, RecvTake, RecvRaise, RecvBlock, RecvCancel, Connect, ConnectBegin,
              ConnectFail, ConnectOk
<1>5. QED BY <1>1, <1>2, <1>3, <1>4 DEF Next

LEMMA CloseInvStep ==
    ASSUME CloseInv, TypeOK', [Next]_vars
    PROVE  CloseInv'
<1> USE DEF CloseInv, TypeOK, ReleasedWhenEnded
<1>1. CASE UNCHANGED <<closer, release>>
  BY <1>1, ClosedForGood
<1>2. ASSUME NEW c \in Closers, NEW e \in {"local_close", "user_error"}, CloseBegin(c, e)
      PROVE  CloseInv'
  BY <1>2, ClosedForGood DEF CloseBegin
<1>3. ASSUME NEW c \in Closers, ReleaseBegin(c) PROVE CloseInv'
  BY <1>3, ClosedForGood DEF ReleaseBegin
<1>4. ASSUME NEW c \in Closers, ReleaseEnd(c) PROVE CloseInv'
  BY <1>4, ClosedForGood DEF ReleaseEnd, peerVars
<1>5. ASSUME NEW c \in Closers, CloseReturn(c) PROVE CloseInv'
  BY <1>5, ClosedForGood DEF CloseReturn
<1>6. ASSUME NEW c \in Closers, CloseCancel(c) PROVE CloseInv'
  BY <1>6, ClosedForGood, SMTT(20) DEF CloseCancel
<1>7. QED BY <1>1, <1>2, <1>3, <1>4, <1>5, <1>6, CloserStep DEF Close

(* A close() that awaited the release returns, normally or with its first  *)
(* cancellation, only after the socket is closed and the reader has ended, *)
(* for any number of concurrent close() calls.                             *)
THEOREM CloseIsRelease == Spec => []CloseReleased
<1>1. Init /\ TypeOK => CloseInv
  BY DEF Init, CloseInv, ReleasedWhenEnded
<1>2. CloseInv /\ TypeOK' /\ [Next]_vars => CloseInv'
  BY CloseInvStep
<1>3. CloseInv => CloseReleased
  BY DEF CloseInv, ReleasedWhenEnded, CloseReleased
<1>4. QED BY <1>1, <1>2, <1>3, TypeCorrect, PTL DEF Spec
=============================================================================
