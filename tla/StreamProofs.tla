---------------------------- MODULE StreamProofs ----------------------------
(***************************************************************************)
(* The notification stream of SolanaWsClient, for every queue size, every  *)
(* overflow policy and any number of notifications: what the receiver gets *)
(* is the node's stream, in order, each notification once, and the losses  *)
(* are the ones the policy counts.                                         *)
(***************************************************************************)
EXTENDS SolanaWsClientProofs

USE PeerAssumption, ClientAssumption DEF PeerAssumption, ClientAssumption

(* The notifications on the wire: their places in toClient.                *)
Notes == {i \in 1..Len(toClient) : toClient[i].type \in {"note", "final"}}

(* While no cause is recorded, the notifications on the wire are the ones  *)
(* that follow the last one dispatched, in order and without a gap, and    *)
(* until the socket closes they reach to the last one sent.                *)
WireAfter == arrived <= notes /\ \A i \in Notes : arrived < toClient[i].n /\ toClient[i].n <= notes

WireOrdered == \A i, j \in Notes : i < j => toClient[i].n < toClient[j].n

WireGapless ==
    \A i \in Notes :
        toClient[i].n # arrived + 1 => \E j \in Notes : j < i /\ toClient[j].n + 1 = toClient[i].n

WireToTheLast ==
    sock \in {"none", "handshake", "open"} /\ notes # arrived =>
        \E i \in Notes : toClient[i].n = notes

WireInv == closedExc = NoExc => WireAfter /\ WireOrdered /\ WireGapless /\ WireToTheLast

LEMMA NotesType ==
    ASSUME TypeOK
    PROVE  /\ toClient \in Seq(Frame) /\ Len(toClient) \in Nat
           /\ notes \in Nat /\ arrived \in Nat
           /\ \A i \in 1..Len(toClient) : toClient[i] \in Frame /\ toClient[i].n \in Nat
<1>1. toClient \in Seq(Frame)
  BY DEF TypeOK, PeerTypeOK
<1>2. \A i \in 1..Len(toClient) : toClient[i] \in Frame
  BY <1>1, ElementOfSeq
<1>3. QED BY <1>1, <1>2, LenProperties, SMTT(20) DEF TypeOK, PeerTypeOK, Frame

(* The wire is left alone.                                                 *)
LEMMA WireKept ==
    ASSUME WireInv, UNCHANGED <<toClient, notes, arrived>>,
           closedExc' = NoExc => closedExc = NoExc,
           sock' \in {"none", "handshake", "open"} => sock \in {"none", "handshake", "open"}
    PROVE  WireInv'
<1>1. Notes' = Notes
  BY DEF Notes
<1>2. QED BY <1>1 DEF WireInv, WireAfter, WireOrdered, WireGapless, WireToTheLast

Sends(f) == toClient' = Append(toClient, f)

(* The node sends a frame that is no notification.                         *)
LEMMA WireAnswer ==
    ASSUME TypeOK, WireInv, NEW f \in Frame, f.type \notin {"note", "final"},
           Sends(f), UNCHANGED <<closedExc, sock, notes, arrived>>
    PROVE  WireInv'
<1>1. /\ Len(toClient') = Len(toClient) + 1
      /\ \A i \in 1..Len(toClient) : toClient'[i] = toClient[i]
      /\ toClient'[Len(toClient) + 1] = f
  BY AppendProperties, NotesType DEF Sends
<1>2. Notes' = Notes /\ \A i \in Notes : toClient'[i] = toClient[i]
  BY <1>1, NotesType DEF Notes
<1>3. QED BY <1>2 DEF WireInv, WireAfter, WireOrdered, WireGapless, WireToTheLast

(* The node sends the next notification.                                   *)
LEMMA WireNote ==
    ASSUME TypeOK, WireInv, NEW f \in Frame, f.type \in {"note", "final"}, f.n = notes + 1,
           Sends(f), notes' = notes + 1, sock = "open", UNCHANGED <<closedExc, sock, arrived>>
    PROVE  WireInv'
<1> DEFINE last == Len(toClient) + 1
<1>1. /\ Len(toClient') = last
      /\ \A i \in 1..Len(toClient) : toClient'[i] = toClient[i]
      /\ toClient'[last] = f
  BY AppendProperties, NotesType DEF Sends
<1>2. Notes' = Notes \cup {last} /\ \A i \in Notes : i < last /\ toClient'[i] = toClient[i]
  BY <1>1, NotesType DEF Notes
<1>3. \A i \in Notes : i \in Nat /\ toClient[i].n \in Nat
  BY NotesType DEF Notes
<1>4. last \in Nat /\ notes \in Nat /\ arrived \in Nat /\ toClient'[last].n = notes + 1
  BY <1>1, NotesType
<1> SUFFICES ASSUME closedExc = NoExc
             PROVE  WireAfter' /\ WireOrdered' /\ WireGapless' /\ WireToTheLast'
  BY DEF WireInv
<1> HIDE DEF last
<1>5. WireAfter'
  BY <1>2, <1>3, <1>4 DEF WireInv, WireAfter
<1>6. WireOrdered'
  BY <1>2, <1>3, <1>4 DEF WireInv, WireAfter, WireOrdered
<1>7. WireGapless'
  <2>1. CASE notes = arrived
    BY <2>1, <1>2, <1>3, <1>4 DEF WireInv, WireGapless
  <2>2. CASE notes # arrived
    <3>1. PICK j \in Notes : toClient[j].n = notes
      BY <2>2 DEF WireInv, WireToTheLast
    <3>2. QED BY <3>1, <1>2, <1>3, <1>4 DEF WireInv, WireGapless
  <2>3. QED BY <2>1, <2>2
<1>8. WireToTheLast'
  BY <1>2, <1>4 DEF WireToTheLast
<1>9. QED BY <1>5, <1>6, <1>7, <1>8

(* A close loses a suffix of the frames.                                   *)
LEMMA WirePrefix ==
    ASSUME TypeOK, WireInv, NEW k \in 0..Len(toClient), toClient' = SubSeq(toClient, 1, k),
           sock' = "closed", UNCHANGED <<closedExc, notes, arrived>>
    PROVE  WireInv'
<1>1. Len(toClient') = k /\ \A i \in 1..k : toClient'[i] = toClient[i]
  BY SubSeqProperties, NotesType
<1>2. /\ Notes' \subseteq Notes
      /\ \A i \in Notes' : toClient'[i] = toClient[i]
      /\ \A i \in Notes' : \A j \in Notes : j < i => j \in Notes'
  BY <1>1, NotesType DEF Notes
<1>3. QED BY <1>2 DEF WireInv, WireAfter, WireOrdered, WireGapless, WireToTheLast

(* The reader takes the first frame; a notification is the next one.       *)
LEMMA NextNote ==
    ASSUME TypeOK, WireInv, TakeNotification
    PROVE  frame.n = arrived + 1
<1>1. 1 \in Notes /\ toClient[1] = frame
  BY NotesType, EmptySeq DEF TakeNotification, TakeFrame, Notes, frame
<1>2. \A j \in Notes : ~(j < 1)
  BY NotesType DEF Notes
<1>3. QED BY <1>1, <1>2 DEF WireInv, WireGapless, TakeNotification, CanDispatch

LEMMA WireTaken ==
    ASSUME TypeOK, WireInv, TakeFrame, UNCHANGED closedExc,
           arrived' = IF frame.type \in {"note", "final"} THEN frame.n ELSE arrived
    PROVE  WireInv'
<1> SUFFICES ASSUME closedExc = NoExc
             PROVE  WireAfter' /\ WireOrdered' /\ WireGapless' /\ WireToTheLast'
  BY DEF WireInv
<1>1. toClient # <<>> /\ toClient' = Tail(toClient) /\ notes' = notes /\ sock' = sock
  BY DEF TakeFrame
<1>2. /\ Len(toClient') = Len(toClient) - 1
      /\ \A i \in 1..Len(toClient') : toClient'[i] = toClient[i + 1]
  BY <1>1, HeadTailProperties, NotesType
<1>3. frame = toClient[1] /\ 1 \in 1..Len(toClient)
  BY <1>1, NotesType, EmptySeq DEF frame
<1>4. /\ \A i \in Notes' : i \in Nat \ {0} /\ i + 1 \in Notes /\ toClient'[i] = toClient[i + 1]
      /\ \A i \in Notes : i \in Nat \ {0}
      /\ \A i \in Notes : i # 1 => i - 1 \in Notes' /\ toClient'[i - 1] = toClient[i]
  <2>1. \A i \in 1..Len(toClient') : i + 1 \in 1..Len(toClient)
    BY <1>2, NotesType
  <2>2. \A i \in 1..Len(toClient) : i # 1 => i - 1 \in 1..Len(toClient') /\ (i - 1) + 1 = i
    BY <1>2, NotesType
  <2>3. \A i \in 1..Len(toClient) : i # 1 => toClient'[i - 1] = toClient[i]
    BY <1>2, <2>2
  <2>4. QED BY <1>2, <2>1, <2>2, <2>3, NotesType DEF Notes
<1>5. \A i \in Notes : toClient[i].n \in Nat
  BY NotesType DEF Notes
<1>6. CASE frame.type \in {"note", "final"}
  <2>1. 1 \in Notes /\ arrived' = toClient[1].n
    BY <1>3, <1>6 DEF Notes
  <2>2. \A i \in Notes' : toClient[1].n < toClient[i + 1].n
    BY <2>1, <1>4 DEF WireInv, WireOrdered
  <2>3. WireAfter'
    BY <1>1, <1>4, <1>5, <2>1, <2>2 DEF WireInv, WireAfter
  <2>4. WireOrdered'
    BY <1>4 DEF WireInv, WireOrdered
  <2>5. WireGapless'
    <3> SUFFICES ASSUME NEW i \in Notes', toClient'[i].n # arrived' + 1
                 PROVE  \E j \in Notes' : j < i /\ toClient'[j].n + 1 = toClient'[i].n
      BY DEF WireGapless
    <3>1. i + 1 \in Notes /\ toClient[i + 1].n # arrived + 1
      BY <1>4, <1>5, <2>1, <2>2, NotesType DEF WireInv, WireAfter
    <3>2. PICK j \in Notes : j < i + 1 /\ toClient[j].n + 1 = toClient[i + 1].n
      BY <3>1 DEF WireInv, WireGapless
    <3>3. j # 1
      BY <3>2, <2>1, <1>4
    <3>4. j - 1 \in Notes' /\ j - 1 < i /\ toClient'[j - 1] = toClient[j]
      BY <3>2, <3>3, <1>4
    <3>5. QED BY <3>2, <3>4, <1>4
  <2>6. WireToTheLast'
    <3> SUFFICES ASSUME sock' \in {"none", "handshake", "open"}, notes' # arrived'
                 PROVE  \E i \in Notes' : toClient'[i].n = notes'
      BY DEF WireToTheLast
    <3>1. notes # arrived
      BY <1>5, <2>1, NotesType DEF WireInv, WireAfter
    <3>2. PICK i \in Notes : toClient[i].n = notes
      BY <1>1, <3>1 DEF WireInv, WireToTheLast
    <3>3. i # 1
      BY <1>1, <2>1, <3>2
    <3>4. QED BY <1>1, <1>4, <3>2, <3>3
  <2>7. QED BY <2>3, <2>4, <2>5, <2>6
<1>7. CASE frame.type \notin {"note", "final"}
  <2>1. 1 \notin Notes /\ arrived' = arrived
    BY <1>3, <1>7 DEF Notes
  <2>2. WireAfter' /\ WireOrdered'
    <3>1. WireAfter'
      BY <1>1, <1>4, <2>1 DEF WireInv, WireAfter
    <3>2. WireOrdered'
      BY <1>4 DEF WireInv, WireOrdered
    <3>3. QED BY <3>1, <3>2
  <2>3. WireGapless'
    <3> SUFFICES ASSUME NEW i \in Notes', toClient'[i].n # arrived' + 1
                 PROVE  \E j \in Notes' : j < i /\ toClient'[j].n + 1 = toClient'[i].n
      BY DEF WireGapless
    <3>1. PICK j \in Notes : j < i + 1 /\ toClient[j].n + 1 = toClient[i + 1].n
      BY <1>4, <2>1 DEF WireInv, WireGapless
    <3>2. j - 1 \in Notes' /\ j - 1 < i /\ toClient'[j - 1] = toClient[j]
      BY <3>1, <2>1, <1>4
    <3>3. QED BY <3>1, <3>2, <1>4
  <2>4. WireToTheLast'
    <3> SUFFICES ASSUME sock' \in {"none", "handshake", "open"}, notes' # arrived'
                 PROVE  \E i \in Notes' : toClient'[i].n = notes'
      BY DEF WireToTheLast
    <3>1. PICK i \in Notes : toClient[i].n = notes
      BY <1>1, <2>1 DEF WireInv, WireToTheLast
    <3>2. i - 1 \in Notes' /\ toClient'[i - 1] = toClient[i]
      BY <3>1, <2>1, <1>4
    <3>3. QED BY <1>1, <3>1, <3>2
  <2>5. QED BY <2>2, <2>3, <2>4
<1>8. QED BY <1>6, <1>7

LEMMA WirePeer ==
    ASSUME TypeOK, WireInv, Peer
    PROVE  WireInv'
<1>1. UNCHANGED <<closedExc, arrived>>
  BY DEF Peer, lifeVars, streamVars
<1>2. ASSUME NEW m \in toServer, AcceptSubscribe(m) \/ Refuse(m) \/ HandleUnsubscribe(m)
      PROVE  WireInv'
  <2>1. m.id \in Requests /\ m.sid \in 0..MaxSubs
    BY DEF TypeOK, PeerTypeOK, Message
  <2>2. \A t \in Answers, x \in 0..MaxSubs : Answer(t, m.id, x) \in Frame
    BY <2>1 DEF Answer, Frame, FrameTypes, Requests
  <2>3. \A t \in Answers, x \in 0..MaxSubs : Answer(t, m.id, x).type \notin {"note", "final"}
    BY DEF Answer, Answers
  <2>4. \E t \in Answers, x \in 0..MaxSubs : Sends(Answer(t, m.id, x))
    BY <1>2, <2>1, ZeroInRange
    DEF Sends, AcceptSubscribe, Refuse, HandleUnsubscribe, Answers, SubIds
  <2>5. UNCHANGED <<sock, notes>>
    BY <1>2 DEF AcceptSubscribe, Refuse, HandleUnsubscribe
  <2>6. QED BY <1>1, <2>2, <2>3, <2>4, <2>5, WireAnswer
<1>3. ASSUME NEW s \in SubIds, Notify(s) PROVE WireInv'
  <2>1. notes' = notes + 1 /\ notes + 1 \in 0..MaxNotes /\ sock = "open" /\ sock' = sock
    BY <1>3 DEF Notify, TypeOK, PeerTypeOK
  <2>2. \A t \in {"note", "final"} : Stream(t, s, notes + 1) \in Frame
    BY <2>1 DEF Stream, Frame, FrameTypes, SubIds
  <2>3. \A t \in {"note", "final"} :
            /\ Stream(t, s, notes + 1).type \in {"note", "final"}
            /\ Stream(t, s, notes + 1).n = notes + 1
    BY DEF Stream
  <2>4. \E t \in {"note", "final"} : Sends(Stream(t, s, notes + 1))
    BY <1>3 DEF Notify, Sends
  <2>5. QED BY <1>1, <2>1, <2>2, <2>3, <2>4, WireNote
<1>4. CASE Duplicate
  <2>1. PICK i \in DOMAIN toClient :
            toClient[i].type \in Answers /\ Sends(toClient[i])
    BY <1>4 DEF Duplicate, Sends
  <2>2. toClient[i] \in Frame /\ toClient[i].type \notin {"note", "final"}
    BY <2>1, NotesType, LenProperties DEF Answers
  <2>3. QED BY <1>1, <1>4, <2>1, <2>2, WireAnswer DEF Duplicate
<1>5. CASE Corrupt
  <2>1. BadFrame \in Frame /\ BadFrame.type \notin {"note", "final"}
    BY DEF BadFrame, Frame, FrameTypes
  <2>2. QED BY <1>1, <1>5, <2>1, WireAnswer DEF Corrupt, Sends
<1>6. CASE RemoteClose
  BY <1>1, <1>6, WirePrefix DEF RemoteClose
<1>7. CASE SocketClosed
  <2>1. Notes' = {}
    BY <1>7 DEF SocketClosed, Notes
  <2>2. QED
    BY <1>1, <1>7, <2>1
    DEF SocketClosed, WireInv, WireAfter, WireOrdered, WireGapless, WireToTheLast
<1>8. QED
  BY <1>2, <1>3, <1>4, <1>5, <1>6, <1>7 DEF Peer, PeerStep

(* Only the reader takes frames and dispatches notifications, and nobody   *)
(* opens a socket again.                                                   *)
LEMMA WireRead ==
    ASSUME TypeOK, WireInv, Read
    PROVE  WireInv'
<1> USE DEF streamVars, lifeVars
<1>1. CASE DispatchSubscribed \/ DispatchAnswer \/ DispatchStray
  <2>1. TakeFrame /\ frame.type \notin {"note", "final"} /\ UNCHANGED <<arrived, closedExc>>
    BY <1>1 DEF DispatchSubscribed, DispatchAnswer, DispatchStray, Answers
  <2>2. QED BY <2>1, WireTaken
<1>2. CASE Enqueue \/ OverflowDropOldest \/ OverflowDropNewest
  <2>1. TakeFrame /\ frame.type \in {"note", "final"} /\ arrived' = frame.n /\ UNCHANGED closedExc
    BY <1>2 DEF Enqueue, OverflowDropOldest, OverflowDropNewest, TakeNotification
  <2>2. QED BY <2>1, WireTaken
<1>3. CASE OverflowRaise \/ ReadFatal
  <2>1. closedExc' # NoExc
    BY <1>3, CausesAreClosures
    DEF OverflowRaise, ReadFatal, TakeNotification, Abandon, FirstCause, Causes
  <2>2. QED BY <2>1 DEF WireInv
<1>4. CASE ReadAfterClose
  BY <1>4 DEF ReadAfterClose, CanDispatch, WireInv
<1>5. CASE ReaderEOF
  <2>1. closedExc' # NoExc
    BY <1>5, CausesAreClosures DEF ReaderEOF, Abandon, FirstCause, Causes
  <2>2. QED BY <2>1 DEF WireInv
<1>6. CASE ReaderStart
  BY <1>6, WireKept DEF ReaderStart, peerVars
<1>7. QED BY <1>1, <1>2, <1>3, <1>4, <1>5, <1>6 DEF Read

LEMMA WireOther ==
    ASSUME WireInv, Call \/ Recv \/ Connect \/ Close \/ UNCHANGED vars
    PROVE  WireInv'
<1> USE DEF peerVars, streamVars
<1>1. closedExc' = NoExc => closedExc = NoExc
  BY CauseStep, CausesAreClosures DEF Next, Abandon, FirstCause
<1>2. CASE Call
  <2>1. UNCHANGED <<sock, toClient, notes, arrived>>
    BY <1>2 DEF Call, Subscribe, Unsubscribe, BeginRequest, LockGranted, LockRefused, Write, Sent,
                SendFailed, CancelRequest, Return, Timeout, CancelWait, EndWait
  <2>2. QED BY <1>1, <2>1, WireKept
<1>3. CASE Recv \/ UNCHANGED vars
  <2>1. UNCHANGED <<sock, toClient, notes, arrived>>
    BY <1>3 DEF Recv, RecvTake, RecvRaise, RecvBlock, RecvCancel, vars
  <2>2. QED BY <1>1, <2>1, WireKept
<1>4. CASE Connect
  <2>1. UNCHANGED <<toClient, notes, arrived>> /\ sock \in {"none", "handshake"}
    BY <1>4 DEF Connect, ConnectBegin, ConnectFail, ConnectOk
  <2>2. QED BY <1>1, <2>1, WireKept
<1>5. CASE Close
  <2>1. UNCHANGED <<toClient, notes, arrived>> /\ (sock' = sock \/ sock' = "closing")
    BY <1>5 DEF Close, CloseBegin, ReleaseBegin, ReleaseEnd, CloseReturn, CloseCancel
  <2>2. QED BY <1>1, <2>1, WireKept
<1>6. QED BY <1>2, <1>3, <1>4, <1>5

LEMMA WireInvariant == Spec => []WireInv
<1>1. Init => WireInv
  <2>1. Init => Notes = {} /\ arrived = 0 /\ notes = 0
    BY DEF Init, PeerInit, Notes
  <2>2. QED BY <2>1 DEF WireInv, WireAfter, WireOrdered, WireGapless, WireToTheLast
<1>2. TypeOK /\ WireInv /\ [Next]_vars => WireInv'
  BY WirePeer, WireRead, WireOther DEF Next
<1>3. QED BY <1>1, <1>2, TypeCorrect, PTL DEF Spec

----------------------------------------------------------------------------
(* What delivered and queue hold, by number: strictly increasing, the      *)
(* delivered ones before the queued ones, none beyond the last one that    *)
(* arrived; the i-th queued one has at least Len(queue) - i after it.      *)
Ordered ==
    /\ \A i, j \in 1..Len(delivered) : i < j => delivered[i] < delivered[j]
    /\ \A i, j \in 1..Len(queue) : i < j => queue[i] < queue[j]
    /\ \A i \in 1..Len(delivered) : \A j \in 1..Len(queue) : delivered[i] < queue[j]

Bounded ==
    /\ \A i \in 1..Len(delivered) : delivered[i] <= arrived
    /\ \A i \in 1..Len(queue) : 0 < queue[i] /\ queue[i] <= arrived - Len(queue) + i
    /\ Len(queue) <= QueueSize

Counted == Len(delivered) + Len(queue) + dropped = arrived

NothingLost ==
    /\ dropped = 0
    /\ \A i \in 1..Len(delivered) : delivered[i] = i
    /\ \A i \in 1..Len(queue) : queue[i] = Len(delivered) + i

Latest == \A i \in 1..Len(queue) : queue[i] = arrived - Len(queue) + i

StreamInv ==
    /\ Ordered /\ Bounded /\ Counted
    /\ overflow = "raise" => NothingLost
    /\ overflow = "drop_oldest" => Latest

(* Only the reader, on a notification, and the receiver move the stream.   *)
LEMMA StreamMoves ==
    ASSUME [Next]_vars
    PROVE  \/ Enqueue \/ OverflowDropOldest \/ OverflowDropNewest \/ RecvTake
           \/ UNCHANGED <<overflow, queue, delivered, dropped, arrived>>
<1> USE DEF streamVars
<1>1. CASE Peer \/ UNCHANGED vars
  BY <1>1 DEF Peer, vars
<1>2. CASE Call
  BY <1>2 DEF Call, Subscribe, Unsubscribe, BeginRequest, LockGranted, LockRefused, Write, Sent,
              SendFailed, CancelRequest, Return, Timeout, CancelWait, EndWait
<1>3. CASE Read
  BY <1>3 DEF Read, ReaderStart, DispatchSubscribed, DispatchAnswer, DispatchStray, OverflowRaise,
              TakeNotification, ReadFatal, ReadAfterClose, ReaderEOF
<1>4. CASE Recv
  BY <1>4 DEF Recv, RecvRaise, RecvBlock, RecvCancel
<1>5. CASE Connect \/ Close
  BY <1>5 DEF Connect, ConnectBegin, ConnectFail, ConnectOk, Close, CloseBegin, ReleaseBegin,
              ReleaseEnd, CloseReturn, CloseCancel
<1>6. QED BY <1>1, <1>2, <1>3, <1>4, <1>5 DEF Next

LEMMA StreamType ==
    ASSUME TypeOK
    PROVE  /\ queue \in Seq(0..MaxNotes) /\ Len(queue) \in Nat
           /\ delivered \in Seq(0..MaxNotes) /\ Len(delivered) \in Nat
           /\ \A i \in 1..Len(queue) : queue[i] \in Nat
           /\ \A i \in 1..Len(delivered) : delivered[i] \in Nat
           /\ dropped \in Nat /\ arrived \in Nat /\ QueueSize \in Nat \ {0}
<1>1. queue \in Seq(0..MaxNotes) /\ delivered \in Seq(0..MaxNotes)
  BY DEF TypeOK
<1>2. /\ \A i \in 1..Len(queue) : queue[i] \in 0..MaxNotes
      /\ \A i \in 1..Len(delivered) : delivered[i] \in 0..MaxNotes
  BY <1>1, ElementOfSeq
<1>3. Len(queue) \in Nat /\ Len(delivered) \in Nat
  BY <1>1, LenProperties
<1>4. QED BY <1>1, <1>2, <1>3 DEF TypeOK

(* The reader appends the next notification, or puts it in the place of    *)
(* the oldest, or drops it; the receiver takes the first.                  *)
LEMMA EnqueueKeeps ==
    ASSUME TypeOK, WireInv, StreamInv, Enqueue
    PROVE  StreamInv'
<1> DEFINE last == Len(queue) + 1
<1>1. /\ arrived' = arrived + 1 /\ frame.n = arrived + 1
      /\ UNCHANGED <<overflow, delivered, dropped>>
      /\ queue' = Append(queue, frame.n)
  BY NextNote DEF Enqueue, TakeNotification
<1>2. frame.n \in 0..MaxNotes
  BY TakeFrameType DEF Enqueue, TakeNotification, Frame
<1>3. /\ Len(queue') = last
      /\ \A i \in 1..Len(queue) : queue'[i] = queue[i]
      /\ queue'[last] = arrived + 1
  BY <1>1, <1>2, StreamType, AppendProperties
<1>4. last \in Nat /\ last <= QueueSize
  BY StreamType DEF Enqueue, Full
<1>5. Len(queue) = last - 1 /\ \A i \in 1..last : i # last => i \in 1..Len(queue)
  BY StreamType
<1> HIDE DEF last
<1>6. Ordered'
  <2>1. \A i, j \in 1..Len(queue') : i < j => queue'[i] < queue'[j]
    <3>1. \A i \in 1..Len(queue) : queue[i] < arrived + 1
      BY StreamType DEF StreamInv, Bounded
    <3>2. QED BY <1>3, <1>4, <1>5, <3>1, StreamType DEF StreamInv, Ordered
  <2>2. ASSUME NEW i \in 1..Len(delivered), NEW j \in 1..last
        PROVE  delivered[i] < queue'[j]
    <3>1. CASE j = last
      <4>1. delivered[i] <= arrived /\ delivered[i] \in Nat
        BY StreamType DEF StreamInv, Bounded
      <4>2. QED BY <1>3, <3>1, <4>1, StreamType
    <3>2. CASE j # last
      BY <1>3, <1>5, <3>2 DEF StreamInv, Ordered
    <3>3. QED BY <3>1, <3>2
  <2>3. QED BY <1>1, <1>3, <2>1, <2>2 DEF StreamInv, Ordered
<1>7. Bounded'
  <2>1. \A i \in 1..Len(delivered) : delivered[i] <= arrived + 1
    BY StreamType DEF StreamInv, Bounded
  <2>2. ASSUME NEW i \in 1..last
        PROVE  0 < queue'[i] /\ queue'[i] <= (arrived + 1) - last + i
    <3>1. CASE i = last
      BY <1>3, <1>4, <3>1, StreamType
    <3>2. CASE i # last
      <4>1. i \in 1..Len(queue) /\ queue'[i] = queue[i] /\ queue[i] \in Nat
        BY <1>3, <1>5, <3>2, StreamType
      <4>2. 0 < queue[i] /\ queue[i] <= arrived - Len(queue) + i
        BY <4>1 DEF StreamInv, Bounded
      <4>3. QED BY <1>4, <1>5, <4>1, <4>2, StreamType
    <3>3. QED BY <3>1, <3>2
  <2>3. QED BY <1>1, <1>3, <1>4, <2>1, <2>2 DEF Bounded
<1>8. Counted'
  BY <1>1, <1>3, <1>5, StreamType DEF StreamInv, Counted
<1>9. overflow' = "raise" => NothingLost'
  <2> SUFFICES ASSUME overflow = "raise" PROVE NothingLost'
    BY <1>1
  <2>1. arrived + 1 = Len(delivered) + last
    BY <1>4, <1>5, StreamType DEF StreamInv, Counted, NothingLost
  <2>2. \A i \in 1..last : queue'[i] = Len(delivered) + i
    BY <1>3, <1>5, <2>1 DEF StreamInv, NothingLost
  <2>3. QED BY <1>1, <1>3, <2>2 DEF StreamInv, NothingLost
<1>10. overflow' = "drop_oldest" => Latest'
  BY <1>1, <1>3, <1>4, <1>5, StreamType, SMTT(20) DEF StreamInv, Latest
<1>11. QED BY <1>6, <1>7, <1>8, <1>9, <1>10 DEF StreamInv

LEMMA DropOldestKeeps ==
    ASSUME TypeOK, WireInv, StreamInv, OverflowDropOldest
    PROVE  StreamInv'
<1> DEFINE last == Len(queue)
<1>1. /\ arrived' = arrived + 1 /\ frame.n = arrived + 1 /\ dropped' = dropped + 1
      /\ UNCHANGED <<overflow, delivered>> /\ overflow = "drop_oldest"
      /\ queue' = Append(Tail(queue), frame.n)
  BY NextNote DEF OverflowDropOldest, TakeNotification, Discarded, Displaced
<1>2. frame.n \in 0..MaxNotes
  BY TakeFrameType DEF OverflowDropOldest, TakeNotification, Frame
<1>3. last \in Nat \ {0} /\ queue # <<>>
  BY StreamType DEF OverflowDropOldest, Full
<1>4. /\ Tail(queue) \in Seq(0..MaxNotes) /\ Len(Tail(queue)) = last - 1
      /\ \A i \in 1..(last - 1) : Tail(queue)[i] = queue[i + 1]
  BY <1>3, StreamType, HeadTailProperties
<1> HIDE DEF last
<1>5. /\ Len(queue') = last
      /\ \A i \in 1..(last - 1) : queue'[i] = queue[i + 1]
      /\ queue'[last] = arrived + 1
  BY <1>1, <1>2, <1>3, <1>4, AppendProperties
<1>6. Len(queue) = last /\ \A i \in 1..last : i # last => i \in 1..(last - 1) /\ i + 1 \in 1..last
  BY <1>3 DEF last
<1>7. \A i \in 1..last : queue[i] \in Nat /\ 0 < queue[i] /\ queue[i] <= arrived
  <2>1. ASSUME NEW i \in 1..last PROVE queue[i] \in Nat /\ 0 < queue[i] /\ queue[i] <= arrived - last + i
    BY <1>6, StreamType DEF StreamInv, Bounded
  <2>2. QED BY <1>3, <2>1, StreamType
<1>8. Ordered'
  <2>1. ASSUME NEW i \in 1..last, NEW j \in 1..last, i < j PROVE queue'[i] < queue'[j]
    <3>1. queue'[i] = queue[i + 1] /\ i + 1 \in 1..last
      BY <1>3, <1>5, <2>1
    <3>2. CASE j = last
      BY <1>5, <1>7, <3>1, <3>2, StreamType
    <3>3. CASE j # last
      BY <1>5, <1>6, <2>1, <3>1, <3>3 DEF StreamInv, Ordered
    <3>4. QED BY <3>2, <3>3
  <2>2. ASSUME NEW i \in 1..Len(delivered), NEW j \in 1..last PROVE delivered[i] < queue'[j]
    <3>1. CASE j = last
      <4>1. delivered[i] <= arrived /\ delivered[i] \in Nat
        BY StreamType DEF StreamInv, Bounded
      <4>2. QED BY <1>5, <3>1, <4>1, StreamType
    <3>2. CASE j # last
      BY <1>5, <1>6, <3>2 DEF StreamInv, Ordered
    <3>3. QED BY <3>1, <3>2
  <2>3. QED BY <1>1, <1>5, <2>1, <2>2 DEF StreamInv, Ordered
<1>9. Latest'
  <2>1. ASSUME NEW i \in 1..last PROVE queue'[i] = (arrived + 1) - last + i
    <3>1. CASE i = last
      BY <1>3, <1>5, <3>1, StreamType
    <3>2. CASE i # last
      <4>1. queue'[i] = queue[i + 1] /\ queue[i + 1] = arrived - last + (i + 1)
        BY <1>1, <1>5, <1>6, <3>2 DEF StreamInv, Latest
      <4>2. QED BY <1>3, <4>1, StreamType
    <3>3. QED BY <3>1, <3>2
  <2>2. QED BY <1>1, <1>5, <2>1 DEF Latest
<1>10. Bounded'
  <2>1. \A i \in 1..Len(delivered) : delivered[i] <= arrived + 1
    BY StreamType DEF StreamInv, Bounded
  <2>2. ASSUME NEW i \in 1..last PROVE 0 < queue'[i]
    <3>1. CASE i = last
      BY <1>5, <3>1, StreamType
    <3>2. CASE i # last
      BY <1>5, <1>6, <1>7, <3>2
    <3>3. QED BY <3>1, <3>2
  <2>3. ASSUME NEW i \in 1..last PROVE queue'[i] <= (arrived + 1) - last + i
    <3>1. queue'[i] = (arrived + 1) - last + i
      BY <1>1, <1>5, <1>9 DEF Latest
    <3>2. (arrived + 1) - last + i \in Int
      BY <1>3, StreamType
    <3>3. QED BY <3>1, <3>2
  <2>4. QED BY <1>1, <1>5, <1>6, <2>1, <2>2, <2>3 DEF Bounded, StreamInv
<1>11. Counted'
  <2>1. Len(delivered) + last + dropped = arrived
    BY <1>6 DEF StreamInv, Counted
  <2>2. Len(delivered) + last + (dropped + 1) = arrived + 1
    BY <1>3, <2>1, StreamType
  <2>3. QED BY <1>1, <1>5, <2>2 DEF Counted
<1>12. QED BY <1>1, <1>8, <1>9, <1>10, <1>11 DEF StreamInv

LEMMA DropNewestKeeps ==
    ASSUME TypeOK, WireInv, StreamInv, OverflowDropNewest
    PROVE  StreamInv'
<1>1. /\ arrived' = arrived + 1 /\ dropped' = dropped + 1
      /\ UNCHANGED <<overflow, delivered, queue>> /\ overflow = "drop_newest"
  BY NextNote DEF OverflowDropNewest, TakeNotification, Discarded
<1>2. Ordered'
  BY <1>1 DEF StreamInv, Ordered
<1>3. Bounded'
  <2>1. \A i \in 1..Len(delivered) : delivered[i] <= arrived + 1
    BY StreamType DEF StreamInv, Bounded
  <2>2. \A i \in 1..Len(queue) : 0 < queue[i] /\ queue[i] <= (arrived + 1) - Len(queue) + i
    BY StreamType, SMTT(20) DEF StreamInv, Bounded
  <2>3. QED BY <1>1, <2>1, <2>2 DEF StreamInv, Bounded
<1>4. Counted'
  BY <1>1, StreamType DEF StreamInv, Counted
<1>5. QED BY <1>1, <1>2, <1>3, <1>4 DEF StreamInv

LEMMA RecvTakeKeeps ==
    ASSUME TypeOK, StreamInv, RecvTake
    PROVE  StreamInv'
<1> DEFINE last == Len(queue)
<1> DEFINE end == Len(delivered) + 1
<1>1. /\ UNCHANGED <<overflow, dropped, arrived>>
      /\ delivered' = Append(delivered, Head(queue)) /\ queue' = Tail(queue) /\ queue # <<>>
  BY DEF RecvTake
<1>2. last \in Nat \ {0} /\ end \in Nat \ {0} /\ Len(delivered) = end - 1 /\ 1 \in 1..last
  BY <1>1, StreamType, EmptySeq
<1>3. Head(queue) = queue[1] /\ Head(queue) \in 0..MaxNotes /\ Head(queue) \in Nat
  BY <1>1, StreamType, HeadTailProperties
<1>4. /\ Len(queue') = last - 1
      /\ \A i \in 1..(last - 1) : queue'[i] = queue[i + 1] /\ i + 1 \in 1..last
  BY <1>1, <1>2, StreamType, HeadTailProperties
<1>5. /\ Len(delivered') = end /\ delivered'[end] = queue[1]
      /\ \A i \in 1..end : i # end => i \in 1..Len(delivered) /\ delivered'[i] = delivered[i]
  BY <1>1, <1>2, <1>3, StreamType, AppendProperties, SMTT(20)
<1>6. Len(queue) = last
  OBVIOUS
<1> HIDE DEF last, end
<1>7. Ordered'
  <2>1. ASSUME NEW i \in 1..end, NEW j \in 1..end, i < j PROVE delivered'[i] < delivered'[j]
    <3>1. i # end
      BY <1>2, <2>1
    <3>2. CASE j = end
      BY <1>2, <1>5, <1>6, <3>1, <3>2 DEF StreamInv, Ordered
    <3>3. CASE j # end
      BY <1>5, <2>1, <3>1, <3>3 DEF StreamInv, Ordered
    <3>4. QED BY <3>2, <3>3
  <2>2. ASSUME NEW i \in 1..(last - 1), NEW j \in 1..(last - 1), i < j PROVE queue'[i] < queue'[j]
    <3>1. i + 1 < j + 1
      BY <1>2, <2>2
    <3>2. QED BY <1>4, <1>6, <3>1 DEF StreamInv, Ordered
  <2>3. ASSUME NEW i \in 1..end, NEW j \in 1..(last - 1) PROVE delivered'[i] < queue'[j]
    <3>1. CASE i = end
      <4>1. 1 < j + 1
        BY <1>2
      <4>2. QED BY <1>2, <1>4, <1>5, <1>6, <3>1, <4>1 DEF StreamInv, Ordered
    <3>2. CASE i # end
      BY <1>4, <1>5, <1>6, <3>2 DEF StreamInv, Ordered
    <3>3. QED BY <3>1, <3>2
  <2>4. QED BY <1>4, <1>5, <2>1, <2>2, <2>3 DEF Ordered
<1>8. Bounded'
  <2>1. \A i \in 1..last : queue[i] \in Nat /\ 0 < queue[i] /\ queue[i] <= arrived - last + i
    BY <1>6, StreamType DEF StreamInv, Bounded
  <2>2. queue[1] <= arrived
    BY <1>2, <2>1, StreamType
  <2>3. \A i \in 1..end : delivered'[i] <= arrived
    BY <1>5, <2>2 DEF StreamInv, Bounded
  <2>4. ASSUME NEW i \in 1..(last - 1)
        PROVE  0 < queue'[i] /\ queue'[i] <= arrived - (last - 1) + i
    <3>1. /\ queue'[i] = queue[i + 1] /\ queue'[i] \in Nat
          /\ 0 < queue'[i] /\ queue'[i] <= arrived - last + (i + 1)
      BY <1>4, <2>1
    <3>2. arrived - last + (i + 1) = arrived - (last - 1) + i
      BY <1>2, StreamType
    <3>3. QED BY <3>1, <3>2
  <2>5. last - 1 <= QueueSize
    BY <1>2, <1>6, StreamType DEF StreamInv, Bounded
  <2>6. QED BY <1>1, <1>4, <1>5, <2>3, <2>4, <2>5 DEF Bounded
<1>9. Counted'
  <2>1. (end - 1) + last + dropped = arrived
    BY <1>2, <1>6 DEF StreamInv, Counted
  <2>2. end + (last - 1) + dropped = arrived
    BY <1>2, <2>1, StreamType
  <2>3. QED BY <1>1, <1>4, <1>5, <2>2 DEF Counted
<1>10. overflow' = "raise" => NothingLost'
  <2> SUFFICES ASSUME overflow = "raise" PROVE NothingLost'
    BY <1>1
  <2>1. queue[1] = end
    BY <1>2, <1>6 DEF StreamInv, NothingLost
  <2>2. \A i \in 1..end : delivered'[i] = i
    BY <1>5, <2>1 DEF StreamInv, NothingLost
  <2>3. ASSUME NEW i \in 1..(last - 1) PROVE queue'[i] = end + i
    <3>1. queue'[i] = (end - 1) + (i + 1)
      BY <1>2, <1>4, <1>6 DEF StreamInv, NothingLost
    <3>2. QED BY <1>2, <3>1
  <2>4. QED BY <1>1, <1>4, <1>5, <2>2, <2>3 DEF StreamInv, NothingLost
<1>11. overflow' = "drop_oldest" => Latest'
  <2> SUFFICES ASSUME overflow = "drop_oldest" PROVE Latest'
    BY <1>1
  <2>1. ASSUME NEW i \in 1..(last - 1) PROVE queue'[i] = arrived - (last - 1) + i
    <3>1. queue'[i] = arrived - last + (i + 1)
      BY <1>4, <1>6 DEF StreamInv, Latest
    <3>2. QED BY <1>2, <3>1, StreamType
  <2>2. QED BY <1>1, <1>4, <2>1 DEF Latest
<1>12. QED BY <1>7, <1>8, <1>9, <1>10, <1>11 DEF StreamInv

LEMMA StreamInvariant == Spec => []StreamInv
<1>1. Init => StreamInv
  <2>1. Init => Len(queue) = 0 /\ Len(delivered) = 0 /\ arrived = 0 /\ dropped = 0
    BY EmptySeq DEF Init
  <2>2. QED
    BY <2>1 DEF StreamInv, Ordered, Bounded, Counted, NothingLost, Latest
<1>2. TypeOK /\ WireInv /\ StreamInv /\ [Next]_vars => StreamInv'
  <2> SUFFICES ASSUME TypeOK, WireInv, StreamInv, [Next]_vars PROVE StreamInv'
    OBVIOUS
  <2>1. CASE UNCHANGED <<overflow, queue, delivered, dropped, arrived>>
    BY <2>1 DEF StreamInv, Ordered, Bounded, Counted, NothingLost, Latest
  <2>2. QED
    BY <2>1, StreamMoves, EnqueueKeeps, DropOldestKeeps, DropNewestKeeps, RecvTakeKeeps
<1>3. QED BY <1>1, <1>2, TypeCorrect, WireInvariant, PTL DEF Spec

(* Where the numbers of the two sequences are in delivered \o queue.       *)
LEMMA StreamAt ==
    ASSUME TypeOK
    PROVE  LET d == Len(delivered)
               q == Len(queue)
               stream == delivered \o queue
           IN  /\ stream \in [1..(d + q) -> 0..MaxNotes]
               /\ Len(stream) = d + q
               /\ \A i \in 1..(d + q) :
                     \/ i <= d /\ i \in 1..d /\ stream[i] = delivered[i]
                     \/ d < i /\ i - d \in 1..q /\ stream[i] = queue[i - d]
<1> DEFINE d == Len(delivered)
<1> DEFINE q == Len(queue)
<1> DEFINE stream == delivered \o queue
<1>1. /\ stream \in Seq(0..MaxNotes) /\ Len(stream) = d + q
      /\ \A i \in 1..(d + q) : stream[i] = IF i <= d THEN delivered[i] ELSE queue[i - d]
  BY StreamType, ConcatProperties
<1>2. stream \in [1..(d + q) -> 0..MaxNotes]
  BY <1>1, LenProperties
<1>3. d \in Nat /\ q \in Nat
  BY StreamType
<1> HIDE DEF d, q, stream
<1>4. ASSUME NEW i \in 1..(d + q)
      PROVE  \/ i <= d /\ i \in 1..d /\ stream[i] = delivered[i]
             \/ d < i /\ i - d \in 1..q /\ stream[i] = queue[i - d]
  <2>1. CASE i <= d
    BY <1>1, <1>3, <2>1
  <2>2. CASE ~(i <= d)
    <3>1. d < i /\ i - d \in 1..q
      BY <1>3, <2>2
    <3>2. QED BY <1>1, <2>2, <3>1
  <2>3. QED BY <2>1, <2>2
<1>5. QED BY <1>1, <1>2, <1>4 DEF d, q, stream

(* Whatever the policy, the receiver gets the node's notifications in the  *)
(* node's order, none twice, and every notification that arrived is        *)
(* delivered, queued or counted by dropped_notifications.                  *)
THEOREM StreamIsConserved == Spec => []StreamConserved
<1>1. TypeOK /\ StreamInv => StreamConserved
  <2> SUFFICES ASSUME TypeOK, StreamInv PROVE StreamConserved
    OBVIOUS
  <2> DEFINE d == Len(delivered)
  <2> DEFINE q == Len(queue)
  <2> DEFINE stream == delivered \o queue
  <2>1. /\ DOMAIN stream = 1..(d + q) /\ Len(stream) = d + q
        /\ \A i \in 1..(d + q) : \/ i <= d /\ i \in 1..d /\ stream[i] = delivered[i]
                                 \/ d < i /\ i - d \in 1..q /\ stream[i] = queue[i - d]
    BY StreamAt
  <2>2. d \in Nat /\ q \in Nat
    BY StreamType
  <2>3. /\ \A i, j \in 1..d : i < j => delivered[i] < delivered[j]
        /\ \A i, j \in 1..q : i < j => queue[i] < queue[j]
        /\ \A i \in 1..d : \A j \in 1..q : delivered[i] < queue[j]
        /\ d + q + dropped = arrived
    BY DEF StreamInv, Ordered, Counted
  <2> HIDE DEF d, q, stream
  <2>4. ASSUME NEW i \in 1..(d + q), NEW j \in 1..(d + q), i < j PROVE stream[i] < stream[j]
    <3>1. CASE i <= d /\ i \in 1..d /\ stream[i] = delivered[i]
      <4>1. CASE j <= d /\ j \in 1..d /\ stream[j] = delivered[j]
        BY <2>3, <2>4, <3>1, <4>1
      <4>2. CASE d < j /\ j - d \in 1..q /\ stream[j] = queue[j - d]
        BY <2>3, <3>1, <4>2
      <4>3. QED BY <2>1, <4>1, <4>2
    <3>2. CASE d < i /\ i - d \in 1..q /\ stream[i] = queue[i - d]
      <4>1. j - d \in 1..q /\ i - d < j - d /\ stream[j] = queue[j - d]
        BY <2>1, <2>2, <2>4, <3>2
      <4>2. QED BY <2>3, <3>2, <4>1
    <3>3. QED BY <2>1, <3>1, <3>2
  <2>5. QED BY <2>1, <2>3, <2>4 DEF StreamConserved, stream
<1>2. QED BY <1>1, TypeCorrect, StreamInvariant, PTL

(* Under RAISE nothing is lost before the connection is: the receiver's    *)
(* stream is the first notifications without a gap.                        *)
THEOREM RaiseLeavesNoGap == Spec => []NoGapUnderRaise
<1>1. TypeOK /\ StreamInv => NoGapUnderRaise
  <2> SUFFICES ASSUME TypeOK, StreamInv, overflow = "raise"
               PROVE  delivered \o queue = [i \in 1..arrived |-> i]
    BY DEF NoGapUnderRaise
  <2> DEFINE d == Len(delivered)
  <2> DEFINE q == Len(queue)
  <2> DEFINE stream == delivered \o queue
  <2>1. /\ stream \in [1..(d + q) -> 0..MaxNotes]
        /\ \A i \in 1..(d + q) : \/ i <= d /\ i \in 1..d /\ stream[i] = delivered[i]
                                 \/ d < i /\ i - d \in 1..q /\ stream[i] = queue[i - d]
    BY StreamAt
  <2>2. d \in Nat /\ q \in Nat /\ arrived = d + q
    BY StreamType DEF StreamInv, NothingLost, Counted
  <2>3. /\ \A i \in 1..d : delivered[i] = i
        /\ \A i \in 1..q : queue[i] = d + i
    BY DEF StreamInv, NothingLost
  <2> HIDE DEF d, q, stream
  <2>4. ASSUME NEW i \in 1..(d + q) PROVE stream[i] = i
    <3>1. CASE d < i /\ i - d \in 1..q /\ stream[i] = queue[i - d]
      <4>1. stream[i] = d + (i - d)
        BY <2>3, <3>1
      <4>2. QED BY <2>2, <4>1
    <3>2. QED BY <2>1, <2>3, <3>1
  <2>5. stream = [i \in 1..arrived |-> i]
    BY <2>1, <2>2, <2>4
  <2>6. QED BY <2>5 DEF stream
<1>2. QED BY <1>1, TypeCorrect, StreamInvariant, PTL

(* Under DROP_OLDEST the queue is the latest notifications without a gap.  *)
THEOREM OldestAreDropped == Spec => []FreshestKept
<1>1. TypeOK /\ StreamInv => FreshestKept
  BY StreamType, LenProperties DEF StreamInv, Latest, FreshestKept
<1>2. QED BY <1>1, TypeCorrect, StreamInvariant, PTL

----------------------------------------------------------------------------
(* The refinement.  What the abstract receiver knows as the number of      *)
(* unread notifications is the length of the queue.                        *)
LEMMA UnreadIsQueue ==
    ASSUME TypeOK, StreamInv
    PROVE  Receiver!Unread = Len(queue) /\ (Receiver!Behind <=> Full)
BY StreamType DEF StreamInv, Counted, Receiver!Unread, Receiver!Behind, Full

(* What recv() hands out is a number the abstract receiver may get.        *)
LEMMA TakeIsDeliver ==
    ASSUME TypeOK, RecvInv, StreamInv, RecvTake
    PROVE  Receiver!Deliver
<1>1. /\ queue # <<>> /\ delivered' = Append(delivered, Head(queue))
      /\ UNCHANGED <<overflow, arrived, dropped, closedExc, reported>>
  BY DEF RecvTake, lifeVars
<1>2. ~reported
  BY <1>1 DEF RecvInv, ReportedWhenDrained
<1>3. Len(queue) \in Nat \ {0} /\ 1 \in 1..Len(queue) /\ Head(queue) = queue[1] /\ queue[1] \in Nat
  BY <1>1, StreamType, EmptySeq
<1>4. 0 < queue[1] /\ queue[1] <= arrived - Len(queue) + 1
  BY <1>3 DEF StreamInv, Bounded
<1>5. overflow = "drop_oldest" => queue[1] = arrived - Len(queue) + 1
  BY <1>3 DEF StreamInv, Latest
<1>6. Receiver!Last \in Nat /\ Receiver!Last < queue[1]
  <2>1. CASE delivered = <<>>
    BY <1>3, <1>4, <2>1 DEF Receiver!Last
  <2>2. CASE delivered # <<>>
    <3>1. Len(delivered) \in 1..Len(delivered)
      BY <2>2, StreamType, EmptySeq
    <3>2. QED BY <1>3, <2>2, <3>1, StreamType DEF Receiver!Last, StreamInv, Ordered
  <2>3. QED BY <2>1, <2>2
<1>7. queue[1] \in (Receiver!Last + 1)..(arrived - Len(queue) + 1)
  BY <1>3, <1>4, <1>6, StreamType
<1>8. Receiver!Unread = Len(queue) /\ Len(queue) > 0
  BY <1>3, UnreadIsQueue
<1>9. QED
  BY <1>1, <1>2, <1>3, <1>5, <1>7, <1>8 DEF Receiver!Deliver

(* Only recv() reports the closure.                                        *)
LEMMA ReportStep ==
    ASSUME [Next]_vars
    PROVE  RecvRaise \/ UNCHANGED reported
<1> USE DEF streamVars
<1>1. CASE Peer \/ UNCHANGED vars
  BY <1>1 DEF Peer, vars
<1>2. CASE Call
  BY <1>2 DEF Call, Subscribe, Unsubscribe, BeginRequest, LockGranted, LockRefused, Write, Sent,
              SendFailed, CancelRequest, Return, Timeout, CancelWait, EndWait
<1>3. CASE Read
  BY <1>3 DEF Read, ReaderStart, DispatchSubscribed, DispatchAnswer, DispatchStray, Enqueue,
              OverflowDropOldest, OverflowDropNewest, OverflowRaise, TakeNotification, ReadFatal,
              ReadAfterClose, ReaderEOF
<1>4. CASE Recv
  BY <1>4 DEF Recv, RecvTake, RecvBlock, RecvCancel
<1>5. CASE Connect \/ Close
  BY <1>5 DEF Connect, ConnectBegin, ConnectFail, ConnectOk, Close, CloseBegin, ReleaseBegin,
              ReleaseEnd, CloseReturn, CloseCancel
<1>6. QED BY <1>1, <1>2, <1>3, <1>4, <1>5 DEF Next

LEMMA ReceiverStep ==
    ASSUME TypeOK, WireInv, RecvInv, StreamInv, [Next]_vars
    PROVE  [Receiver!Next]_<<overflow, arrived, delivered, dropped, closedExc # NoExc, reported>>
<1>1. CASE Enqueue
  <2>1. /\ closedExc = NoExc /\ ~Full /\ arrived' = arrived + 1
        /\ UNCHANGED <<overflow, delivered, dropped, closedExc, reported>>
    BY <1>1, NextNote DEF Enqueue, TakeNotification, CanDispatch
  <2>2. Receiver!Accept
    BY <2>1, UnreadIsQueue DEF Receiver!Accept
  <2>3. QED BY <2>2 DEF Receiver!Next
<1>2. CASE OverflowDropOldest \/ OverflowDropNewest
  <2>1. /\ closedExc = NoExc /\ Full /\ overflow # "raise"
        /\ arrived' = arrived + 1 /\ dropped' = dropped + 1
        /\ UNCHANGED <<overflow, delivered, closedExc, reported>>
    BY <1>2, NextNote
    DEF OverflowDropOldest, OverflowDropNewest, Discarded, TakeNotification, CanDispatch
  <2>2. Receiver!AcceptWithLoss
    BY <2>1, UnreadIsQueue DEF Receiver!AcceptWithLoss
  <2>3. QED BY <2>2 DEF Receiver!Next
<1>3. CASE RecvTake
  BY <1>3, TakeIsDeliver DEF Receiver!Next
<1>4. CASE RecvRaise
  <2>1. /\ queue = <<>> /\ closedExc # NoExc /\ reported' = TRUE
        /\ UNCHANGED <<overflow, arrived, delivered, dropped, closedExc>>
    BY <1>4 DEF RecvRaise, ClosureDue, lifeVars
  <2>2. Receiver!Unread = 0
    BY <2>1, UnreadIsQueue, EmptySeq
  <2>3. Receiver!Tell
    BY <2>1, <2>2 DEF Receiver!Tell
  <2>4. QED BY <2>3 DEF Receiver!Next
<1>5. CASE UNCHANGED <<overflow, queue, delivered, dropped, arrived, reported>>
  <2>1. closedExc' = closedExc \/ closedExc' # NoExc
    BY CauseStep, CausesAreClosures DEF Abandon, FirstCause
  <2>2. CASE closedExc' = closedExc
    BY <1>5, <2>2
  <2>3. CASE closedExc' # NoExc
    <3>1. Receiver!End
      BY <1>5, <2>3 DEF Receiver!End
    <3>2. QED BY <3>1 DEF Receiver!Next
  <2>4. QED BY <2>1, <2>2, <2>3
<1>6. QED
  BY <1>1, <1>2, <1>3, <1>4, <1>5, StreamMoves, ReportStep

(* The queue, its limit and its policies implement the stream the receiver *)
(* is promised: nothing is lost while fewer than notification_queue_size   *)
(* notifications are unread, and the closure comes after the rest.         *)
THEOREM StreamIsKept == Spec => StreamKept
<1>1. Init => Receiver!Init
  BY DEF Init, Receiver!Init, OverflowPolicy
<1>2. QED
  BY <1>1, ReceiverStep, TypeCorrect, WireInvariant, RecvInvariant, StreamInvariant, PTL
  DEF Spec, StreamKept, Receiver!Spec, Receiver!streamVars
=============================================================================
