------------------------- MODULE StoreQueue_proofs -------------------------
(***************************************************************************)
(* Proofs about StoreQueue, for every set of calls, every capacity of the  *)
(* channel and every set of faults.                                        *)
(*                                                                         *)
(* The inductive invariant IInv says where an accepted event is            *)
(* (EventsInv), that writing what is still to be written keeps the order   *)
(* (OrderInv), and how far Close and the writer goroutine have come        *)
(* together (CloseInv).                                                    *)
(***************************************************************************)
EXTENDS StoreQueue, TLAPS

\* Exactly the accepted events are in the channel, with the writer, in the
\* chain, or lost.
EventsInv ==
  /\ Accepted = Range(queue) \cup held \cup Range(written) \cup lost
  /\ \A c \in Calls : earlier[c] \subseteq Accepted

\* c comes before d: d's Append had not returned when c's began.
Before(c, d) == c # d /\ d \notin earlier[c]

\* The chain, the event the writer holds and the channel, one after the other,
\* are in order.
OrderInv ==
  /\ \A i, j \in DOMAIN written : i < j => Before(written[i], written[j])
  /\ \A c \in Range(written) : \A d \in held \cup Range(queue) : Before(c, d)
  /\ \A c \in held : \A d \in Range(queue) : Before(c, d)
  /\ \A i, j \in DOMAIN queue : i < j => Before(queue[i], queue[j])

\* The writer holds one event at a time; it only leaves when Close has closed
\* the channel and the channel is empty, and then reports every error; Close
\* only goes on when the writer has left.
CloseInv ==
  /\ \A c, d \in held : c = d
  /\ lost # {} => writeErr # "none"
  /\ writer = "exited" => /\ queueClosed
                          /\ queue = <<>>
                          /\ held = {}
                          /\ ~closeErr => writeErr = "none"
  /\ closer \in {"drained", "returned"} => writer = "exited"

IInv == TypeOK /\ EventsInv /\ OrderInv /\ CloseInv

-----------------------------------------------------------------------------
(* Sequences.                                                              *)

LEMMA RangeOfAppend ==
  ASSUME NEW S, NEW s \in Seq(S), NEW x \in S
  PROVE  /\ Append(s, x) \in Seq(S)
         /\ DOMAIN s = 1 .. Len(s)
         /\ DOMAIN Append(s, x) = 1 .. Len(s) + 1
         /\ \A i \in 1 .. Len(s) : Append(s, x)[i] = s[i]
         /\ Append(s, x)[Len(s) + 1] = x
         /\ Range(Append(s, x)) = Range(s) \cup {x}
<1>1. /\ Append(s, x) \in Seq(S)
      /\ DOMAIN s = 1 .. Len(s)
      /\ DOMAIN Append(s, x) = 1 .. Len(s) + 1
      /\ \A i \in 1 .. Len(s) : Append(s, x)[i] = s[i]
      /\ Append(s, x)[Len(s) + 1] = x
      /\ Len(s) \in Nat
  OBVIOUS
<1>2. 1 .. Len(s) + 1 = (1 .. Len(s)) \cup {Len(s) + 1}
  BY <1>1
<1> QED
  BY <1>1, <1>2 DEF Range

LEMMA RangeOfTail ==
  ASSUME NEW S, NEW s \in Seq(S), s # <<>>
  PROVE  /\ Head(s) \in S
         /\ Tail(s) \in Seq(S)
         /\ Len(Tail(s)) = Len(s) - 1
         /\ DOMAIN s = 1 .. Len(s)
         /\ DOMAIN Tail(s) = 1 .. Len(s) - 1
         /\ \A i \in 1 .. Len(s) - 1 : Tail(s)[i] = s[i + 1]
         /\ Range(s) = {Head(s)} \cup Range(Tail(s))
<1>1. /\ Head(s) = s[1]
      /\ Head(s) \in S
      /\ Tail(s) \in Seq(S)
      /\ Len(Tail(s)) = Len(s) - 1
      /\ DOMAIN s = 1 .. Len(s)
      /\ DOMAIN Tail(s) = 1 .. Len(s) - 1
      /\ \A i \in 1 .. Len(s) - 1 : Tail(s)[i] = s[i + 1]
      /\ Len(s) \in Nat \ {0}
  OBVIOUS
<1>2. \A y \in Range(s) : y \in {Head(s)} \cup Range(Tail(s))
  <2> TAKE y \in Range(s)
  <2>1. PICK i \in 1 .. Len(s) : y = s[i]
    BY <1>1 DEF Range
  <2>2. CASE i = 1
    BY <1>1, <2>1, <2>2
  <2>3. CASE i # 1
    <3>1. i - 1 \in 1 .. Len(s) - 1 /\ (i - 1) + 1 = i
      BY <1>1, <2>3
    <3>2. Tail(s)[i - 1] = y
      BY <1>1, <2>1, <3>1
    <3> QED
      BY <1>1, <3>1, <3>2 DEF Range
  <2> QED
    BY <2>2, <2>3
<1>3. \A y \in Range(Tail(s)) : y \in Range(s)
  <2> TAKE y \in Range(Tail(s))
  <2>1. PICK i \in 1 .. Len(s) - 1 : y = Tail(s)[i]
    BY <1>1 DEF Range
  <2>2. i + 1 \in 1 .. Len(s) /\ s[i + 1] = y
    BY <1>1, <2>1
  <2> QED
    BY <1>1, <2>2 DEF Range
<1>4. Head(s) \in Range(s)
  BY <1>1 DEF Range
<1> QED
  BY <1>1, <1>2, <1>3, <1>4

-----------------------------------------------------------------------------
(* IInv is inductive.                                                      *)

LEMMA InitHolds == Init => IInv
<1> SUFFICES ASSUME Init
             PROVE  IInv
  OBVIOUS
<1>1. TypeOK
  <2>1. call \in [Calls -> CallPcs] /\ earlier \in [Calls -> SUBSET Calls]
    BY DEF Init, CallPcs
  <2>2. <<>> \in Seq(Calls) /\ Len(<<>>) = 0 /\ 0 <= QueueDepth
    BY QueueDepthAssumption
  <2> QED
    BY <2>1, <2>2 DEF Init, TypeOK, Errors
<1>2. Accepted = {} /\ Range(queue) = {} /\ Range(written) = {}
  BY DEF Init, Accepted, Range
<1>3. EventsInv
  BY <1>2 DEF Init, EventsInv
<1>4. OrderInv
  BY <1>2 DEF Init, OrderInv
<1>5. CloseInv
  BY DEF Init, CloseInv
<1> QED
  BY <1>1, <1>3, <1>4, <1>5 DEF IInv

\* A step of a call that puts nothing on the channel.
LEMMA CallKeeps ==
  ASSUME IInv, NEW c \in Calls,
         CheckClosed(c) \/ CheckErr(c) \/ SendRefused(c) \/ SendPanics(c) \/ Report(c),
         UNCHANGED alive
  PROVE  IInv' /\ Accepted' = Accepted
<1> USE DEF IInv
<1>1. /\ UNCHANGED <<queue, writerVars, closeVars>>
      /\ call' \in [Calls -> CallPcs]
      /\ earlier' \in [Calls -> SUBSET Calls]
  BY DEF TypeOK, CallPcs, Ended, CheckClosed, CheckErr, SendRefused, SendPanics,
     Report, Move, Accepted
<1>2. Accepted' = Accepted
  BY DEF Accepted, CheckClosed, CheckErr, SendRefused, SendPanics, Report, Move, TypeOK
<1>3. \A d \in Accepted : earlier'[d] = earlier[d]
  BY DEF CheckClosed, CheckErr, SendRefused, SendPanics, Report, Accepted, TypeOK
<1>4. \A d \in Calls : earlier'[d] \subseteq Accepted
  BY DEF CheckClosed, CheckErr, SendRefused, SendPanics, Report, EventsInv, TypeOK
<1>5. TypeOK'
  BY <1>1 DEF TypeOK, writerVars, closeVars
<1>6. EventsInv'
  BY <1>1, <1>2, <1>4 DEF EventsInv, writerVars
<1>7. OrderInv'
  <2>1. /\ \A i \in DOMAIN written : written[i] \in Accepted
        /\ \A i \in DOMAIN queue : queue[i] \in Accepted
        /\ Range(written) \subseteq Accepted
        /\ held \subseteq Accepted
    BY DEF EventsInv, Range
  <2>2. \A d \in Accepted : \A e : Before(d, e) => Before(d, e)'
    BY <1>3 DEF Before
  <2> QED
    BY <1>1, <2>1, <2>2 DEF OrderInv, writerVars
<1>8. CloseInv'
  BY <1>1 DEF CloseInv, writerVars, closeVars
<1> QED
  BY <1>2, <1>5, <1>6, <1>7, <1>8

LEMMA SendKeeps ==
  ASSUME IInv, NEW c \in Calls, Send(c), UNCHANGED alive
  PROVE  IInv'
<1> USE DEF IInv
<1>1. /\ queue' = Append(queue, c)
      /\ queue \in Seq(Calls)
      /\ Len(queue) < QueueDepth
      /\ ~queueClosed
      /\ UNCHANGED <<earlier, writerVars, closeVars>>
      /\ call' \in [Calls -> CallPcs]
      /\ c \notin Accepted
  BY DEF Send, Move, TypeOK, CallPcs, Ended, Accepted
<1>2. Accepted' = Accepted \cup {c}
  BY DEF Send, Move, Accepted, TypeOK
<1>3. /\ Range(queue)' = Range(queue) \cup {c}
      /\ DOMAIN queue = 1 .. Len(queue)
      /\ DOMAIN queue' = 1 .. Len(queue) + 1
      /\ \A i \in 1 .. Len(queue) : queue'[i] = queue[i]
      /\ queue'[Len(queue) + 1] = c
      /\ queue' \in Seq(Calls)
  BY <1>1, RangeOfAppend
<1>4. TypeOK'
  <2>1. Len(queue') <= QueueDepth
    BY <1>1, QueueDepthAssumption
  <2> QED
    BY <1>1, <1>3, <2>1 DEF TypeOK, writerVars, closeVars
<1>5. EventsInv'
  BY <1>1, <1>2, <1>3 DEF EventsInv, writerVars
<1>6. OrderInv'
  <2>1. \A d \in Accepted : Before(d, c)
    BY <1>1 DEF Before, EventsInv, Accepted
  <2>2. Range(written) \subseteq Accepted /\ held \subseteq Accepted
        /\ \A i \in DOMAIN queue : queue[i] \in Accepted
    BY DEF EventsInv, Range
  <2>3. \A d, e : Before(d, e)' = Before(d, e)
    BY <1>1 DEF Before
  <2>4. \A i, j \in DOMAIN queue' : i < j => Before(queue'[i], queue'[j])
    <3> SUFFICES ASSUME NEW i \in 1 .. Len(queue) + 1, NEW j \in 1 .. Len(queue) + 1, i < j
                 PROVE  Before(queue'[i], queue'[j])
      BY <1>3
    <3>1. i \in 1 .. Len(queue)
      BY <1>1
    <3>2. CASE j = Len(queue) + 1
      BY <1>3, <2>1, <2>2, <3>1, <3>2
    <3>3. CASE j # Len(queue) + 1
      <4>1. j \in 1 .. Len(queue)
        BY <1>1, <3>3
      <4> QED
        BY <1>3, <3>1, <4>1 DEF OrderInv
    <3> QED
      BY <3>2, <3>3
  <2>5. /\ \A x \in Range(written) : \A y \in held \cup Range(queue') : Before(x, y)
        /\ \A x \in held : \A y \in Range(queue') : Before(x, y)
    BY <1>3, <2>1, <2>2 DEF OrderInv
  <2> QED
    BY <1>1, <2>3, <2>4, <2>5 DEF OrderInv, writerVars
<1>7. CloseInv'
  BY <1>1 DEF CloseInv, writerVars, closeVars
<1> QED
  BY <1>4, <1>5, <1>6, <1>7

LEMMA ReceiveKeeps ==
  ASSUME IInv, Receive, UNCHANGED alive
  PROVE  IInv'
<1> USE DEF IInv
<1> DEFINE c == Head(queue)
<1>1. /\ queue # <<>> /\ queue \in Seq(Calls)
      /\ held = {} /\ held' = {c}
      /\ queue' = Tail(queue)
      /\ writer = "running"
      /\ UNCHANGED <<appendVars, writeErr, writer, closeErr, written, lost, closeVars>>
  BY DEF Receive, TypeOK
<1> HIDE DEF c
<1>2. /\ c \in Calls
      /\ queue' \in Seq(Calls)
      /\ Len(queue') = Len(queue) - 1
      /\ DOMAIN queue = 1 .. Len(queue)
      /\ DOMAIN queue' = 1 .. Len(queue) - 1
      /\ \A i \in 1 .. Len(queue) - 1 : queue'[i] = queue[i + 1]
      /\ Range(queue) = {c} \cup Range(queue')
      /\ queue[1] = c
      /\ Len(queue) \in Nat \ {0}
  BY <1>1, RangeOfTail DEF c
<1>3. TypeOK'
  BY <1>1, <1>2, QueueDepthAssumption DEF TypeOK, appendVars, closeVars
<1>4. EventsInv'
  BY <1>1, <1>2 DEF EventsInv, appendVars, Accepted
<1>5. OrderInv'
  <2>1. \A d, e : Before(d, e)' = Before(d, e)
    BY <1>1 DEF Before, appendVars
  <2>2. \A i, j \in DOMAIN queue' : i < j => Before(queue'[i], queue'[j])
    <3> SUFFICES ASSUME NEW i \in 1 .. Len(queue) - 1, NEW j \in 1 .. Len(queue) - 1, i < j
                 PROVE  Before(queue'[i], queue'[j])
      BY <1>2
    <3>1. i + 1 \in DOMAIN queue /\ j + 1 \in DOMAIN queue /\ i + 1 < j + 1
      BY <1>2
    <3> QED
      BY <1>2, <3>1 DEF OrderInv
  <2>3. \A y \in Range(queue') : Before(c, y)
    <3> TAKE y \in Range(queue')
    <3>1. PICK i \in 1 .. Len(queue) - 1 : y = queue'[i]
      BY <1>2 DEF Range
    <3>2. y = queue[i + 1] /\ i + 1 \in DOMAIN queue /\ 1 \in DOMAIN queue /\ 1 < i + 1
      BY <1>2, <3>1
    <3> QED
      BY <1>2, <3>2 DEF OrderInv
  <2>4. \A x \in Range(written) : \A y \in {c} \cup Range(queue') : Before(x, y)
    BY <1>2 DEF OrderInv
  <2> QED
    BY <1>1, <2>1, <2>2, <2>3, <2>4 DEF OrderInv
<1>6. CloseInv'
  BY <1>1 DEF CloseInv, closeVars
<1> QED
  BY <1>3, <1>4, <1>5, <1>6

LEMMA WriteKeeps ==
  ASSUME IInv, Write, UNCHANGED alive
  PROVE  IInv'
<1> USE DEF IInv
<1>1. PICK c \in held : written' = Append(written, c)
  BY DEF Write
<1>2. /\ held = {c} /\ held' = {} /\ c \in Calls
      /\ written \in Seq(Calls)
      /\ UNCHANGED <<appendVars, queue, writer, closeErr, lost, closeVars>>
      /\ writeErr' \in Errors
      /\ writeErr' = "none" => writeErr = "none"
      /\ writer = "running"
  BY DEF Write, SignFails, FirstErr, TypeOK, CloseInv, Errors
<1>3. /\ Range(written)' = Range(written) \cup {c}
      /\ DOMAIN written = 1 .. Len(written)
      /\ DOMAIN written' = 1 .. Len(written) + 1
      /\ \A i \in 1 .. Len(written) : written'[i] = written[i]
      /\ written'[Len(written) + 1] = c
      /\ written' \in Seq(Calls)
  BY <1>1, <1>2, RangeOfAppend
<1>4. TypeOK'
  BY <1>2, <1>3 DEF TypeOK, appendVars, closeVars
<1>5. EventsInv'
  BY <1>2, <1>3 DEF EventsInv, appendVars, Accepted
<1>6. OrderInv'
  <2>1. \A d, e : Before(d, e)' = Before(d, e)
    BY <1>2 DEF Before, appendVars
  <2>2. \A i, j \in DOMAIN written' : i < j => Before(written'[i], written'[j])
    <3> SUFFICES ASSUME NEW i \in 1 .. Len(written) + 1, NEW j \in 1 .. Len(written) + 1,
                        i < j
                 PROVE  Before(written'[i], written'[j])
      BY <1>3
    <3>1. i \in 1 .. Len(written) /\ written[i] \in Range(written)
      BY <1>2, <1>3 DEF Range
    <3>2. CASE j = Len(written) + 1
      BY <1>2, <1>3, <3>1, <3>2 DEF OrderInv
    <3>3. CASE j # Len(written) + 1
      <4>1. j \in 1 .. Len(written)
        BY <1>2, <3>3
      <4> QED
        BY <1>3, <3>1, <4>1 DEF OrderInv
    <3> QED
      BY <3>2, <3>3
  <2>3. \A x \in Range(written') : \A y \in Range(queue) : Before(x, y)
    BY <1>2, <1>3 DEF OrderInv
  <2> QED
    BY <1>2, <2>1, <2>2, <2>3 DEF OrderInv
<1>7. CloseInv'
  BY <1>2 DEF CloseInv, closeVars
<1> QED
  BY <1>4, <1>5, <1>6, <1>7

\* The other steps of the writer, all of Close, and a kill.
LEMMA OthersKeep ==
  ASSUME IInv, WriteFails \/ TimerFails \/ Shutdown \/ CloserStep \/ Kill,
         alive' \in BOOLEAN
  PROVE  IInv'
<1> USE DEF IInv
<1>1. /\ UNCHANGED <<call, earlier, queue, written>>
      /\ held' \cup lost' = held \cup lost
      /\ held' \subseteq held
      /\ writeErr' \in Errors /\ closeErr' \in BOOLEAN
      /\ writeErr' = "none" => writeErr = "none"
  BY DEF WriteFails, TimerFails, Shutdown, CloserStep, CloseFlag, CloseQueue, CloseDone,
     CloseReturn, Kill, SyncFails, SignFails, FirstErr, appendVars, writerVars, closeVars,
     TypeOK, Errors
<1>2. TypeOK'
  BY <1>1 DEF WriteFails, TimerFails, Shutdown, CloserStep, CloseFlag, CloseQueue,
     CloseDone, CloseReturn, Kill, appendVars, writerVars, closeVars, TypeOK
<1>3. EventsInv'
  BY <1>1 DEF EventsInv, Accepted
<1>4. OrderInv'
  BY <1>1 DEF OrderInv, Before
<1>5. CloseInv'
  <2>1. CASE WriteFails
    BY <2>1 DEF WriteFails, CloseInv, FirstErr, appendVars, closeVars
  <2>2. CASE TimerFails
    BY <2>2 DEF TimerFails, SyncFails, SignFails, CloseInv, FirstErr, appendVars, closeVars
  <2>3. CASE Shutdown
    BY <2>3 DEF Shutdown, SignFails, CloseInv, FirstErr, appendVars, closeVars
  <2>4. CASE CloserStep
    BY <2>4 DEF CloserStep, CloseFlag, CloseQueue, CloseDone, CloseReturn, CloseInv,
       appendVars, writerVars
  <2>5. CASE Kill
    BY <2>5 DEF Kill, CloseInv, appendVars, writerVars, closeVars
  <2> QED
    BY <2>1, <2>2, <2>3, <2>4, <2>5
<1> QED
  BY <1>2, <1>3, <1>4, <1>5

LEMMA NextKeeps == IInv /\ [Next]_vars => IInv'
<1> SUFFICES ASSUME IInv, [Next]_vars
             PROVE  IInv'
  OBVIOUS
<1>1. CASE Running /\ \E c \in Calls : CallStep(c)
  <2>1. PICK c \in Calls : CallStep(c) /\ UNCHANGED alive
    BY <1>1 DEF Running
  <2> QED
    BY <2>1, CallKeeps, SendKeeps DEF CallStep
<1>2. CASE Running /\ (WriterStep \/ TimerFails)
  <2>1. UNCHANGED alive /\ alive' \in BOOLEAN
    BY <1>2 DEF Running, IInv, TypeOK
  <2> QED
    BY <1>2, <2>1, ReceiveKeeps, WriteKeeps, OthersKeep DEF WriterStep
<1>3. CASE Running /\ CloserStep
  BY <1>3, OthersKeep DEF Running, IInv, TypeOK
<1>4. CASE Kill
  BY <1>4, OthersKeep DEF Kill
<1>5. CASE UNCHANGED vars
  BY <1>5 DEF vars, appendVars, writerVars, closeVars, IInv, TypeOK, EventsInv, Accepted,
     OrderInv, Before, CloseInv
<1> QED
  BY <1>1, <1>2, <1>3, <1>4, <1>5 DEF Next

\* The inductive invariant holds in every state of every process.
THEOREM QueueInvariance == Spec => []IInv
BY InitHolds, NextKeeps, PTL DEF Spec

-----------------------------------------------------------------------------

\* Types, and the channel never holds more than its capacity.
THEOREM QueueTypes == Spec => []TypeOK
<1>1. IInv => TypeOK
  BY DEF IInv
<1> QED
  BY <1>1, QueueInvariance, PTL

\* The chain has each event once and in an order that respects which Append
\* returned before which began.
THEOREM ChainFollowsCalls == Spec => []WrittenInCallOrder
<1>1. IInv => WrittenInCallOrder
  BY DEF IInv, OrderInv, Before, WrittenInCallOrder
<1> QED
  BY <1>1, QueueInvariance, PTL

\* When Close returns, the channel has been drained into the chain.
THEOREM CloseWritesAccepted == Spec => []AcceptedIsWritten
<1>1. IInv => AcceptedIsWritten
  <2> SUFFICES ASSUME IInv, closer = "returned"
               PROVE  Accepted \subseteq Range(written) \cup lost
    BY DEF AcceptedIsWritten
  <2>1. queue = <<>> /\ held = {}
    BY DEF IInv, CloseInv
  <2>2. Range(queue) = {}
    BY <2>1 DEF Range
  <2> QED
    BY <2>1, <2>2 DEF IInv, EventsInv
<1> QED
  BY <1>1, QueueInvariance, PTL

\* An accepted event that is missing from the chain shows in Err, and in the
\* result of Close.
THEOREM LossesAreReported == Spec => []LossIsReported
<1>1. IInv => LossIsReported
  <2> SUFFICES ASSUME IInv
               PROVE  LossIsReported
    OBVIOUS
  <2>1. lost # {} => writeErr # "none"
    BY DEF IInv, CloseInv
  <2>2. ASSUME closer = "returned", ~closeErr
        PROVE  Accepted \subseteq Range(written)
    <3>1. queue = <<>> /\ held = {} /\ lost = {}
      BY <2>2, <2>1 DEF IInv, CloseInv
    <3>2. Range(queue) = {}
      BY <3>1 DEF Range
    <3> QED
      BY <3>1, <3>2 DEF IInv, EventsInv
  <2> QED
    BY <2>1, <2>2 DEF LossIsReported
<1> QED
  BY <1>1, QueueInvariance, PTL

\* After Close has returned no call gets an event in and the writer writes
\* nothing, so whoever takes the writer lock next is alone.
THEOREM NothingHappensAfterClose == Spec => NothingAfterClose
<1>1. IInv /\ [Next]_vars
      => [closer = "returned" => UNCHANGED <<queue, held, written, Accepted>>]_vars
  <2> SUFFICES ASSUME IInv, Next, closer = "returned"
               PROVE  UNCHANGED <<queue, held, written, Accepted>>
    BY DEF vars
  <2>1. writer = "exited" /\ queueClosed /\ held = {}
    BY DEF IInv, CloseInv
  <2>2. CASE Running /\ \E c \in Calls : CallStep(c)
    <3>1. PICK c \in Calls : CallStep(c) /\ UNCHANGED alive
      BY <2>2 DEF Running
    <3>2. ~Send(c)
      BY <2>1 DEF Send
    <3>3. UNCHANGED <<queue, held, written>>
      BY <3>1, <3>2 DEF CallStep, CheckClosed, CheckErr, SendRefused, SendPanics, Report,
         writerVars
    <3> QED
      BY <3>1, <3>2, <3>3, CallKeeps DEF CallStep
  <2>3. CASE Running /\ (WriterStep \/ TimerFails)
    BY <2>1, <2>3 DEF WriterStep, Receive, Write, WriteFails, Shutdown, TimerFails
  <2>4. CASE (Running /\ CloserStep) \/ Kill
    BY <2>4 DEF CloserStep, CloseFlag, CloseQueue, CloseDone, CloseReturn, Kill,
       appendVars, writerVars, Accepted
  <2> QED
    BY <2>2, <2>3, <2>4 DEF Next
<1> QED
  BY <1>1, QueueInvariance, PTL DEF Spec, NothingAfterClose
=============================================================================
