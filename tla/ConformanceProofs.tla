--------------------------- MODULE ConformanceProofs ---------------------------
(***************************************************************************)
(* Proofs about the fixture server under any program of its owner: any     *)
(* number of calls of start() and stop(), of scenarios and of faults.      *)
(***************************************************************************)
EXTENDS Conformance, SequenceTheorems, TLAPS

\* The server starts with nothing served and nothing stopped.
LEMMA ServerStarts == ASSUME ServerInit PROVE ServerInv
<1>1. loops \in Seq(LoopStates) /\ Len(loops) = 0 /\ DOMAIN loops = {}
  BY DEF ServerInit
<1>2. thread = 0 /\ loops = <<>> /\ listening = TRUE /\ stopping = "no"
      /\ shutdown_request = FALSE /\ is_shut_down = FALSE
  BY DEF ServerInit
<1>3. ServerTypes
  <2>1. thread \in 0..Len(loops)
    BY <1>1, <1>2
  <2>2. shutdown_request \in BOOLEAN /\ is_shut_down \in BOOLEAN /\ listening \in BOOLEAN
    BY <1>2
  <2> QED
    BY <1>1, <1>2, <2>1, <2>2, Zenon DEF ServerTypes
<1>4. OneThread
  <2>1. Len(loops) <= 1
    BY <1>1
  <2> QED
    BY <1>2, <2>1 DEF OneThread
<1>5. SignalsTrue /\ StopProgress
  BY <1>2 DEF SignalsTrue, StopProgress
<1>6. StoppedIsSilent /\ ServesUntilStopped
  BY <1>1, <1>2 DEF StoppedIsSilent, ServesUntilStopped
<1> QED
  BY <1>3, <1>4, <1>5, <1>6 DEF ServerInv

\* The traffic and the scenarios are nothing to the invariant.
LEMMA ServerFramed == ASSUME ServerInv, UNCHANGED lifecycle PROVE ServerInv'
BY DEF lifecycle, ServerInv, ServerTypes, OneThread, SignalsTrue, StopProgress,
       StoppedIsSilent, ServesUntilStopped

\* What a thread of the server does to the list of them.
LEMMA LoopMoves ==
  ASSUME ServerTypes, NEW i \in DOMAIN loops, NEW from, NEW to \in LoopStates, At(i, from, to)
  PROVE  /\ i \in 1..Len(loops) /\ loops[i] = from
         /\ loops' \in Seq(LoopStates) /\ Len(loops') = Len(loops)
         /\ loops # <<>> /\ loops' # <<>>
         /\ DOMAIN loops = 1..Len(loops) /\ DOMAIN loops' = 1..Len(loops)
         /\ \A j \in DOMAIN loops : loops'[j] = IF j = i THEN to ELSE loops[j]
<1>1. loops \in Seq(LoopStates)
  BY DEF ServerTypes
<1>2. DOMAIN loops = 1..Len(loops) /\ Len(loops) \in Nat /\ loops # <<>>
  BY <1>1
<1>3. loops' = [loops EXCEPT ![i] = to] /\ loops[i] = from
  BY DEF At
<1>4. loops' \in Seq(LoopStates) /\ Len(loops') = Len(loops)
  BY <1>1, <1>2, <1>3, ExceptSeq
<1>5. DOMAIN loops' = 1..Len(loops) /\ loops' # <<>>
  BY <1>2, <1>4
<1>6. \A j \in DOMAIN loops : loops'[j] = IF j = i THEN to ELSE loops[j]
  BY <1>1, <1>2, <1>3
<1> QED
  BY <1>2, <1>3, <1>4, <1>5, <1>6

\* A step of serve_forever that leaves the flags and the socket alone: where
\* the thread gets is where the socket and stop() let it.
LEMMA LoopStep ==
  ASSUME ServerInv, NEW i \in DOMAIN loops, NEW from, NEW to \in LoopStates, At(i, from, to),
         from # "dead", to # "dead",
         UNCHANGED <<thread, listening, stopping>>,
         shutdown_request' \in BOOLEAN, shutdown_request' => shutdown_request,
         is_shut_down' \in BOOLEAN, is_shut_down' => is_shut_down,
         to \in Serving => listening,
         to \in {"leaving", "left"} => ~listening \/ stopping # "no"
  PROVE  ServerInv'
<1> USE DEF ServerInv
<1>1. /\ i \in 1..Len(loops) /\ loops[i] = from
      /\ loops' \in Seq(LoopStates) /\ Len(loops') = Len(loops)
      /\ loops # <<>> /\ loops' # <<>>
      /\ DOMAIN loops = 1..Len(loops) /\ DOMAIN loops' = 1..Len(loops)
      /\ \A j \in DOMAIN loops : loops'[j] = IF j = i THEN to ELSE loops[j]
  BY LoopMoves
<1>2. ServerTypes'
  BY <1>1 DEF ServerTypes
<1>3. OneThread'
  BY <1>1 DEF OneThread
<1>4. SignalsTrue'
  BY <1>1 DEF SignalsTrue
<1>5. StopProgress'
  BY <1>1 DEF StopProgress
<1>6. StoppedIsSilent'
  BY <1>1 DEF StoppedIsSilent
<1>7. ServesUntilStopped'
  BY <1>1 DEF ServesUntilStopped
<1> QED
  BY <1>2, <1>3, <1>4, <1>5, <1>6, <1>7

\* A thread of the server keeps the invariant, wherever it is.
LEMMA ServeForeverKeeps ==
  ASSUME ServerInv, NEW i \in DOMAIN loops, ServeForever(i) PROVE ServerInv'
<1>1. CASE Clear(i)
  <2>1. At(i, "new", "registering") /\ "registering" \in LoopStates
    BY <1>1 DEF Clear, LoopStates
  <2> QED
    BY <1>1, <2>1, LoopStep DEF Clear, Serving, ServerInv, ServerTypes
<1>2. CASE Register(i)
  <2>1. CASE listening
    BY <1>2, <2>1, LoopStep DEF Register, Serving, ServerInv, ServerTypes, LoopStates
  <2>2. CASE ~listening
    BY <1>2, <2>2, LoopStep DEF Register, Serving, ServerInv, ServerTypes, LoopStates
  <2> QED
    BY <2>1, <2>2
<1>3. CASE Poll(i)
  \* Only stop() makes the loop leave, and only an open socket makes it accept.
  <2>1. CASE shutdown_request /\ At(i, "polling", "leaving")
    <3>1. ~listening \/ stopping # "no"
      BY <2>1 DEF ServerInv, SignalsTrue
    <3> QED
      BY <1>3, <2>1, <3>1, LoopStep DEF Poll, Serving, ServerInv, ServerTypes, LoopStates
  <2>2. CASE At(i, "polling", "accepting")
    <3>1. listening
      BY <2>2 DEF At, ServerInv, StoppedIsSilent, Serving
    <3> QED
      BY <1>3, <2>2, <3>1, LoopStep DEF Poll, Serving, ServerInv, ServerTypes, LoopStates
  <2> QED
    BY <1>3, <2>1, <2>2 DEF Poll
<1>4. CASE Accept(i)
  <2>1. listening
    BY <1>4 DEF Accept, At, ServerInv, StoppedIsSilent, Serving
  <2> QED
    BY <1>4, <2>1, LoopStep DEF Accept, Serving, ServerInv, ServerTypes, LoopStates
<1>5. CASE Leave(i)
  <2>1. ~listening \/ stopping # "no"
    BY <1>5 DEF Leave, At, ServerInv, ServesUntilStopped
  <2> QED
    BY <1>5, <2>1, LoopStep DEF Leave, Serving, ServerInv, ServerTypes, LoopStates
<1>6. CASE Announce(i)
  \* While the socket is open this is the only thread there is.
  <2>1. /\ i \in 1..Len(loops) /\ loops[i] = "left"
        /\ loops' \in Seq(LoopStates) /\ Len(loops') = Len(loops)
        /\ loops # <<>> /\ loops' # <<>>
        /\ DOMAIN loops = 1..Len(loops) /\ DOMAIN loops' = 1..Len(loops)
        /\ \A j \in DOMAIN loops : loops'[j] = IF j = i THEN "dead" ELSE loops[j]
    BY <1>6, LoopMoves DEF Announce, ServerInv, LoopStates
  <2>2. /\ is_shut_down' = TRUE
        /\ UNCHANGED <<thread, shutdown_request, listening, stopping>>
    BY <1>6 DEF Announce
  <2>3. ServerTypes' /\ OneThread'
    BY <2>1, <2>2 DEF ServerInv, ServerTypes, OneThread
  <2>4. listening => \A j \in DOMAIN loops' : loops'[j] = "dead"
    <3>1. ASSUME listening PROVE Len(loops) <= 1
      BY <3>1 DEF ServerInv, OneThread
    <3>2. Len(loops) \in Nat
      BY DEF ServerInv, ServerTypes
    <3> QED
      BY <2>1, <3>1, <3>2
  <2>5. SignalsTrue' /\ StopProgress'
    BY <2>1, <2>2, <2>4 DEF ServerInv, SignalsTrue, StopProgress
  <2>6. StoppedIsSilent'
    BY <2>1, <2>2 DEF ServerInv, StoppedIsSilent, Serving
  <2>7. ServesUntilStopped'
    BY <2>1, <2>2 DEF ServerInv, ServesUntilStopped
  <2> QED
    BY <2>3, <2>5, <2>6, <2>7 DEF ServerInv
<1> QED
  BY <1>1, <1>2, <1>3, <1>4, <1>5, <1>6 DEF ServeForever

\* start() makes a second thread only when the socket is closed.
LEMMA StartKeeps == ASSUME ServerInv, Start PROVE ServerInv'
<1>0. /\ loops \in Seq(LoopStates) /\ thread \in 0..Len(loops) /\ Len(loops) \in Nat
      /\ DOMAIN loops = 1..Len(loops)
  BY DEF ServerInv, ServerTypes
<1>1. CASE thread # 0
  <2>1. UNCHANGED lifecycle
    BY <1>1 DEF Start, StartsThread, lifecycle
  <2> QED
    BY <2>1, ServerFramed
<1>2. CASE thread = 0
  <2>1. /\ loops' = Append(loops, "new") /\ thread' = Len(loops) + 1
        /\ UNCHANGED <<shutdown_request, is_shut_down, listening, stopping>> /\ stopping = "no"
    BY <1>2 DEF Start, StartsThread
  <2>2. /\ loops' \in Seq(LoopStates) /\ Len(loops') = Len(loops) + 1
        /\ DOMAIN loops' = 1..Len(loops) + 1 /\ loops' # <<>>
        /\ \A j \in 1..Len(loops) : loops'[j] = loops[j]
        /\ loops'[Len(loops) + 1] = "new"
    <3>1. "new" \in LoopStates
      BY DEF LoopStates
    <3> QED
      BY <1>0, <2>1, <3>1, AppendProperties
  <2>3. listening => Len(loops) = 0
    <3>1. listening => loops = <<>>
      BY <1>2, <2>1 DEF ServerInv, OneThread
    <3> QED
      BY <3>1
  <2>4. ServerTypes'
    BY <1>0, <2>1, <2>2 DEF ServerInv, ServerTypes
  <2>5. OneThread'
    BY <1>0, <2>1, <2>2, <2>3 DEF OneThread
  <2>6. SignalsTrue'
    <3>1. listening => ~is_shut_down
      BY <1>0, <1>2, <2>1 DEF ServerInv, SignalsTrue, OneThread
    <3>2. listening => ~shutdown_request
      BY <2>1 DEF ServerInv, SignalsTrue
    <3> QED
      BY <2>1, <3>1, <3>2 DEF SignalsTrue
  <2>7. StopProgress'
    BY <2>1 DEF StopProgress
  <2>8. StoppedIsSilent' /\ ServesUntilStopped'
    BY <1>0, <2>1, <2>2, <2>3 DEF ServerInv, StoppedIsSilent, ServesUntilStopped, Serving
  <2> QED
    BY <2>4, <2>5, <2>6, <2>7, <2>8 DEF ServerInv
<1> QED
  BY <1>1, <1>2

\* The steps of stop(): when the socket is closed, no loop is left.
LEMMA StopKeeps == ASSUME ServerInv, Stop \/ ShutDown \/ Join \/ Close PROVE ServerInv'
<1> USE DEF ServerInv
<1>0. Len(loops) \in Nat /\ DOMAIN loops = 1..Len(loops)
  BY DEF ServerTypes
<1>1. CASE Stop
  <2>1. UNCHANGED <<thread, loops, is_shut_down, listening>>
        /\ stopping = "no" /\ shutdown_request' \in BOOLEAN
        /\ stopping' = (IF thread # 0 THEN "waiting" ELSE "closing")
    BY <1>1 DEF Stop, ShutsDown, ServerTypes
  <2>2. ServerTypes' /\ OneThread' /\ SignalsTrue'
    BY <2>1 DEF ServerTypes, OneThread, SignalsTrue
  <2>3. StopProgress'
    <3>1. thread = 0 /\ listening => loops = <<>>
      BY <2>1 DEF OneThread
    <3>2. thread = 0 /\ listening => DOMAIN loops = {}
      BY <3>1
    <3> QED
      BY <2>1, <3>2 DEF StopProgress
  <2>4. StoppedIsSilent' /\ ServesUntilStopped'
    BY <2>1 DEF StoppedIsSilent, ServesUntilStopped
  <2> QED
    BY <2>2, <2>3, <2>4
<1>2. CASE ShutDown
  BY <1>2 DEF ShutDown, ServerTypes, OneThread, SignalsTrue, StopProgress,
              StoppedIsSilent, ServesUntilStopped
<1>3. CASE Join
  BY <1>0, <1>3 DEF Join, ServerTypes, OneThread, SignalsTrue, StopProgress,
              StoppedIsSilent, ServesUntilStopped
<1>4. CASE Close
  <2>1. /\ stopping = "closing" /\ stopping' = "no" /\ listening' = FALSE
        /\ UNCHANGED <<thread, loops, shutdown_request, is_shut_down>>
    BY <1>4 DEF Close, SocketAfterClose
  <2>2. StoppedIsSilent'
    BY <2>1 DEF ServerTypes, StopProgress, StoppedIsSilent, Serving
  <2> QED
    BY <2>1, <2>2 DEF ServerTypes, OneThread, SignalsTrue, StopProgress, ServesUntilStopped
<1> QED
  BY <1>1, <1>2, <1>3, <1>4

\* What the threads, the flags and the socket do in a step of anybody.
LEMMA StepOfServer ==
  ASSUME [Next]_vars
  PROVE  \/ UNCHANGED lifecycle
         \/ Start
         \/ Stop \/ ShutDown \/ Join \/ Close
         \/ \E i \in DOMAIN loops : ServeForever(i)
<1> USE DEF server
<1>1. CASE Owner
  BY <1>1 DEF Owner, StartServer, StopServer, Stopping, ThreadDead, BeginScenario, Ask, Share,
              Collect, Record
<1>2. CASE Client
  <2>1. CASE SendRequest
    BY <2>1 DEF SendRequest, Connect
  <2>2. CASE ReceiveReply
    BY <2>2 DEF ReceiveReply, TakeReply
  <2>3. CASE ExpectedTimeOut
    BY <2>3 DEF ExpectedTimeOut, TimeOut, HangUp
  <2> QED
    BY <1>2, <2>1, <2>2, <2>3 DEF Client, Think, RemoteDisconnected, ReadBody
<1>3. CASE KeyboardInterrupt
  BY <1>3 DEF KeyboardInterrupt
<1>4. CASE UnexpectedTimeOut
  BY <1>4 DEF UnexpectedTimeOut, TimeOut, HangUp
<1>5. CASE UnexpectedReply
  BY <1>5 DEF UnexpectedReply, TakeReply
<1>6. CASE Serve
  BY <1>6 DEF Serve
<1>7. CASE HandleRequest
  BY <1>7 DEF HandleRequest, Handle
<1>8. CASE UNCHANGED vars
  BY <1>8 DEF vars
<1> QED
  BY <1>1, <1>2, <1>3, <1>4, <1>5, <1>6, <1>7, <1>8 DEF Next

LEMMA ServerStep == ASSUME ServerInv, [Next]_vars PROVE ServerInv'
BY StepOfServer, ServerFramed, StartKeeps, StopKeeps, ServeForeverKeeps

\* The invariant that carries the proofs about the server holds under every
\* program of its owner.
THEOREM ServerInvariant == Spec => []ServerInv
<1>1. Init => ServerInv
  BY ServerStarts DEF Init
<1>2. ServerInv /\ [Next]_vars => ServerInv'
  BY ServerStep
<1> QED
  BY <1>1, <1>2, PTL DEF Spec

\* stop() leaves no thread in the accept loop, and none gets there later,
\* however often start() and stop() are called (fixtures.py:279-294).
THEOREM StoppedServerIsSilent == Spec => []StoppedIsSilent
<1>1. ServerInv => StoppedIsSilent
  BY DEF ServerInv
<1> QED
  BY <1>1, ServerInvariant, PTL

\* A server that was started serves until stop() is called
\* (fixtures.py:279-287).
THEOREM ServerServesUntilStopped == Spec => []ServesUntilStopped
<1>1. ServerInv => ServesUntilStopped
  BY DEF ServerInv
<1> QED
  BY <1>1, ServerInvariant, PTL
=============================================================================
