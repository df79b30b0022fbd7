----------------------------- MODULE GamerProofs ------------------------------
(***************************************************************************)
(* Proofs about the gamer PC's program: GamerLifecycle's capture threads   *)
(* never get into each other's way, and Resampling, what one of them does  *)
(* to its picture, reads no pixel outside of the source and puts every     *)
(* pixel in its place.  Both hold for all numbers of starts and all sizes. *)
(***************************************************************************)
EXTENDS GamerLifecycle, Resampling, TLAPS

-----------------------------------------------------------------------------
(* Starting and stopping                                                   *)

\* Where a capture thread lives.
LivePlaces == {"begun", "armed", "loop", "poll", "capture", "send", "ending"}

\* Each start has a capture thread that has not begun, lives, or has ended.
WorkersOK == worker \in [Starts -> {"none"} \cup LivePlaces \cup {"done"}]

\* The listener is deleted by what the console does last.
DeletedAtExit == NetworkListener = "deleted" => ctl = "exited"

\* While a capture thread lives its flag is not 0, and the controlling thread is between
\* its start and the end of the wait for it.
FlagCovers ==
  Alive # {} => ThreadIsRunning # 0 /\ ctl \in {"up", "request", "close", "wait"}

\* There is a picture to be sent.
PictureToSend == \A t \in Starts : worker[t] = "send" => CapturedScreen

\* What holds as long as no wait gave up.
NoneGaveUp == FlagCovers /\ PictureToSend /\ WorkerAlone

\* The inductive invariant.
GamerInv == WorkersOK /\ DeletedAtExit /\ (~gaveUp => NoneGaveUp)

\* Who is alive is read off the places of the capture threads.
LEMMA SameWorkers ==
  ASSUME WorkersOK, worker' = worker
  PROVE  WorkersOK' /\ Alive' = Alive
BY DEF WorkersOK, Alive

\* A thread goes on to another place: it lives as before, unless it ends.
LEMMA WorkerMoves ==
  ASSUME WorkersOK, NEW t \in Starts,
         NEW to \in LivePlaces \cup {"done"},
         worker[t] \notin {"none", "done"}, worker' = [worker EXCEPT ![t] = to]
  PROVE  /\ WorkersOK' /\ t \in Alive /\ worker'[t] = to
         /\ \A s \in Starts : s # t => worker'[s] = worker[s]
         /\ Alive' = IF to = "done" THEN Alive \ {t} ELSE Alive
<1>1. /\ WorkersOK' /\ worker'[t] = to
      /\ \A s \in Starts : s # t => worker'[s] = worker[s]
  BY DEF WorkersOK, LivePlaces
<1> QED BY <1>1 DEF Alive, LivePlaces

\* A new thread begins.
LEMMA WorkerBegins ==
  ASSUME WorkersOK, worker' = [worker EXCEPT ![started] = "begun"]
  PROVE  /\ WorkersOK' /\ Alive' \subseteq Alive \cup {started}
         /\ \A s \in Starts : worker'[s] = "send" => worker[s] = "send"
BY DEF WorkersOK, Alive, LivePlaces

\* The controlling thread.
LEMMA ControllerKeepsInv ==
  ASSUME GamerInv, Controller \/ BeginShutdown
  PROVE  GamerInv'
<1>0. WorkersOK /\ DeletedAtExit /\ (~gaveUp => NoneGaveUp)
  BY DEF GamerInv
<1>1. ASSUME worker' = worker, misused' = misused, NetworkListener' # "deleted",
             ~gaveUp' => ~gaveUp,
             ~gaveUp' /\ Alive # {} =>
               /\ ThreadIsRunning' # 0 /\ ctl' \in {"up", "request", "close", "wait"}
               /\ CapturedScreen' = CapturedScreen
      PROVE  GamerInv'
  <2>1. WorkersOK' /\ Alive' = Alive
    BY <1>0, <1>1, SameWorkers
  <2>2. DeletedAtExit'
    BY <1>1 DEF DeletedAtExit
  <2>3. ASSUME ~gaveUp' PROVE NoneGaveUp'
    <3>1. NoneGaveUp
      BY <1>0, <1>1, <2>3
    <3>2. FlagCovers'
      BY <1>1, <2>1, <2>3 DEF FlagCovers
    <3>3. PictureToSend'
      <4>1. \A t \in Starts : worker[t] = "send" => t \in Alive
        BY DEF Alive
      <4> QED BY <1>1, <2>3, <3>1, <4>1 DEF NoneGaveUp, PictureToSend
    <3>4. WorkerAlone'
      BY <1>1, <2>1, <2>3, <3>1 DEF NoneGaveUp, WorkerAlone
    <3> QED BY <3>2, <3>3, <3>4 DEF NoneGaveUp
  <2> QED BY <2>1, <2>2, <2>3 DEF GamerInv
<1>2. ~gaveUp /\ Alive # {} =>
        ThreadIsRunning # 0 /\ ctl \in {"up", "request", "close", "wait"}
  BY <1>0 DEF NoneGaveUp, FlagCovers
<1>3. ctl # "exited" => NetworkListener # "deleted"
  BY <1>0 DEF DeletedAtExit
<1>4. CASE InitDataProcessing
  BY <1>1, <1>2, <1>3, <1>4 DEF InitDataProcessing, threads
<1>5. CASE StartAcceptor
  BY <1>1, <1>2, <1>3, <1>5 DEF StartAcceptor
<1>6. CASE StartWorker
  <2>1. /\ ctl = "startWorker" /\ ctl' = "up" /\ gaveUp' = gaveUp /\ misused' = misused
        /\ UNCHANGED <<ThreadIsRunning, NetworkListener, CapturedScreen>>
    BY <1>6 DEF StartWorker, shared
  <2>2. CASE ThreadIsRunning = 1
    <3>1. worker' = [worker EXCEPT ![started] = "begun"]
      BY <1>6, <2>2 DEF StartWorker
    <3>2. /\ WorkersOK' /\ Alive' \subseteq Alive \cup {started}
          /\ \A s \in Starts : worker'[s] = "send" => worker[s] = "send"
      BY <1>0, <3>1, WorkerBegins
    <3>3. DeletedAtExit'
      BY <1>3, <2>1 DEF DeletedAtExit
    <3>4. ASSUME ~gaveUp' PROVE NoneGaveUp'
      <4>1. NoneGaveUp
        BY <1>0, <2>1, <3>4
      <4>2. Alive = {}
        BY <1>2, <2>1, <3>4
      <4>3. FlagCovers'
        BY <2>1, <2>2 DEF FlagCovers
      <4>4. PictureToSend'
        BY <2>1, <3>2, <4>1 DEF NoneGaveUp, PictureToSend
      <4>5. WorkerAlone'
        BY <2>1, <3>2, <3>4, <4>1, <4>2 DEF NoneGaveUp, WorkerAlone
      <4> QED BY <4>3, <4>4, <4>5 DEF NoneGaveUp
    <3> QED BY <3>2, <3>3, <3>4 DEF GamerInv
  <2>3. CASE ThreadIsRunning # 1
    <3>1. worker' = worker
      BY <1>6, <2>3 DEF StartWorker
    <3> QED BY <1>1, <1>2, <1>3, <2>1, <3>1
  <2> QED BY <2>2, <2>3
<1>7. CASE BeginShutdown
  BY <1>1, <1>2, <1>3, <1>7 DEF BeginShutdown, shared, threads
<1>8. CASE RequestStop
  BY <1>1, <1>2, <1>3, <1>8 DEF RequestStop, threads
<1>9. CASE CloseForShutdown
  BY <1>1, <1>2, <1>3, <1>9 DEF CloseForShutdown, threads
<1>10. CASE WaitForWorker
  <2>1. /\ ctl = "wait" /\ worker' = worker /\ misused' = misused
        /\ UNCHANGED <<ThreadIsRunning, NetworkListener, CapturedScreen>>
    BY <1>10 DEF WaitForWorker, Wait, shared, threads
  <2>2. \/ UNCHANGED <<ctl, gaveUp>>
        \/ ctl' = "free" /\ gaveUp' = (gaveUp \/ ThreadIsRunning # 0)
    BY <1>10 DEF WaitForWorker, Wait
  <2>3. ~gaveUp' => ~gaveUp
    BY <2>2
  <2>4. ~gaveUp' /\ Alive # {} => ctl' = ctl
    BY <1>2, <2>2, <2>3
  <2> QED BY <1>1, <1>2, <1>3, <2>1, <2>3, <2>4
<1>11. CASE FreeResources
  <2>1. /\ ctl = "free" /\ gaveUp' = gaveUp /\ worker' = worker /\ misused' = misused
        /\ ctl' = "exited" \/ (ctl' = "audio" /\ NetworkListener' = NetworkListener)
    BY <1>11 DEF FreeResources, threads
  <2>2. WorkersOK' /\ Alive' = Alive
    BY <1>0, <2>1, SameWorkers
  <2>3. DeletedAtExit'
    BY <1>3, <2>1 DEF DeletedAtExit
  <2>4. ASSUME ~gaveUp' PROVE NoneGaveUp'
    <3>1. NoneGaveUp /\ Alive = {}
      BY <1>0, <1>2, <2>1, <2>4
    <3>2. FlagCovers'
      BY <2>2, <3>1 DEF FlagCovers
    <3>3. PictureToSend'
      <4>1. \A t \in Starts : worker[t] # "send"
        BY <3>1 DEF Alive
      <4> QED BY <2>1, <4>1 DEF PictureToSend
    <3>4. WorkerAlone'
      BY <2>1, <2>2, <2>4, <3>1 DEF NoneGaveUp, WorkerAlone
    <3> QED BY <3>2, <3>3, <3>4 DEF NoneGaveUp
  <2> QED BY <2>2, <2>3, <2>4 DEF GamerInv
<1>12. CASE AudioShutDown
  BY <1>1, <1>2, <1>3, <1>12 DEF AudioShutDown, shared, threads
<1>13. CASE AudioRequestStop
  BY <1>1, <1>2, <1>3, <1>13 DEF AudioRequestStop, threads
<1>14. CASE AudioWait
  BY <1>1, <1>2, <1>3, <1>14 DEF AudioWait, shared, threads
<1> QED BY <1>4, <1>5, <1>6, <1>7, <1>8, <1>9, <1>10, <1>11, <1>12, <1>13, <1>14
        DEF Controller

\* A capture thread.
LEMMA WorkerKeepsInv ==
  ASSUME GamerInv, NEW t \in Starts, WorkerRuns(t) \/ SendPicture(t)
  PROVE  GamerInv'
<1>0. WorkersOK /\ DeletedAtExit /\ (~gaveUp => NoneGaveUp)
  BY DEF GamerInv
<1>1. PICK from, to : At(t, from, to)
  BY DEF WorkerRuns, SetUp, Arm, LoopGoesOn, LoopEnds,
         PollClients, Capture, SendPicture, WorkerEnds
<1>2. /\ UNCHANGED <<NetworkListener, ctl, gaveUp>>
      /\ worker[t] \notin {"none", "done"}
      /\ \E place \in LivePlaces \cup {"done"} :
           /\ worker' = [worker EXCEPT ![t] = place]
           /\ IF place = "done" THEN ThreadIsRunning' = 0
              ELSE ThreadIsRunning' = ThreadIsRunning \/ ThreadIsRunning' = 1
           /\ place = "send" => CapturedScreen'
           /\ misused' = misused \/ misused' \subseteq misused \cup
                (IF worker[t] = "send" /\ ~CapturedScreen THEN {"picture"} ELSE {})
                  \cup (IF Deleted THEN {"listener"} ELSE {})
  BY DEF WorkerRuns, SetUp, Arm, LoopGoesOn, LoopEnds,
         PollClients, Capture, SendPicture, WorkerEnds, At,
         Misuse, control, LivePlaces
<1>3. PICK place \in LivePlaces \cup {"done"} :
        /\ worker' = [worker EXCEPT ![t] = place]
        /\ IF place = "done" THEN ThreadIsRunning' = 0
           ELSE ThreadIsRunning' = ThreadIsRunning \/ ThreadIsRunning' = 1
        /\ place = "send" => CapturedScreen'
        /\ misused' = misused \/ misused' \subseteq misused \cup
             (IF worker[t] = "send" /\ ~CapturedScreen THEN {"picture"} ELSE {})
               \cup (IF Deleted THEN {"listener"} ELSE {})
  BY <1>2
<1>4. /\ WorkersOK' /\ t \in Alive /\ worker'[t] = place
      /\ \A s \in Starts : s # t => worker'[s] = worker[s]
      /\ Alive' = IF place = "done" THEN Alive \ {t} ELSE Alive
  BY <1>0, <1>2, <1>3, WorkerMoves
<1>5. DeletedAtExit'
  BY <1>0, <1>2 DEF DeletedAtExit
<1>6. ASSUME ~gaveUp' PROVE NoneGaveUp'
  <2>1. NoneGaveUp /\ ~gaveUp
    BY <1>0, <1>2, <1>6
  <2>2. /\ ThreadIsRunning # 0 /\ ctl \in {"up", "request", "close", "wait"}
        /\ \A s \in Alive : s = t
    BY <1>4, <2>1 DEF NoneGaveUp, FlagCovers, WorkerAlone
  <2>3. FlagCovers'
    BY <1>2, <1>3, <1>4, <2>2 DEF FlagCovers
  <2>4. PictureToSend'
    <3>1. \A s \in Starts : s # t => worker[s] # "send"
      BY <2>2 DEF Alive
    <3> QED BY <1>3, <1>4, <3>1 DEF PictureToSend
  <2>5. ~Deleted /\ (worker[t] = "send" => CapturedScreen)
    BY <1>0, <2>1, <2>2 DEF DeletedAtExit, Deleted, NoneGaveUp, PictureToSend
  <2>6. misused' \cap {"picture", "listener"} = {}
    BY <1>3, <2>1, <2>5 DEF NoneGaveUp, WorkerAlone
  <2>7. WorkerAlone'
    BY <1>4, <2>2, <2>6 DEF WorkerAlone
  <2> QED BY <2>3, <2>4, <2>7 DEF NoneGaveUp
<1> QED BY <1>4, <1>5, <1>6 DEF GamerInv

\* An accepting thread.
LEMMA AcceptorKeepsInv ==
  ASSUME GamerInv, NEW t \in Starts,
         AcceptorRuns(t) \/ Accepted(t) \/ AcceptFails(t)
  PROVE  GamerInv'
<1>1. /\ UNCHANGED <<worker, ctl, gaveUp, CapturedScreen>>
      /\ NetworkListener' = "deleted" => NetworkListener = "deleted"
      /\ misused' \subseteq misused \cup {"acceptor"}
      /\ ThreadIsRunning' = ThreadIsRunning \/ ThreadIsRunning' = 2
  BY DEF AcceptorRuns, CheckListening, SetListening, AcceptorLoop,
         Accepted, AcceptFails, StopAfterFailure, StopListening,
         AcceptorAt, Misuse, Deleted, control
<1>2. WorkersOK /\ DeletedAtExit /\ (~gaveUp => NoneGaveUp)
  BY DEF GamerInv
<1>3. WorkersOK' /\ Alive' = Alive
  BY <1>1, <1>2, SameWorkers
<1>4. DeletedAtExit'
  BY <1>1, <1>2 DEF DeletedAtExit
<1>5. ASSUME ~gaveUp' PROVE NoneGaveUp'
  <2>1. FlagCovers' /\ PictureToSend'
    BY <1>1, <1>2, <1>3, <1>5 DEF NoneGaveUp, FlagCovers, PictureToSend
  <2>2. WorkerAlone'
    BY <1>1, <1>2, <1>3, <1>5 DEF NoneGaveUp, WorkerAlone
  <2> QED BY <2>1, <2>2 DEF NoneGaveUp
<1> QED BY <1>3, <1>4, <1>5 DEF GamerInv

\* The invariant holds over every step of the gamer's program.
LEMMA GamerInvNext == GamerInv /\ [Next]_vars => GamerInv'
<1> SUFFICES ASSUME GamerInv, [Next]_vars PROVE GamerInv'
  OBVIOUS
<1>1. CASE Controller \/ BeginShutdown
  BY <1>1, ControllerKeepsInv
<1>2. ASSUME NEW t \in Starts, WorkerRuns(t) \/ SendPicture(t)
      PROVE  GamerInv'
  BY <1>2, WorkerKeepsInv
<1>3. ASSUME NEW t \in Starts,
             AcceptorRuns(t) \/ Accepted(t) \/ AcceptFails(t)
      PROVE  GamerInv'
  BY <1>3, AcceptorKeepsInv
<1>4. CASE UNCHANGED vars
  BY <1>4 DEF vars, shared, threads, control, GamerInv, WorkersOK,
              DeletedAtExit, NoneGaveUp, FlagCovers, PictureToSend, WorkerAlone,
              Alive
<1> QED BY <1>1, <1>2, <1>3, <1>4 DEF Next

\* ... and before the first.
LEMMA GamerInvInit == Init => GamerInv
<1> SUFFICES ASSUME Init PROVE GamerInv
  OBVIOUS
<1>1. WorkersOK /\ Alive = {}
  BY DEF Init, WorkersOK, Alive
<1>2. PictureToSend
  BY DEF Init, PictureToSend
<1> QED BY <1>1, <1>2 DEF Init, GamerInv, DeletedAtExit, NoneGaveUp, FlagCovers,
                          WorkerAlone

\* As long as no shutdown gave up waiting (DataProcessing.cpp 81 to 127), no two capture
\* threads of the gamer live at once and none uses a picture or a listener that was
\* deleted, however often the settings are applied.
THEOREM GamerWorkerAlone == Spec => []WorkerAlone
<1>1. GamerInv => WorkerAlone
  <2>1. gaveUp => WorkerAlone
    BY Zenon DEF WorkerAlone
  <2> QED BY <2>1 DEF GamerInv, NoneGaveUp
<1> QED BY <1>1, GamerInvInit, GamerInvNext, PTL DEF Spec

-----------------------------------------------------------------------------
(* The step in the source                                                  *)

\* What division does to a product bound: a position below size steps of a unit
\* lies in one of the first size units.
LEMMA DivisionBound ==
  ASSUME NEW a \in Nat, NEW size \in Nat, NEW unit \in Nat \ {0},
         a < size * unit
  PROVE  a \div unit \in Nat /\ a \div unit < size
<1> DEFINE q == a \div unit
           r == a % unit
<1>1. /\ q \in Nat /\ r \in Nat
      /\ a = unit * q + r
  OBVIOUS
<1>2. ASSUME q >= size PROVE FALSE
  <2>1. unit * q >= unit * size
    BY <1>1, <1>2
  <2>2. QED  BY <1>1, <2>1
<1> QED  BY <1>1, <1>2

\* The step of the source for one destination pixel: dest of them stay inside the
\* source's size in fixed-point units, and no unsigned int wraps.
LEMMA StepBound ==
  ASSUME NEW src \in Sizes, NEW dest \in Sizes
  PROVE  /\ Step(src, dest) \in Nat
         /\ dest * Step(src, dest) <= src * FLOAT_PRECISSION
         /\ src * FLOAT_PRECISSION \in Nat
         /\ src * FLOAT_PRECISSION < UIntRange
<1> DEFINE total == src * FLOAT_PRECISSION
<1>1. src \in Nat \ {0} /\ dest \in Nat \ {0}
  BY ResamplingAssumption
<1>2. total \in Nat /\ total < UIntRange
  BY <1>1, ResamplingAssumption
<1>3. total % UIntRange = total
  BY <1>2, ResamplingAssumption
<1>4. Step(src, dest) = total \div dest
  BY <1>3 DEF Step, UInt
<1> HIDE DEF total
<1>5. total \div dest \in Nat /\ dest * (total \div dest) <= total
  BY <1>1, <1>2
<1> QED  BY <1>2, <1>4, <1>5 DEF total

\* A destination index below dest is shown by a source index below src.
LEMMA IndexBound ==
  ASSUME NEW src \in Sizes, NEW dest \in Sizes, NEW i \in Nat, i < dest
  PROVE  /\ i * Step(src, dest) \in Nat
         /\ (i * Step(src, dest)) \div FLOAT_PRECISSION < src
<1> DEFINE step == Step(src, dest)
<1>1. /\ src \in Nat \ {0} /\ dest \in Nat \ {0}
      /\ FLOAT_PRECISSION \in Nat \ {0}
  BY ResamplingAssumption
<1>2. step \in Nat /\ dest * step <= src * FLOAT_PRECISSION
  BY StepBound
<1> HIDE DEF step
<1>3. i * step \in Nat
  BY <1>2
<1>4. i * step < src * FLOAT_PRECISSION
  <2>1. CASE step = 0
    BY <1>1, <2>1
  <2>2. CASE step > 0
    <3>1. i * step + step <= dest * step
      <4>1. (i + 1) * step <= dest * step
        BY <1>1, <1>2
      <4>2. (i + 1) * step = i * step + step
        BY <1>2
      <4> QED  BY <4>1, <4>2
    <3> QED  BY <1>1, <1>2, <1>3, <2>2, <3>1
  <2> QED  BY <1>2, <2>1, <2>2
<1>5. (i * step) \div FLOAT_PRECISSION < src
  BY <1>1, <1>3, <1>4, DivisionBound
<1> QED  BY <1>3, <1>5 DEF step

\* A sum of so many steps is still an unsigned int.
LEMMA SumBound ==
  ASSUME NEW src \in Sizes, NEW dest \in Sizes, NEW i \in Nat, i <= dest
  PROVE  /\ i * Step(src, dest) \in 0..(UIntRange - 1)
         /\ UInt(i * Step(src, dest)) = i * Step(src, dest)
<1> DEFINE step == Step(src, dest)
<1>1. dest \in Nat /\ UIntRange \in Nat \ {0}
  BY ResamplingAssumption
<1>2. step \in Nat /\ dest * step < UIntRange
  BY StepBound, <1>1
<1> HIDE DEF step
<1>3. i * step \in Nat /\ i * step <= dest * step
  BY <1>1, <1>2
<1>4. i * step \in 0..(UIntRange - 1)
  BY <1>1, <1>2, <1>3
<1>5. (i * step) % UIntRange = i * step
  BY <1>1, <1>4
<1> QED  BY <1>4, <1>5 DEF step, UInt

\* The loops start in the invariant.
LEMMA InvInit == ResamplingInit => ResamplingInv
<1> SUFFICES ASSUME ResamplingInit PROVE ResamplingInv
  OBVIOUS
<1>1. SrcW \in Sizes /\ SrcH \in Sizes /\ DestW \in Sizes /\ DestH \in Sizes
  BY DEF ResamplingInit
<1>2. /\ DestH \in Nat /\ DestW \in Nat \ {0} /\ UIntRange \in Nat \ {0}
      /\ int_conv_y \in Nat /\ int_conv_x \in Nat
  BY <1>1, StepBound, ResamplingAssumption DEF int_conv_y, int_conv_x
<1> QED  BY <1>1, <1>2 DEF ResamplingInit, ResamplingInv, PictureTypeOK, SumsAreProducts

\* A turn of the loops adds one step to a sum that cannot wrap.
LEMMA InvNext == ResamplingInv /\ [ResamplingNext]_resamplingVars => ResamplingInv'
<1> SUFFICES ASSUME ResamplingInv, [ResamplingNext]_resamplingVars PROVE ResamplingInv'
  OBVIOUS
<1>1. CASE ResamplingNext
  <2>1. /\ y < DestH /\ UNCHANGED parameters
        /\ SrcW \in Sizes /\ SrcH \in Sizes /\ DestW \in Sizes /\ DestH \in Sizes
    BY <1>1 DEF ResamplingNext, CopyPixel, ResamplingInv, PictureTypeOK
  <2>2. /\ int_conv_y' = int_conv_y /\ int_conv_x' = int_conv_x
    BY <2>1 DEF int_conv_y, int_conv_x, Step, UInt, parameters
  <2>3. /\ DestH \in Nat /\ DestW \in Nat \ {0} /\ UIntRange \in Nat \ {0}
        /\ int_conv_y \in Nat /\ int_conv_x \in Nat
        /\ y \in Nat /\ x \in Nat
    BY <2>1, StepBound, ResamplingAssumption
       DEF int_conv_y, int_conv_x, ResamplingInv, PictureTypeOK
  <2>4. CASE x + 1 < DestW
    <3>1. /\ x' = x + 1 /\ UNCHANGED <<y, stacking_precission_y>>
          /\ stacking_precission_x' = UInt(stacking_precission_x + int_conv_x)
      BY <1>1, <2>4 DEF ResamplingNext, CopyPixel
    <3>2. stacking_precission_x + int_conv_x = (x + 1) * int_conv_x
      BY <2>3 DEF ResamplingInv, SumsAreProducts
    <3>3. /\ stacking_precission_x' = (x + 1) * int_conv_x
          /\ stacking_precission_x' \in 0..(UIntRange - 1)
      BY <2>1, <2>3, <2>4, <3>1, <3>2, SumBound DEF int_conv_x
    <3> QED  BY <2>1, <2>2, <2>3, <2>4, <3>1, <3>3
             DEF ResamplingInv, PictureTypeOK, SumsAreProducts, parameters
  <2>5. CASE ~(x + 1 < DestW)
    <3>1. /\ x' = 0 /\ y' = y + 1 /\ stacking_precission_x' = 0
          /\ stacking_precission_y' = UInt(stacking_precission_y + int_conv_y)
      BY <1>1, <2>5 DEF ResamplingNext, CopyPixel
    <3>2. stacking_precission_y + int_conv_y = (y + 1) * int_conv_y
      BY <2>3 DEF ResamplingInv, SumsAreProducts
    <3>3. /\ stacking_precission_y' = (y + 1) * int_conv_y
          /\ stacking_precission_y' \in 0..(UIntRange - 1)
      BY <2>1, <2>3, <3>1, <3>2, SumBound DEF int_conv_y
    <3> QED  BY <2>1, <2>2, <2>3, <3>1, <3>3
             DEF ResamplingInv, PictureTypeOK, SumsAreProducts, parameters
  <2> QED  BY <2>4, <2>5
<1>2. CASE UNCHANGED resamplingVars
  BY <1>2 DEF resamplingVars, parameters, ResamplingInv, PictureTypeOK, SumsAreProducts, int_conv_y,
              int_conv_x, Step, UInt
<1> QED  BY <1>1, <1>2

\* In the invariant both indices are the positions IndexBound is about.
LEMMA InvImpliesRange == ResamplingInv => SourceInRange
<1> SUFFICES ASSUME ResamplingInv, y < DestH
             PROVE  converted_row_index < SrcH /\ converted_col_index < SrcW
  BY DEF SourceInRange
<1>1. /\ SrcW \in Sizes /\ SrcH \in Sizes /\ DestW \in Sizes /\ DestH \in Sizes
      /\ y \in Nat /\ x \in Nat /\ x < DestW
  BY ResamplingAssumption DEF ResamplingInv, PictureTypeOK
<1>2. converted_row_index < SrcH
  BY <1>1, IndexBound
     DEF converted_row_index, ResamplingInv, SumsAreProducts, int_conv_y
<1>3. converted_col_index < SrcW
  BY <1>1, IndexBound
     DEF converted_col_index, ResamplingInv, SumsAreProducts, int_conv_x
<1> QED  BY <1>2, <1>3

\* Every pixel the resampling reads is a pixel of the source, whatever the sizes
\* of the source and the destination.
THEOREM ResamplingInRange == ResamplingSpec => []SourceInRange
<1>1. ResamplingSpec => []ResamplingInv
  BY InvInit, InvNext, PTL DEF ResamplingSpec
<1> QED  BY <1>1, InvImpliesRange, PTL
-----------------------------------------------------------------------------
(* What the picture shows                                                  *)

\* A larger factor, and a product of three.
LEMMA Products ==
  /\ \A a, b, c \in Nat : a <= b => c * a <= c * b
  /\ \A a, b, c \in Nat : a * (b * c) = b * (a * c)
  /\ \A a, b \in Nat : a * b \in Nat /\ a * b = b * a
OBVIOUS

\* A quotient and what it is the quotient of.
LEMMA Quotients ==
  ASSUME NEW a \in Nat, NEW b \in Nat \ {0}
  PROVE  a \div b \in Nat /\ b * (a \div b) <= a /\ a < b * (a \div b) + b
<1>1. /\ a \div b \in Nat /\ a % b \in 0..(b - 1)
      /\ a = b * (a \div b) + (a % b)
  OBVIOUS
<1> QED BY <1>1

\* The source index of a destination index is at its place or one before it, as long
\* as the destination has no more than FLOAT_PRECISSION pixels: the rounding of the
\* step then adds up to less than one pixel of the source.
LEMMA IndexShows ==
  ASSUME NEW src \in Sizes, NEW dest \in Sizes, dest <= FLOAT_PRECISSION,
         NEW i \in Nat, i < dest
  PROVE  Shows(i, (i * Step(src, dest)) \div FLOAT_PRECISSION, src, dest)
<1> DEFINE unit  == FLOAT_PRECISSION
           total == src * unit
           step  == Step(src, dest)
           a     == i * step
           r     == a \div unit
           b     == i * src
           k     == b \div dest
<1>1. src \in Nat /\ dest \in Nat \ {0} /\ unit \in Nat \ {0} /\ dest <= unit
  BY ResamplingAssumption
<1>2. /\ total \in Nat /\ step \in Nat /\ dest * step <= total /\ total < dest * step + dest
  <2>1. total \in Nat /\ total < UIntRange
    BY StepBound
  <2>2. total % UIntRange = total
    BY <2>1, ResamplingAssumption
  <2>3. step = total \div dest
    BY <2>2 DEF Step, UInt
  <2> HIDE DEF total, step
  <2> QED BY <1>1, <2>1, <2>3, Quotients
<1>3. a \in Nat /\ b \in Nat
  BY <1>1, <1>2
<1>4. r \in Nat /\ unit * r <= a /\ a < unit * r + unit
  <2> HIDE DEF a
  <2> QED BY <1>1, <1>3, Quotients
<1>5. k \in Nat /\ dest * k <= b /\ b < dest * k + dest
  <2> HIDE DEF b
  <2> QED BY <1>1, <1>3, Quotients
<1>6. unit * b = i * total
  BY <1>1, Products
<1>7. dest * a = i * (dest * step)
  BY <1>1, <1>2, Products
<1> HIDE DEF unit, total, step, a, b, r, k
<1>8. dest * a \in Nat /\ unit * b \in Nat /\ dest * a <= unit * b
  <2>1. i * (dest * step) <= i * total /\ dest * step \in Nat
    BY <1>1, <1>2, Products
  <2> QED BY <1>1, <1>3, <1>6, <1>7, <2>1, Products
<1>9. unit * b <= dest * a + i * dest /\ i * dest <= dest * unit /\ i * dest \in Nat
  <2>1. i * total <= i * (dest * step + dest) /\ dest * step \in Nat
    BY <1>1, <1>2, Products
  <2>2. i * (dest * step + dest) = i * (dest * step) + i * dest
    BY <1>1, <1>2, <2>1
  <2>3. dest * i <= dest * unit /\ dest * i = i * dest
    BY <1>1, Products
  <2> QED BY <1>1, <1>6, <1>7, <2>1, <2>2, <2>3, Products
<1>10. r <= k
  <2> SUFFICES ASSUME k + 1 <= r PROVE FALSE
    BY <1>4, <1>5
  <2>1. dest * (k + 1) <= dest * r /\ dest * (k + 1) = dest * k + dest
    BY <1>1, <1>4, <1>5, Products
  <2>2. b + 1 <= dest * r /\ dest * r \in Nat
    BY <1>1, <1>3, <1>4, <1>5, <2>1, Products
  <2>3. unit * (b + 1) <= unit * (dest * r) /\ unit * (b + 1) = unit * b + unit
    BY <1>1, <1>3, <2>2, Products
  <2>4. dest * (unit * r) <= dest * a /\ dest * (unit * r) = unit * (dest * r)
    BY <1>1, <1>3, <1>4, Products
  <2> QED BY <1>1, <1>3, <1>8, <2>2, <2>3, <2>4, Products
<1>11. k <= r + 1
  <2> SUFFICES ASSUME r + 2 <= k PROVE FALSE
    BY <1>4, <1>5
  <2>1. unit * (r + 2) <= unit * k /\ unit * (r + 2) = unit * r + 2 * unit
    BY <1>1, <1>4, <1>5, Products
  <2>2. a + unit + 1 <= unit * k /\ unit * k \in Nat
    BY <1>1, <1>3, <1>4, <1>5, <2>1, Products
  <2>3. /\ dest * (a + unit + 1) <= dest * (unit * k)
        /\ dest * (a + unit + 1) = dest * a + dest * unit + dest
    BY <1>1, <1>3, <2>2, Products
  <2>4. unit * (dest * k) <= unit * b /\ dest * (unit * k) = unit * (dest * k)
    BY <1>1, <1>3, <1>5, Products
  <2>5. dest * unit \in Nat /\ unit * (dest * k) \in Nat
    BY <1>1, <1>5, Products
  <2> QED BY <1>1, <1>8, <1>9, <2>3, <2>4, <2>5
<1>12. r \in {k - 1, k}
  BY <1>4, <1>5, <1>10, <1>11
<1> QED BY <1>12 DEF Shows, a, b, r, k, step, unit

\* Where a destination pixel begins.
Place(i, j) == i * DestW + j

\* The bytes of a pixel are what its source pixel has.
PixelCopied(i, j) ==
  \A channel \in 0..2 :
    dst[pixelBytes * Place(i, j) + channel] =
      [row |-> (i * int_conv_y) \div FLOAT_PRECISSION,
       col |-> (j * int_conv_x) \div FLOAT_PRECISSION, channel |-> channel]

\* Every pixel the loops have passed is copied, and nothing behind it has changed it.
CopiedInv ==
  /\ DOMAIN dst = 0..(DestW * DestH * pixelBytes)
  /\ \A i \in 0..(DestH - 1), j \in 0..(DestW - 1) :
       i < y \/ (i = y /\ j < x) => PixelCopied(i, j)

\* Pixels lie one behind the other.
LEMMA Places ==
  ASSUME ResamplingInv, NEW i \in 0..(DestH - 1), NEW j \in 0..(DestW - 1)
  PROVE  /\ Place(i, j) \in Nat /\ Place(i, j) + 1 <= DestW * DestH
         /\ i < y \/ (i = y /\ j < x) => Place(i, j) + 1 <= Position
<1>1. /\ DestW \in Nat /\ DestH \in Nat /\ y \in Nat /\ x \in Nat /\ i \in Nat /\ j \in Nat
      /\ j + 1 <= DestW /\ i + 1 <= DestH
  BY ResamplingAssumption DEF ResamplingInv, PictureTypeOK
<1>2. /\ i * DestW \in Nat /\ y * DestW \in Nat
      /\ DestH * DestW \in Nat /\ (i + 1) * DestW \in Nat
  BY <1>1, Products
<1>3. (i + 1) * DestW = i * DestW + DestW /\ DestW * DestH = DestH * DestW
  BY <1>1
<1>4. \A n \in Nat : i + 1 <= n => (i + 1) * DestW <= n * DestW
  <2> SUFFICES ASSUME NEW n \in Nat, i + 1 <= n PROVE (i + 1) * DestW <= n * DestW
    OBVIOUS
  <2>1. DestW * (i + 1) <= DestW * n
    BY <1>1, Products
  <2> QED BY <1>1, <2>1, Products
<1>5. (i + 1) * DestW <= DestH * DestW
  BY <1>1, <1>4
<1>6. i < y => (i + 1) * DestW <= y * DestW
  BY <1>1, <1>4
<1> QED BY <1>1, <1>2, <1>3, <1>5, <1>6 DEF Place, Position

\* A turn of the loops writes a pixel's bytes and no byte of the pixels before it.
LEMMA WriteCopies ==
  ASSUME ResamplingInv, CopiedInv, CopyPixel
  PROVE  CopiedInv'
<1>0. /\ y < DestH /\ dst' = Written /\ pixelBytes \in {3, 4} /\ pixelBytes' = pixelBytes
      /\ DestW' = DestW /\ DestH' = DestH /\ SrcW' = SrcW /\ SrcH' = SrcH
      /\ y \in 0..(DestH - 1) /\ x \in 0..(DestW - 1) /\ DestW \in Nat /\ DestH \in Nat
  BY ResamplingAssumption DEF CopyPixel, parameters, ResamplingInv, PictureTypeOK
<1>1. int_conv_y' = int_conv_y /\ int_conv_x' = int_conv_x
  BY <1>0 DEF int_conv_y, int_conv_x, Step, UInt
<1>2. Place(y, x) = Position
  BY DEF Place, Position
<1>3. Position \in Nat /\ Position + 1 <= DestW * DestH /\ DestW * DestH \in Nat
  BY <1>0, <1>2, Places, Products
<1>4. DOMAIN dst' = 0..(DestW * DestH * pixelBytes)
  BY <1>0 DEF Written, CopiedInv
<1> DEFINE begin == pixelBytes * Position
           size  == DestW * DestH * pixelBytes
<1>5. begin \in Nat /\ size \in Nat /\ begin + pixelBytes <= size
  <2>1. pixelBytes * (Position + 1) <= pixelBytes * (DestW * DestH)
    BY <1>0, <1>3, Products
  <2>2. pixelBytes * (Position + 1) = pixelBytes * Position + pixelBytes
    BY <1>0, <1>3
  <2>3. pixelBytes * (DestW * DestH) = size /\ begin \in Nat /\ size \in Nat
    BY <1>0, <1>3, Products
  <2> QED BY <2>1, <2>2, <2>3
<1>6. ASSUME NEW i \in 0..(DestH - 1), NEW j \in 0..(DestW - 1),
             i < y \/ (i = y /\ j < x) \/ (i = y /\ j = x)
      PROVE  PixelCopied(i, j)'
  <2>1. Place(i, j)' = Place(i, j)
    BY <1>0 DEF Place
  <2> DEFINE first == pixelBytes * Place(i, j)
             value(channel) ==
               [row |-> (i * int_conv_y) \div FLOAT_PRECISSION,
                col |-> (j * int_conv_x) \div FLOAT_PRECISSION, channel |-> channel]
  <2>2. SUFFICES \A channel \in 0..2 : dst'[first + channel] = value(channel)
    BY <1>0, <1>1, <2>1 DEF PixelCopied
  <2>3. CASE i = y /\ j = x
    <3>1. first = begin
      BY <1>2, <2>3
    <3>2. value(0).row = converted_row_index /\ value(0).col = converted_col_index
      BY <2>3 DEF ResamplingInv, SumsAreProducts, converted_row_index, converted_col_index
    <3>3. \A channel \in 0..2 :
            dst'[begin + channel] = [row |-> converted_row_index, col |-> converted_col_index,
                                     channel |-> (begin + channel) - begin]
      <4> HIDE DEF value
      <4>1. \A channel \in 0..2 : begin + channel \in 0..size /\ begin + channel \in begin..(begin + 3)
        <5> HIDE DEF begin, size
        <5> QED BY <1>0, <1>5
      <4>2. \A b \in begin..(begin + 3) : b \in DOMAIN dst =>
              dst'[b] = [row |-> converted_row_index, col |-> converted_col_index,
                         channel |-> b - begin]
        BY <1>0 DEF Written
      <4>3. DOMAIN dst = 0..size
        BY DEF CopiedInv
      <4> HIDE DEF begin, size
      <4> QED BY <4>1, <4>2, <4>3
    <3>4. \A channel \in 0..2 : (begin + channel) - begin = channel
      <4> HIDE DEF begin
      <4> QED BY <1>5
    <3>5. \A channel \in 0..2 :
            value(channel) = [row |-> converted_row_index, col |-> converted_col_index,
                              channel |-> channel]
      BY <3>2
    <3> HIDE DEF begin, first, value
    <3> QED BY <3>1, <3>3, <3>4, <3>5
  <2>4. CASE i < y \/ (i = y /\ j < x)
    <3>1. Place(i, j) \in Nat /\ Place(i, j) + 1 <= Position
      BY <2>4, Places
    <3>2. first \in Nat /\ first + pixelBytes <= begin
      <4>1. pixelBytes * (Place(i, j) + 1) <= pixelBytes * Position
        BY <1>0, <1>3, <3>1, Products
      <4>2. pixelBytes * (Place(i, j) + 1) = pixelBytes * Place(i, j) + pixelBytes
        BY <1>0, <3>1
      <4>3. first \in Nat
        BY <1>0, <3>1, Products
      <4> QED BY <4>1, <4>2, <4>3
    <3>3. \A channel \in 0..2 : dst[first + channel] = value(channel)
      BY <2>4 DEF CopiedInv, PixelCopied
    <3>4. \A b \in DOMAIN dst : b \notin begin..(begin + 3) => dst'[b] = dst[b]
      BY <1>0 DEF Written
    <3>5. DOMAIN dst = 0..size
      BY DEF CopiedInv
    <3> HIDE DEF first, begin, size, value
    <3>6. \A channel \in 0..2 : first + channel \in 0..size /\ first + channel \notin begin..(begin + 3)
      BY <1>0, <1>5, <3>2
    <3> QED BY <3>3, <3>4, <3>5, <3>6
  <2> QED BY <1>6, <2>3, <2>4
<1>7. \A i \in 0..(DestH - 1), j \in 0..(DestW - 1) :
        i < y' \/ (i = y' /\ j < x') => i < y \/ (i = y /\ j < x) \/ (i = y /\ j = x)
  <2>1. CASE x + 1 < DestW
    <3>1. x' = x + 1 /\ y' = y
      BY <2>1 DEF CopyPixel
    <3> QED BY <1>0, <3>1
  <2>2. CASE ~(x + 1 < DestW)
    <3>1. x' = 0 /\ y' = y + 1
      BY <2>2 DEF CopyPixel
    <3> QED BY <1>0, <2>2, <3>1
  <2> QED BY <2>1, <2>2
<1> QED BY <1>0, <1>4, <1>6, <1>7 DEF CopiedInv

\* Every byte of the finished picture shows what lies at its place in the source, for
\* pictures of at most FLOAT_PRECISSION (32768) pixels by side: the four-byte writes of
\* three-byte pixels (Resampling.cpp) leave no trace, and the rounded steps do not
\* drift by more than a pixel.
THEOREM ResamplingPictureIsScaled ==
  ASSUME \A size \in Sizes : size <= FLOAT_PRECISSION
  PROVE  ResamplingSpec => []PictureIsScaled
<1>1. ResamplingInit => CopiedInv
  <2> SUFFICES ASSUME ResamplingInit PROVE CopiedInv
    OBVIOUS
  <2>1. y = 0 /\ x = 0 /\ DOMAIN dst = 0..(DestW * DestH * pixelBytes)
    BY DEF ResamplingInit
  <2>2. \A i \in 0..(DestH - 1), j \in 0..(DestW - 1) : ~(i < 0 \/ (i = 0 /\ j < 0))
    BY ResamplingAssumption DEF ResamplingInit
  <2> QED BY <2>1, <2>2 DEF CopiedInv
<1>2. ResamplingInv /\ CopiedInv /\ [ResamplingNext]_resamplingVars => CopiedInv'
  <2> SUFFICES ASSUME ResamplingInv, CopiedInv, [ResamplingNext]_resamplingVars
               PROVE  CopiedInv'
    OBVIOUS
  <2>1. CASE CopyPixel
    BY <2>1, WriteCopies
  <2>2. CASE UNCHANGED resamplingVars
    BY <2>2 DEF resamplingVars, parameters, CopiedInv, PixelCopied, Place, int_conv_y, int_conv_x,
                Step, UInt
  <2> QED BY <2>1, <2>2 DEF ResamplingNext
<1>3. ResamplingInv /\ CopiedInv => PictureIsScaled
  <2> SUFFICES ASSUME ResamplingInv, CopiedInv, y = DestH,
                      NEW i \in 0..(DestH - 1), NEW j \in 0..(DestW - 1), NEW channel \in 0..2
               PROVE  LET byte == dst[pixelBytes * (i * DestW + j) + channel] IN
                      /\ byte.channel = channel
                      /\ Shows(i, byte.row, SrcH, DestH)
                      /\ Shows(j, byte.col, SrcW, DestW)
    BY DEF PictureIsScaled
  <2>1. /\ SrcW \in Sizes /\ SrcH \in Sizes /\ DestW \in Sizes /\ DestH \in Sizes
        /\ i \in Nat /\ j \in Nat /\ i < DestH /\ j < DestW
    BY ResamplingAssumption DEF ResamplingInv, PictureTypeOK
  <2>2. PixelCopied(i, j)
    BY <2>1 DEF CopiedInv
  <2>3. dst[pixelBytes * (i * DestW + j) + channel] =
          [row |-> (i * int_conv_y) \div FLOAT_PRECISSION,
           col |-> (j * int_conv_x) \div FLOAT_PRECISSION, channel |-> channel]
    BY <2>2 DEF PixelCopied, Place
  <2>4. /\ Shows(i, (i * int_conv_y) \div FLOAT_PRECISSION, SrcH, DestH)
        /\ Shows(j, (j * int_conv_x) \div FLOAT_PRECISSION, SrcW, DestW)
    BY <2>1, IndexShows DEF int_conv_y, int_conv_x
  <2> QED BY <2>3, <2>4
<1>4. ResamplingSpec => []ResamplingInv
  BY InvInit, InvNext, PTL DEF ResamplingSpec
<1> QED BY <1>1, <1>2, <1>3, <1>4, PTL DEF ResamplingSpec
=============================================================================
