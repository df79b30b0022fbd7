---------------------------- MODULE GamerLifecycle ----------------------------
(***************************************************************************)
(* Starting and stopping the gamer PC's threads (DataProcessing.cpp): the  *)
(* controlling thread (the console's main or the GUI's Apply button), the  *)
(* capture threads (ScreenCaptureAndSendThread) and the accepting threads  *)
(* (ListenAndAcceptNewClients) share ThreadIsRunning, CapturedScreen and   *)
(* NetworkListener without any lock.  The GUI's settings have no audio     *)
(* port, so no recording thread shares the flag.                           *)
(***************************************************************************)
EXTENDS Naturals

CONSTANTS
  MaxStarts,        (* bound: how often the GUI's settings are applied        *)
  AntiDeadlock      (* how often a shutdown looks at ThreadIsRunning: 10      *)

ASSUME LifecycleAssumption ==
  /\ MaxStarts \in Nat \ {0}
  /\ AntiDeadlock \in Nat \ {0}

Starts == 1..MaxStarts   \* each start begins one thread of each kind at most

VARIABLES
  ShutdownNetwork,  (* TRUE in the console, which ends after one run; FALSE   *)
                    (* in the GUI, which applies settings again and again     *)
  ThreadIsRunning,  (* 0: stopped, 1: running, 2: asked to stop               *)
  NetworkListener,  (* "none", "open", "closed", or "deleted"                 *)
  connected,        (* NetworkListener->HasConnections()                      *)
  IsListening,      (* IsListeningToNewConnections                            *)
  CapturedScreen,   (* is there a captured picture?                           *)
  ctl,              (* where the controlling thread is                        *)
  started,          (* calls of StartDataProcessing so far                    *)
  wait,             (* what is left of AntiDeadlock                           *)
  worker,           (* where each capture thread is                           *)
  acceptor,         (* where each accepting thread is                         *)
  gaveUp,           (* history: a shutdown stopped waiting                    *)
  misused           (* history: what threads have used after it was deleted   *)

shared == <<ThreadIsRunning, NetworkListener, connected, IsListening,
            CapturedScreen>>
threads == <<worker, acceptor, misused>>
control == <<ctl, started, wait, gaveUp, ShutdownNetwork>>
vars == <<shared, threads, control>>

Init ==
  /\ ShutdownNetwork \in BOOLEAN
  /\ ThreadIsRunning = 0 /\ NetworkListener = "none" /\ connected = FALSE
  /\ IsListening = FALSE /\ CapturedScreen = FALSE
  /\ ctl = "init" /\ started = 0 /\ wait = 0
  /\ worker = [t \in Starts |-> "none"]
  /\ acceptor = [t \in Starts |-> "none"]
  /\ gaveUp = FALSE /\ misused = {}

-----------------------------------------------------------------------------
(* The controlling thread                                                  *)

\* InitNetwork: a listener is created once and kept, closed or not.
InitDataProcessing ==
  /\ ctl = "init"
  /\ started < (IF ShutdownNetwork THEN 1 ELSE MaxStarts)
  /\ NetworkListener' \in IF NetworkListener = "none" THEN {"open", "closed"}
                          ELSE {NetworkListener}
  /\ ctl' = "start"
  /\ UNCHANGED <<ThreadIsRunning, connected, IsListening, CapturedScreen,
                 threads, started, wait, gaveUp, ShutdownNetwork>>

\* The first half of StartDataProcessing begins the accepting thread.
StartAcceptor ==
  /\ ctl = "start"
  /\ ThreadIsRunning' = 1
  /\ started' = started + 1
  /\ acceptor' = [acceptor EXCEPT ![started'] = "begun"]
  /\ ctl' = "startWorker"
  /\ UNCHANGED <<NetworkListener, connected, IsListening, CapturedScreen,
                 worker, misused, wait, gaveUp, ShutdownNetwork>>

\* The second half begins the capture thread, unless accepting failed already.
StartWorker ==
  /\ ctl = "startWorker"
  /\ worker' = IF ThreadIsRunning = 1 THEN [worker EXCEPT ![started] = "begun"]
               ELSE worker
  /\ ctl' = "up"
  /\ UNCHANGED <<shared, acceptor, misused, started, wait, gaveUp, ShutdownNetwork>>

\* The user presses a key or the Apply button: ShutDownAllDataProcessing.
BeginShutdown ==
  /\ ctl = "up"
  /\ ctl' = IF ThreadIsRunning # 0 THEN "request" ELSE "close"
  /\ UNCHANGED <<shared, threads, started, wait, gaveUp, ShutdownNetwork>>

\* The stop request, written after the flag was looked at.
RequestStop ==
  /\ ctl = "request"
  /\ ThreadIsRunning' = 2
  /\ ctl' = "close"
  /\ UNCHANGED <<NetworkListener, connected, IsListening, CapturedScreen,
                 threads, started, wait, gaveUp, ShutdownNetwork>>

\* The console also closes every connection before it waits.
CloseForShutdown ==
  /\ ctl = "close"
  /\ IF ShutdownNetwork
     THEN NetworkListener' = "closed" /\ connected' = FALSE
     ELSE UNCHANGED <<NetworkListener, connected>>
  /\ wait' = AntiDeadlock
  /\ ctl' = "wait"
  /\ UNCHANGED <<ThreadIsRunning, IsListening, CapturedScreen, threads, started,
                 gaveUp, ShutdownNetwork>>

\* One turn of the waiting loop, which goes on while still holds; a loop left before
\* the thread has stopped gave up.
Wait(still, left, stopped) ==
  /\ ctl = "wait"
  /\ IF still
     THEN wait' = left /\ UNCHANGED <<ctl, gaveUp>>
     ELSE /\ ctl' = "free"
          /\ gaveUp' = (gaveUp \/ ~stopped)
          /\ UNCHANGED wait
  /\ UNCHANGED <<shared, threads, started, ShutdownNetwork>>

\* WaitForWorker that does not count.
WaitForever ==
  Wait(ThreadIsRunning # 0 /\ wait > 0, wait, ThreadIsRunning = 0)

\* WaitForWorker that takes a stop request for a stopped thread.
WaitForRequest ==
  Wait(ThreadIsRunning = 1 /\ wait > 0, wait - 1, ThreadIsRunning # 1)

\* Wait for the capture thread to write 0, at most AntiDeadlock times.
WaitForWorker ==
  Wait(ThreadIsRunning # 0 /\ wait > 0, wait - 1, ThreadIsRunning = 0)

\* The picture is deleted, for the console the listener too.  The GUI goes on with
\* the new settings.
FreeResources ==
  /\ ctl = "free"
  /\ CapturedScreen' = FALSE
  /\ IF ShutdownNetwork
     THEN NetworkListener' = "deleted" /\ connected' = FALSE /\ ctl' = "exited"
     ELSE UNCHANGED <<NetworkListener, connected>> /\ ctl' = "audio"
  /\ UNCHANGED <<ThreadIsRunning, IsListening, threads, started, wait, gaveUp, ShutdownNetwork>>

\* The GUI goes on with AudioShutDownAllDataProcessing, which looks at the same flag
\* once more, also when the settings have no audio port.
AudioShutDown ==
  /\ ctl = "audio"
  /\ wait' = AntiDeadlock
  /\ ctl' = IF ThreadIsRunning # 0 THEN "audioRequest" ELSE "init"
  /\ UNCHANGED <<shared, threads, started, gaveUp, ShutdownNetwork>>

AudioRequestStop ==
  /\ ctl = "audioRequest"
  /\ ThreadIsRunning' = 2
  /\ ctl' = "audioWait"
  /\ UNCHANGED <<NetworkListener, connected, IsListening, CapturedScreen,
                 threads, started, wait, gaveUp, ShutdownNetwork>>

\* Its waiting loop; the capture thread's picture is gone already.
AudioWait ==
  /\ ctl = "audioWait"
  /\ IF ThreadIsRunning # 0 /\ wait > 0
     THEN wait' = wait - 1 /\ UNCHANGED ctl
     ELSE ctl' = "init" /\ UNCHANGED wait
  /\ UNCHANGED <<shared, threads, started, gaveUp, ShutdownNetwork>>

Controller ==
  \/ InitDataProcessing \/ StartAcceptor \/ StartWorker
  \/ RequestStop \/ CloseForShutdown \/ WaitForWorker \/ FreeResources
  \/ AudioShutDown \/ AudioRequestStop \/ AudioWait

-----------------------------------------------------------------------------
(* ScreenCaptureAndSendThread                                              *)

\* A thread that finds something deleted is noted.
Misuse(kind, deleted) ==
  misused' = IF deleted THEN misused \cup {kind} ELSE misused

Deleted == NetworkListener = "deleted"

At(t, from, to) ==
  /\ worker[t] = from
  /\ worker' = [worker EXCEPT ![t] = to]
  /\ UNCHANGED <<NetworkListener, IsListening, acceptor, control>>

\* Everything up to the loop; searching the window may take a second.
SetUp(t) ==
  /\ At(t, "begun", "armed")
  /\ CapturedScreen' \in BOOLEAN   \* with a resize, a first picture is taken
  /\ Misuse("listener", Deleted)
  /\ UNCHANGED <<ThreadIsRunning, connected>>

\* The thread declares itself running, whatever was asked for since it began.
Arm(t) ==
  /\ At(t, "armed", "loop")
  /\ ThreadIsRunning' = 1
  /\ UNCHANGED <<connected, CapturedScreen, misused>>

\* LoopGoesOn until the flag is 0.
LoopGoesOnWhenAsked(t) ==
  /\ ThreadIsRunning # 0
  /\ At(t, "loop", "poll")
  /\ UNCHANGED <<ThreadIsRunning, connected, CapturedScreen, misused>>

\* The loop goes on while ThreadIsRunning is 1.
LoopGoesOn(t) ==
  /\ ThreadIsRunning = 1
  /\ At(t, "loop", "poll")
  /\ UNCHANGED <<ThreadIsRunning, connected, CapturedScreen, misused>>

LoopEnds(t) ==
  /\ ThreadIsRunning # 1
  /\ At(t, "loop", "ending")
  /\ UNCHANGED <<ThreadIsRunning, connected, CapturedScreen, misused>>

\* Without a client there is nothing to do; a thread asked to stop since the head
\* of the loop takes a picture all the same.
PollClients(t) ==
  /\ At(t, "poll",
        IF connected \/ ThreadIsRunning # 1 THEN "capture" ELSE "loop")
  /\ Misuse("listener", Deleted)
  /\ UNCHANGED <<ThreadIsRunning, connected, CapturedScreen>>

\* CaptureScreen replaces the picture; without one the thread leaves its loop.
Capture(t) ==
  /\ \/ At(t, "capture", "send")
     \/ At(t, "capture", "ending")
  /\ CapturedScreen' = TRUE
  /\ UNCHANGED <<ThreadIsRunning, connected, misused>>

\* The picture is resized, compressed and sent, if there still is a client.  A
\* failing send forgets the client.
SendPicture(t) ==
  /\ At(t, "send", "loop")
  /\ misused' = misused \cup (IF CapturedScreen THEN {} ELSE {"picture"})
                        \cup (IF Deleted THEN {"listener"} ELSE {})
  /\ connected' \in {FALSE, connected}
  /\ UNCHANGED <<ThreadIsRunning, CapturedScreen>>

\* The last step of the thread.
WorkerEnds(t) ==
  /\ At(t, "ending", "done")
  /\ ThreadIsRunning' = 0
  /\ UNCHANGED <<connected, CapturedScreen, misused>>

WorkerRuns(t) ==
  SetUp(t) \/ Arm(t) \/ LoopGoesOn(t) \/ LoopEnds(t) \/ PollClients(t)
    \/ Capture(t) \/ WorkerEnds(t)

-----------------------------------------------------------------------------
(* ListenAndAcceptNewClients                                               *)

AcceptorAt(t, from, to) ==
  /\ acceptor[t] = from
  /\ acceptor' = [acceptor EXCEPT ![t] = to]
  /\ UNCHANGED <<NetworkListener, CapturedScreen, worker, control, misused>>

\* A thread that finds another one listening leaves again.
CheckListening(t) ==
  /\ AcceptorAt(t, "begun",
       IF Deleted \/ IsListening THEN "done" ELSE "checked")
  /\ UNCHANGED <<ThreadIsRunning, connected, IsListening>>

SetListening(t) ==
  /\ AcceptorAt(t, "checked", "loop")
  /\ IsListening' = TRUE
  /\ UNCHANGED <<ThreadIsRunning, connected>>

AcceptorLoop(t) ==
  /\ AcceptorAt(t, "loop",
       IF ThreadIsRunning = 1 /\ ~Deleted THEN "accept" ELSE "leaving")
  /\ UNCHANGED <<ThreadIsRunning, connected, IsListening>>

\* accept() waits for a client.
Accepted(t) ==
  /\ NetworkListener = "open"
  /\ AcceptorAt(t, "accept", "loop")
  /\ connected' = TRUE
  /\ UNCHANGED <<ThreadIsRunning, IsListening>>

\* accept() fails, at once on a closed socket: the connections are closed.
AcceptFails(t) ==
  /\ acceptor[t] = "accept"
  /\ acceptor' = [acceptor EXCEPT ![t] = "failed"]
  /\ NetworkListener' = IF Deleted THEN "deleted" ELSE "closed"
  /\ connected' = FALSE
  /\ Misuse("acceptor", Deleted)
  /\ UNCHANGED <<ThreadIsRunning, IsListening, CapturedScreen, worker, control>>

\* The failure stops the capture thread.
StopAfterFailure(t) ==
  /\ AcceptorAt(t, "failed", "leaving")
  /\ ThreadIsRunning' = 2
  /\ UNCHANGED <<connected, IsListening>>

StopListening(t) ==
  /\ AcceptorAt(t, "leaving", "done")
  /\ IsListening' = FALSE
  /\ UNCHANGED <<ThreadIsRunning, connected>>

AcceptorRuns(t) ==
  CheckListening(t) \/ SetListening(t) \/ AcceptorLoop(t)
    \/ (NetworkListener # "open" /\ AcceptFails(t))
    \/ StopAfterFailure(t) \/ StopListening(t)

Next ==
  \/ Controller \/ BeginShutdown
  \/ \E t \in Starts :
       \/ WorkerRuns(t) \/ SendPicture(t)
       \/ AcceptorRuns(t) \/ Accepted(t) \/ AcceptFails(t)

Spec == Init /\ [][Next]_vars

\* Every thread runs on, but send() and accept() may block forever and the user
\* may never press a key.
FairSpec ==
  /\ Spec
  /\ WF_vars(Controller)
  /\ \A t \in Starts : WF_vars(WorkerRuns(t)) /\ WF_vars(AcceptorRuns(t))

-----------------------------------------------------------------------------
(* Properties                                                              *)

\* Every variable holds one of its values.
TypeOK ==
  /\ ShutdownNetwork \in BOOLEAN
  /\ ThreadIsRunning \in 0..2
  /\ NetworkListener \in {"none", "open", "closed", "deleted"}
  /\ connected \in BOOLEAN /\ IsListening \in BOOLEAN
  /\ CapturedScreen \in BOOLEAN /\ gaveUp \in BOOLEAN
  /\ ctl \in {"init", "start", "startWorker", "up", "request", "close", "wait",
              "free", "audio", "audioRequest", "audioWait", "exited"}
  /\ started \in 0..MaxStarts /\ wait \in 0..AntiDeadlock
  /\ worker \in [Starts -> {"none", "begun", "armed", "loop", "poll", "capture",
                            "send", "ending", "done"}]
  /\ acceptor \in [Starts -> {"none", "begun", "checked", "loop", "accept",
                              "failed", "leaving", "done"}]
  /\ misused \subseteq {"picture", "listener", "acceptor"}

Alive == {t \in Starts : worker[t] \notin {"none", "done"}}

\* A shutdown that saw ThreadIsRunning at 0 leaves no capture thread behind, so two
\* of them never share the picture and none uses what was deleted.  Only a wait
\* that gave up can break this.
WorkerAlone ==
  ~gaveUp => /\ \A s, t \in Alive : s = t
             /\ misused \cap {"picture", "listener"} = {}

\* Every shutdown returns, whatever the capture thread, the network and the clients do.
ShutdownReturns == ctl = "wait" ~> ctl \in {"init", "exited"}

\* A stop request that stands stops every capture thread that is not held up in
\* send().
StopRequestIsHeeded ==
  <>[](ThreadIsRunning = 2) => <>[](\A t \in Alive : worker[t] = "send")

\* "wait for worker thread to exit": once asked to stop, the threads stay asked to
\* stop until the worker has exited or a new start is made.
StopRequestStands ==
  [][ThreadIsRunning = 2 /\ ThreadIsRunning' = 1 => ctl = "start"]_vars
=============================================================================
