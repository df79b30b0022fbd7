--------------------------- MODULE EncoderLifecycle ---------------------------
(***************************************************************************)
(* The encoder PC's program from its first thread to its exit: the window  *)
(* (WndProc), the video thread (ListenAndPaintSelfRestart), the sound      *)
(* thread (ListenAndSoundSelfRestart), and for every sound connection a    *)
(* reader thread (SoundReadWriteDataThread) and a player thread            *)
(* (PlayAudioStream).  All of them share ThreadIsRunning without a lock.   *)
(***************************************************************************)
EXTENDS Naturals, FiniteSets

CONSTANTS
  MaxConnections,     (* bound: how many sound connections succeed            *)
  AntiDeadlockTimer,  (* how often the window looks at ThreadIsRunning: 10    *)
  AntiDeadLock        (* how often the sound thread looks for sound: 10       *)

ASSUME EncoderAssumption ==
  /\ MaxConnections \in Nat \ {0}
  /\ AntiDeadlockTimer \in Nat \ {0}
  /\ AntiDeadLock \in Nat \ {0}

Connections == 1..MaxConnections

VARIABLES
  ThreadIsRunning,  (* 0: the window asks to exit, 1: running, 2: ended       *)
  exitCode,         (* "none" while the process runs, then "ok" or "error"    *)
  window,           (* what the window procedure is doing                     *)
  timer,            (* what is left of AntiDeadlockTimer                      *)
  video,            (* where the video thread is                              *)
  sound,            (* where the sound thread is                              *)
  tries,            (* what is left of AntiDeadLock                           *)
  connections,      (* sound connections made so far                          *)
  NetworkReader,    (* each of them: "none", "open", "closed", or "deleted"   *)
  available,        (* AudioStore.GetAvailableFrames() > 0                    *)
  reader,           (* where each reader thread is                            *)
  player,           (* where each player thread is                            *)
  asked,            (* history: the user has asked to exit                    *)
  revived           (* history: the video thread wrote 1 over another value   *)

flags == <<ThreadIsRunning, exitCode, asked, revived>>
win == <<window, timer>>
snd == <<sound, tries, connections>>
vars == <<flags, win, video, snd, NetworkReader, available, reader, player>>

\* MyMain: the flag is written before the two threads begin.
Init ==
  /\ ThreadIsRunning = 1 /\ exitCode = "none" /\ asked = FALSE /\ revived = FALSE
  /\ window = "pumping" /\ timer = 0
  /\ video = "restart"
  /\ sound = "restart" /\ tries = 0 /\ connections = 0
  /\ NetworkReader = [r \in Connections |-> "none"]
  /\ available = FALSE
  /\ reader = [r \in Connections |-> "none"]
  /\ player = [p \in Connections |-> "none"]

\* The end of the process, whichever thread brings it about.
Exit(code) == exitCode' = code /\ UNCHANGED <<ThreadIsRunning, asked, revived>>

-----------------------------------------------------------------------------
(* The window                                                              *)

others == <<video, snd, NetworkReader, available, reader, player>>

\* Both messages write 0, start the timer and wait.
Stop(to) ==
  /\ ThreadIsRunning' = 0
  /\ asked' = TRUE
  /\ window' = to
  /\ timer' = AntiDeadlockTimer
  /\ UNCHANGED <<exitCode, revived, others>>

\* IDM_EXIT from the menu, or WM_DESTROY at once when the window is closed.
AskToExit ==
  /\ window = "pumping"
  /\ \E to \in {"exitWait", "destroyWait"} : Stop(to)

\* WaitForThreads that does not count.
WaitForThreadsForever(from, to) ==
  /\ window = from
  /\ ThreadIsRunning # 0
  /\ window' = to
  /\ UNCHANGED <<timer, flags, others>>

\* One turn of a waiting loop.  Whatever is written over the 0 ends it.
WaitForThreads(from, to) ==
  /\ window = from
  /\ IF ThreadIsRunning = 0 /\ timer > 0
     THEN timer' = timer - 1 /\ UNCHANGED window
     ELSE window' = to /\ UNCHANGED timer
  /\ UNCHANGED <<flags, others>>

\* DestroyWindow sends WM_DESTROY, which writes 0 again.
DestroyWindow == window = "destroy" /\ Stop("destroyWait")

\* WM_QUIT ends the message loop and the program.
Quit == window = "quit" /\ Exit("ok") /\ UNCHANGED <<win, others>>

WndProc ==
  \/ WaitForThreads("exitWait", "destroy")
  \/ DestroyWindow
  \/ WaitForThreads("destroyWait", "quit")
  \/ Quit

-----------------------------------------------------------------------------
(* The video thread                                                        *)

Video(from, to) ==
  /\ video = from
  /\ video' = to
  /\ UNCHANGED <<win, snd, NetworkReader, available, reader, player>>

\* ListenAndPaint is called again while nobody has asked to stop.
VideoRestart ==
  /\ Video("restart", IF ThreadIsRunning = 1 THEN "connect" ELSE "stopping")
  /\ UNCHANGED flags

\* Without its log file the thread ends the program.
LogFails == Video("connect", "exited") /\ Exit("error")

\* The server may refuse.
VideoConnect ==
  /\ \/ Video("connect", "restart")
     \/ Video("connect", "connected")
  /\ UNCHANGED flags

\* A connected thread declares itself running, whatever was asked meanwhile.
VideoArm ==
  /\ Video("connected", "loop")
  /\ ThreadIsRunning' = 1
  /\ revived' = (revived \/ ThreadIsRunning # 1)
  /\ UNCHANGED <<exitCode, asked>>

VideoLoop ==
  /\ Video("loop", IF ThreadIsRunning = 1 THEN "receive" ELSE "restart")
  /\ UNCHANGED flags

\* The receiver returns a frame, or fails: the connection is closed.
VideoReceive ==
  /\ \E to \in {"loop", "resize", "restart"} : Video("receive", to)
  /\ UNCHANGED flags

\* A picture of a new size resizes the window, which takes until the window's own
\* thread handles the messages this sends to it.
VideoResizes ==
  /\ window \in {"pumping", "quit"}   \* outside of WndProc
  /\ Video("resize", "loop")
  /\ UNCHANGED flags

VideoStops ==
  /\ Video("stopping", "exit")
  /\ ThreadIsRunning' = 2
  /\ UNCHANGED <<exitCode, asked, revived>>

\* The window belongs to another thread and is not destroyed; exit() is called.
VideoExits == Video("exit", "exited") /\ Exit("ok")

VideoRuns ==
  \/ VideoRestart \/ VideoConnect \/ VideoArm \/ VideoLoop \/ VideoResizes
  \/ VideoStops \/ VideoExits

-----------------------------------------------------------------------------
(* The sound thread, ReadAndRenderSoundUntilNetwork included               *)

Sound(from, to) ==
  /\ sound = from
  /\ sound' = to
  /\ UNCHANGED <<win, video, available>>

SoundRestart ==
  /\ Sound("restart", IF ThreadIsRunning = 1 THEN "connect" ELSE "stopping")
  /\ UNCHANGED <<flags, tries, connections, NetworkReader, reader, player>>

\* A refused connection is tried again.
SoundRefused ==
  /\ Sound("connect", "restart")
  /\ UNCHANGED <<flags, tries, connections, NetworkReader, reader, player>>

\* With a connection, a reader thread begins.
SoundConnects ==
  /\ connections < MaxConnections
  /\ Sound("connect", "await")
  /\ connections' = connections + 1
  /\ NetworkReader' = [NetworkReader EXCEPT ![connections'] = "open"]
  /\ reader' = [reader EXCEPT ![connections'] = "loop"]
  /\ tries' = AntiDeadLock
  /\ UNCHANGED <<flags, player>>

\* Up to a second for the first sound, which may also be left from before.
AwaitSound ==
  /\ IF ~available /\ tries > 0
     THEN Sound("await", "await") /\ tries' = tries - 1
     ELSE Sound("await", "check") /\ UNCHANGED tries
  /\ UNCHANGED <<flags, connections, NetworkReader, reader, player>>

CheckSound ==
  /\ Sound("check", IF available THEN "latency" ELSE "close")
  /\ UNCHANGED <<flags, tries, connections, NetworkReader, reader, player>>

BeginPlayer ==
  /\ Sound("latency", "playing")
  /\ player' = [player EXCEPT ![connections] = "begun"]
  /\ UNCHANGED <<flags, tries, connections, NetworkReader, reader>>

\* SoundPlays that also starts over when the connection is lost.
SoundPlaysWhileConnected ==
  /\ Sound("playing", "close")
  /\ ThreadIsRunning # 1 \/ NetworkReader[connections] # "open"
  /\ UNCHANGED <<flags, tries, connections, NetworkReader, reader, player>>

\* The thread stays until it is asked to stop, whatever reader and player do.
SoundPlays ==
  /\ ThreadIsRunning # 1
  /\ Sound("playing", "close")
  /\ UNCHANGED <<flags, tries, connections, NetworkReader, reader, player>>

\* CloseSound that leaves the socket to the destructor.
LeaveSocketOpen ==
  /\ Sound("close", "grace")
  /\ UNCHANGED <<flags, tries, connections, NetworkReader, reader, player>>

\* Closing the socket makes a reader waiting in recv() return.
CloseSound ==
  /\ Sound("close", "grace")
  /\ NetworkReader' = [NetworkReader EXCEPT ![connections] = "closed"]
  /\ UNCHANGED <<flags, tries, connections, reader, player>>

\* A reader thread with something to do; the others wait in recv().
Busy(r) ==
  \/ reader[r] \in {"loop", "store"}
  \/ reader[r] = "receive" /\ NetworkReader[r] # "open"

\* The connection is deleted 100 ms later: the time a reader that has something to
\* do needs to do it.
DeleteReader ==
  /\ Sound("grace", "restart")
  /\ ~Busy(connections)
  /\ NetworkReader' = [NetworkReader EXCEPT ![connections] = "deleted"]
  /\ UNCHANGED <<flags, tries, connections, reader, player>>

SoundStops ==
  /\ Sound("stopping", "done")
  /\ ThreadIsRunning' = 2
  /\ UNCHANGED <<exitCode, asked, revived, tries, connections, NetworkReader,
                 reader, player>>

SoundRuns ==
  \/ SoundRestart \/ SoundRefused \/ SoundConnects \/ AwaitSound \/ CheckSound
  \/ BeginPlayer \/ SoundPlays \/ CloseSound \/ DeleteReader \/ SoundStops

-----------------------------------------------------------------------------
(* The reader and player threads                                           *)

Reader(r, from, to) ==
  /\ reader[r] = from
  /\ reader' = [reader EXCEPT ![r] = to]
  /\ UNCHANGED <<win, video, snd, player, exitCode, asked, revived>>

\* ReaderLoop that does not look at the socket.
ReaderLoopWithoutSocket(r) ==
  /\ Reader(r, "loop", IF ThreadIsRunning = 1 THEN "receive" ELSE "done")
  /\ UNCHANGED <<ThreadIsRunning, NetworkReader, available>>

\* ReaderLoop with the write that is commented out behind it (DataReader.cpp 28).
ReaderEndsAll(r) ==
  LET goesOn == ThreadIsRunning = 1 /\ NetworkReader[r] = "open"
  IN /\ Reader(r, "loop", IF goesOn THEN "receive" ELSE "done")
     /\ ThreadIsRunning' = IF goesOn THEN 1 ELSE 2
     /\ UNCHANGED <<NetworkReader, available>>

ReaderLoop(r) ==
  /\ Reader(r, "loop",
       IF ThreadIsRunning = 1 /\ NetworkReader[r] = "open" THEN "receive" ELSE "done")
  /\ UNCHANGED <<ThreadIsRunning, NetworkReader, available>>

ReaderReceives(r) ==
  /\ NetworkReader[r] = "open"
  /\ Reader(r, "receive", "store")
  /\ UNCHANGED <<ThreadIsRunning, NetworkReader, available>>

\* A connection that fails, or that the sender closes, is closed here too.
ConnectionLost(r) ==
  /\ NetworkReader[r] = "open"
  /\ Reader(r, "receive", "loop")
  /\ NetworkReader' = [NetworkReader EXCEPT ![r] = "closed"]
  /\ UNCHANGED <<ThreadIsRunning, available>>

\* recv() on a socket this program has closed.
ReceiveFails(r) ==
  /\ NetworkReader[r] # "open"
  /\ Reader(r, "receive", "loop")
  /\ UNCHANGED <<ThreadIsRunning, NetworkReader, available>>

ReaderStores(r) ==
  /\ Reader(r, "store", "loop")
  /\ available' = (available \/ ThreadIsRunning = 1)
  /\ UNCHANGED <<ThreadIsRunning, NetworkReader>>

ReaderRuns(r) == ReaderLoop(r) \/ ReceiveFails(r) \/ ReaderStores(r)

Player(p, from, to) ==
  /\ player[p] = from
  /\ player' = [player EXCEPT ![p] = to]
  /\ UNCHANGED <<flags, win, video, snd, NetworkReader, reader>>

\* LoadData takes what the device asks for, which may be all there is.
LoadData(p, from) ==
  /\ available
  /\ Player(p, from, "loop")
  /\ available' \in BOOLEAN

\* The device fails, or it asks for more than there is.
PlayerFails(p, from) == Player(p, from, "done") /\ UNCHANGED available

PlayerLoop(p) ==
  /\ Player(p, "loop", IF ThreadIsRunning = 1 THEN "load" ELSE "done")
  /\ UNCHANGED available

PlayerRuns(p) ==
  \/ PlayerLoop(p)
  \/ \E from \in {"begun", "load"} : LoadData(p, from) \/ PlayerFails(p, from)

-----------------------------------------------------------------------------
\* No thread outlives the process.
Running == exitCode = "none"

Next ==
  /\ Running
  /\ \/ AskToExit \/ WndProc
     \/ VideoRuns \/ LogFails \/ VideoReceive
     \/ SoundRuns
     \/ \E r \in Connections :
          ReaderRuns(r) \/ ReaderReceives(r) \/ ConnectionLost(r) \/ PlayerRuns(r)

Spec == Init /\ [][Next]_vars

\* Every thread runs on, but recv() may block forever, the log file may never fail
\* and the user may never ask to exit.
FairSpec ==
  /\ Spec
  /\ WF_vars(Running /\ WndProc)
  /\ WF_vars(Running /\ VideoRuns)
  /\ WF_vars(Running /\ SoundRuns)
  /\ \A r \in Connections :
       WF_vars(Running /\ ReaderRuns(r)) /\ WF_vars(Running /\ PlayerRuns(r))

-----------------------------------------------------------------------------
(* Properties                                                              *)

\* Every variable holds one of its values.
TypeOK ==
  /\ ThreadIsRunning \in 0..2 /\ exitCode \in {"none", "ok", "error"}
  /\ asked \in BOOLEAN /\ revived \in BOOLEAN /\ available \in BOOLEAN
  /\ window \in {"pumping", "exitWait", "destroy", "destroyWait", "quit"}
  /\ timer \in 0..AntiDeadlockTimer
  /\ video \in {"restart", "connect", "connected", "loop", "receive", "resize",
                "stopping", "exit", "exited"}
  /\ sound \in {"restart", "connect", "await", "check", "latency", "playing",
                "close", "grace", "stopping", "done"}
  /\ tries \in 0..AntiDeadLock /\ connections \in 0..MaxConnections
  /\ NetworkReader \in [Connections -> {"none", "open", "closed", "deleted"}]
  /\ reader \in [Connections -> {"none", "loop", "receive", "store", "done"}]
  /\ player \in [Connections -> {"none", "begun", "loop", "load", "done"}]

\* Lost and refused connections, a player out of sound and ended readers never stop
\* the program: only the user does.
OnlyUserStops == ThreadIsRunning # 1 \/ exitCode = "ok" => asked

Players == {p \in Connections : player[p] \notin {"none", "done"}}

\* Two players never take sound out of the one AudioStore, unless the video thread
\* has overwritten the stop request that should have ended the first.
OnePlayer == ~revived => Cardinality(Players) <= 1

\* A reader thread has ended when the connection it uses is deleted, and so before
\* the next reader begins to store.
ReaderEndsFirst ==
  \A r \in Connections : NetworkReader[r] = "deleted" => reader[r] = "done"

\* A reader thread ends when its connection is lost or closed, also while the
\* program goes on.
LostConnectionEndsReader ==
  \A r \in Connections :
    NetworkReader[r] = "closed" ~> reader[r] = "done" \/ ~Running

\* A user who asks to exit sees the program end, also when threads are stuck in
\* recv() and when the stop request is overwritten.
ExitCompletes == asked ~> ~Running

-----------------------------------------------------------------------------
(* The inductive invariant behind the safety properties, part by part      *)

\* What follows a stop request follows the user's.
StopInv ==
  /\ ThreadIsRunning # 1 \/ exitCode = "ok" => asked
  /\ window # "pumping" \/ video \in {"stopping", "exit"} \/ sound = "stopping" => asked

\* Connections are made one after the other, each is left only by the sound thread, and
\* a reader thread is there for every one.
ConnectionInv ==
  /\ \A r \in Connections :
       /\ NetworkReader[r] = "none" <=> r > connections
       /\ reader[r] = "none" <=> r > connections
       /\ NetworkReader[r] = "deleted" => reader[r] = "done"
  /\ sound \in {"await", "check", "latency", "playing", "close", "grace"} =>
       /\ connections \in Connections
       /\ NetworkReader[connections] \in
            IF sound = "grace" THEN {"closed"} ELSE {"open", "closed"}

\* As long as a stop request stays, a player that has begun is the last connection's,
\* and after it the sound thread connects no more.
PlayerInv ==
  ~revived =>
    \A p \in Connections :
      player[p] # "none" =>
        /\ p = connections
        /\ \/ sound = "playing"
           \/ ThreadIsRunning # 1 /\ sound \in {"close", "grace", "restart", "stopping", "done"}

\* All of it.
IInv == TypeOK /\ StopInv /\ ConnectionInv /\ PlayerInv
=============================================================================
