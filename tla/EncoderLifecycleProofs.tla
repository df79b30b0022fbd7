------------------------- MODULE EncoderLifecycleProofs ------------------------
(***************************************************************************)
(* Proofs about the encoder PC's program from its first thread to its      *)
(* exit: EncoderLifecycle's inductive invariant, and what follows from it  *)
(* for every number of connections and every length of the waits.          *)
(***************************************************************************)
EXTENDS EncoderLifecycle, FiniteSetTheorems, TLAPS

-----------------------------------------------------------------------------
(* Types                                                                   *)

\* The steps of the program, thread by thread.
LEMMA Steps ==
  ASSUME [Next]_vars
  PROVE  \/ AskToExit \/ WndProc
         \/ VideoRuns \/ LogFails \/ VideoReceive
         \/ SoundRuns
         \/ \E r \in Connections : ReaderRuns(r) \/ ReaderReceives(r) \/ ConnectionLost(r)
         \/ \E p \in Connections : PlayerRuns(p)
         \/ UNCHANGED vars
BY DEF Next

\* No thread leaves a variable out of its type.
LEMMA TypeNext ==
  ASSUME TypeOK, [Next]_vars
  PROVE  TypeOK'
<1>0. /\ AntiDeadlockTimer \in Nat /\ AntiDeadLock \in Nat /\ MaxConnections \in Nat
      /\ timer \in 0..AntiDeadlockTimer /\ tries \in 0..AntiDeadLock
      /\ connections \in 0..MaxConnections
  BY EncoderAssumption DEF TypeOK
<1>1. ASSUME AskToExit \/ WndProc
      PROVE  TypeOK'
  <2>1. CASE \E to \in {"exitWait", "destroyWait"} : Stop(to)
    <3>1. timer' \in 0..AntiDeadlockTimer /\ ThreadIsRunning' \in 0..2
      BY <1>0, <2>1 DEF Stop
    <3>2. asked' \in BOOLEAN /\ revived' \in BOOLEAN
      BY <2>1, Zenon DEF Stop, TypeOK
    <3> QED
      BY <2>1, <3>1, <3>2 DEF Stop, TypeOK, others, snd
  <2>2. CASE \E from, to \in {"exitWait", "destroy", "destroyWait", "quit"} :
               WaitForThreads(from, to)
    <3>1. timer' \in 0..AntiDeadlockTimer
      BY <1>0, <2>2 DEF WaitForThreads
    <3> QED
      BY <2>2, <3>1 DEF WaitForThreads, TypeOK, flags, others, snd
  <2>3. CASE Quit
    BY <2>3 DEF Quit, Exit, TypeOK, win, others, snd
  <2> QED
    BY <1>1, <2>1, <2>2, <2>3 DEF AskToExit, WndProc, DestroyWindow
<1>2. ASSUME VideoRuns \/ LogFails \/ VideoReceive
      PROVE  TypeOK'
  <2>1. asked' \in BOOLEAN /\ revived' \in BOOLEAN
    BY <1>2, Zenon
    DEF VideoRuns, VideoRestart, VideoConnect, VideoArm, VideoLoop, VideoResizes,
        VideoStops, VideoExits, LogFails, VideoReceive, Exit, TypeOK, flags
  <2> QED
    BY <1>2, <2>1
    DEF VideoRuns, VideoRestart, VideoConnect, VideoArm, VideoLoop, VideoResizes,
        VideoStops, VideoExits, LogFails, VideoReceive, Video, Exit, TypeOK, flags, win,
        snd
<1>3. ASSUME SoundRuns
      PROVE  TypeOK'
  <2>1. /\ tries' \in 0..AntiDeadLock /\ connections' \in 0..MaxConnections
    BY <1>0, <1>3
    DEF SoundRuns, SoundRestart, SoundRefused, SoundConnects, AwaitSound, CheckSound,
        BeginPlayer, SoundPlays, CloseSound, DeleteReader, SoundStops
  <2> QED
    BY <1>3, <2>1
    DEF SoundRuns, SoundRestart, SoundRefused, SoundConnects, AwaitSound, CheckSound,
        BeginPlayer, SoundPlays, CloseSound, DeleteReader, SoundStops, Sound, TypeOK,
        flags, win
<1>4. ASSUME NEW r \in Connections, ReaderRuns(r) \/ ReaderReceives(r) \/ ConnectionLost(r)
      PROVE  TypeOK'
  <2>1. available' \in BOOLEAN
    BY <1>4, Zenon
    DEF ReaderRuns, ReaderLoop, ReceiveFails, ReaderStores, ReaderReceives,
        ConnectionLost, TypeOK
  <2> QED
    BY <1>4, <2>1
    DEF ReaderRuns, ReaderLoop, ReceiveFails, ReaderStores, ReaderReceives,
        ConnectionLost, Reader, TypeOK, win, snd
<1>5. ASSUME NEW p \in Connections, PlayerRuns(p)
      PROVE  TypeOK'
  BY <1>5 DEF PlayerRuns, PlayerLoop, LoadData, PlayerFails, Player, TypeOK, flags, win, snd
<1>6. ASSUME UNCHANGED vars
      PROVE  TypeOK'
  BY <1>6 DEF vars, flags, win, snd, TypeOK
<1> QED
  BY <1>1, <1>2, <1>3, <1>4, <1>5, <1>6, Steps

-----------------------------------------------------------------------------
(* What stops                                                              *)

\* Lost connections, ended readers and players that run out of sound write nothing that
\* stops the program.
LEMMA StopNext ==
  ASSUME TypeOK, StopInv, [Next]_vars
  PROVE  StopInv'
<1>1. ASSUME AskToExit \/ WndProc
      PROVE  StopInv'
  BY <1>1
  DEF AskToExit, WndProc, Stop, WaitForThreads, DestroyWindow, Quit, Exit, StopInv,
      flags, win, others, snd
<1>2. ASSUME VideoRuns \/ LogFails \/ VideoReceive
      PROVE  StopInv'
  BY <1>2
  DEF VideoRuns, VideoRestart, VideoConnect, VideoArm, VideoLoop, VideoResizes,
      VideoStops, VideoExits, LogFails, VideoReceive, Video, Exit, StopInv, flags, win, snd
<1>3. ASSUME SoundRuns
      PROVE  StopInv'
  BY <1>3
  DEF SoundRuns, SoundRestart, SoundRefused, SoundConnects, AwaitSound, CheckSound,
      BeginPlayer, SoundPlays, CloseSound, DeleteReader, SoundStops, Sound, StopInv,
      flags, win
<1>4. ASSUME NEW r \in Connections, ReaderRuns(r) \/ ReaderReceives(r) \/ ConnectionLost(r)
      PROVE  StopInv'
  BY <1>4
  DEF ReaderRuns, ReaderLoop, ReceiveFails, ReaderStores, ReaderReceives, ConnectionLost,
      Reader, StopInv, win, snd
<1>5. ASSUME NEW p \in Connections, PlayerRuns(p)
      PROVE  StopInv'
  BY <1>5 DEF PlayerRuns, PlayerLoop, LoadData, PlayerFails, Player, StopInv, flags, win, snd
<1>6. ASSUME UNCHANGED vars
      PROVE  StopInv'
  BY <1>6 DEF vars, flags, win, snd, StopInv
<1> QED
  BY <1>1, <1>2, <1>3, <1>4, <1>5, <1>6, Steps

-----------------------------------------------------------------------------
(* Connections and their reader threads                                    *)

\* The sound thread makes and leaves connections one at a time.
LEMMA SoundKeepsConnections ==
  ASSUME TypeOK, ConnectionInv, SoundRuns
  PROVE  ConnectionInv'
<1>0. /\ NetworkReader \in [Connections -> {"none", "open", "closed", "deleted"}]
      /\ reader \in [Connections -> {"none", "loop", "receive", "store", "done"}]
      /\ connections \in 0..MaxConnections /\ MaxConnections \in Nat
      /\ \A r \in Connections : r \in Nat /\ r >= 1
  BY EncoderAssumption DEF TypeOK, Connections
<1>1. CASE SoundConnects
  <2> DEFINE c == connections + 1
  <2>1. /\ sound' = "await" /\ connections' = c
        /\ NetworkReader' = [NetworkReader EXCEPT ![c] = "open"]
        /\ reader' = [reader EXCEPT ![c] = "loop"]
        /\ c \in Connections
    BY <1>0, <1>1 DEF SoundConnects, Sound, Connections
  <2>2. \A r \in Connections : r > c <=> (r > connections /\ r # c)
    BY <1>0
  <2>3. c > connections /\ ~(c > c)
    BY <1>0
  <2> HIDE DEF c
  <2>4. \A r \in Connections :
          /\ NetworkReader'[r] = IF r = c THEN "open" ELSE NetworkReader[r]
          /\ reader'[r] = IF r = c THEN "loop" ELSE reader[r]
    BY <1>0, <2>1
  <2>5. \A r \in Connections :
          /\ NetworkReader'[r] = "none" <=> r > c
          /\ reader'[r] = "none" <=> r > c
          /\ NetworkReader'[r] = "deleted" => reader'[r] = "done"
    BY <2>2, <2>3, <2>4 DEF ConnectionInv
  <2>6. NetworkReader'[c] = "open"
    BY <2>1, <2>4
  <2> QED
    BY <2>1, <2>5, <2>6 DEF ConnectionInv
<1>2. CASE CloseSound
  <2>1. /\ sound = "close" /\ sound' = "grace" /\ connections' = connections
        /\ NetworkReader' = [NetworkReader EXCEPT ![connections] = "closed"]
        /\ reader' = reader
    BY <1>2 DEF CloseSound, Sound
  <2>2. connections \in Connections /\ NetworkReader[connections] \in {"open", "closed"}
    BY <2>1 DEF ConnectionInv
  <2>3. \A r \in Connections :
          NetworkReader'[r] = IF r = connections THEN "closed" ELSE NetworkReader[r]
    BY <1>0, <2>1
  <2> QED
    BY <1>0, <2>1, <2>2, <2>3 DEF ConnectionInv
<1>3. CASE DeleteReader
  <2>1. /\ sound = "grace" /\ sound' = "restart" /\ connections' = connections
        /\ NetworkReader' = [NetworkReader EXCEPT ![connections] = "deleted"]
        /\ reader' = reader
    BY <1>3 DEF DeleteReader, Sound
  <2>2. connections \in Connections /\ NetworkReader[connections] = "closed"
    BY <2>1 DEF ConnectionInv
  <2>3. \A r \in Connections :
          NetworkReader'[r] = IF r = connections THEN "deleted" ELSE NetworkReader[r]
    BY <1>0, <2>1
  <2>4. reader[connections] = "done"
    <3>1. reader[connections] \notin {"loop", "store", "receive"}
      BY <1>3, <2>2 DEF DeleteReader, Busy
    <3>2. reader[connections] # "none"
      BY <2>2 DEF ConnectionInv
    <3>3. reader[connections] \in {"none", "loop", "receive", "store", "done"}
      BY <1>0, <2>2
    <3> QED
      BY <3>1, <3>2, <3>3
  <2> QED
    BY <1>0, <2>1, <2>2, <2>3, <2>4 DEF ConnectionInv
<1>4. ASSUME UNCHANGED <<connections, NetworkReader, reader>>,
             \/ sound' \in {"restart", "connect", "stopping", "done"}
             \/ /\ sound \in {"await", "check", "latency", "playing"}
                /\ sound' \in {"await", "check", "latency", "playing", "close"}
      PROVE  ConnectionInv'
  BY <1>4 DEF ConnectionInv
<1>5. CASE \/ SoundRestart \/ SoundRefused \/ AwaitSound \/ CheckSound
           \/ BeginPlayer \/ SoundPlays \/ SoundStops
  <2>1. UNCHANGED <<connections, NetworkReader, reader>>
    BY <1>5
    DEF SoundRestart, SoundRefused, AwaitSound, CheckSound, BeginPlayer, SoundPlays,
        SoundStops
  <2>2. \/ sound' \in {"restart", "connect", "stopping", "done"}
        \/ /\ sound \in {"await", "check", "latency", "playing"}
           /\ sound' \in {"await", "check", "latency", "playing", "close"}
    BY <1>5
    DEF SoundRestart, SoundRefused, AwaitSound, CheckSound, BeginPlayer, SoundPlays,
        SoundStops, Sound
  <2> QED
    BY <1>4, <2>1, <2>2
<1> QED
  BY <1>1, <1>2, <1>3, <1>5 DEF SoundRuns

\* A reader thread that has ended does not come back, and none comes out of nothing.
LEMMA ReaderKeepsConnections ==
  ASSUME TypeOK, ConnectionInv, NEW r \in Connections,
         ReaderRuns(r) \/ ReaderReceives(r) \/ ConnectionLost(r)
  PROVE  ConnectionInv'
<1>0. /\ NetworkReader \in [Connections -> {"none", "open", "closed", "deleted"}]
      /\ reader \in [Connections -> {"none", "loop", "receive", "store", "done"}]
  BY DEF TypeOK
<1>1. /\ reader[r] \in {"loop", "receive", "store"}
      /\ \E to \in {"loop", "receive", "store", "done"} :
           reader' = [reader EXCEPT ![r] = to]
      /\ UNCHANGED <<sound, connections>>
      /\ \/ NetworkReader' = NetworkReader
         \/ /\ NetworkReader[r] = "open"
            /\ NetworkReader' = [NetworkReader EXCEPT ![r] = "closed"]
  BY DEF ReaderRuns, ReaderLoop, ReceiveFails, ReaderStores, ReaderReceives,
         ConnectionLost, Reader, snd
<1>2. /\ reader'[r] # "none" /\ \A q \in Connections : q # r => reader'[q] = reader[q]
  BY <1>0, <1>1
<1>3. \A q \in Connections :
        \/ NetworkReader'[q] = NetworkReader[q]
        \/ NetworkReader[q] = "open" /\ NetworkReader'[q] = "closed"
  BY <1>0, <1>1
<1>4. ASSUME NEW q \in Connections
      PROVE  /\ NetworkReader'[q] = "none" <=> q > connections
             /\ reader'[q] = "none" <=> q > connections
             /\ NetworkReader'[q] = "deleted" => reader'[q] = "done"
  <2>1. /\ NetworkReader[q] = "none" <=> q > connections
        /\ reader[q] = "none" <=> q > connections
        /\ NetworkReader[q] = "deleted" => reader[q] = "done"
    BY DEF ConnectionInv
  <2>2. CASE q = r
    BY <1>1, <1>2, <1>3, <2>1, <2>2
  <2>3. CASE q # r
    BY <1>2, <1>3, <2>1, <2>3
  <2> QED
    BY <2>2, <2>3
<1> QED
  BY <1>1, <1>3, <1>4 DEF ConnectionInv

\* No thread disturbs the order of connections and readers.
LEMMA ConnectionNext ==
  ASSUME TypeOK, ConnectionInv, [Next]_vars
  PROVE  ConnectionInv'
<1>1. ASSUME UNCHANGED <<sound, connections, NetworkReader, reader>>
      PROVE  ConnectionInv'
  BY <1>1 DEF ConnectionInv
<1>2. ASSUME AskToExit \/ WndProc
      PROVE  UNCHANGED <<sound, connections, NetworkReader, reader>>
  BY <1>2
  DEF AskToExit, WndProc, Stop, WaitForThreads, DestroyWindow, Quit, others, snd
<1>3. ASSUME VideoRuns \/ LogFails \/ VideoReceive
      PROVE  UNCHANGED <<sound, connections, NetworkReader, reader>>
  BY <1>3
  DEF VideoRuns, VideoRestart, VideoConnect, VideoArm, VideoLoop, VideoResizes,
      VideoStops, VideoExits, LogFails, VideoReceive, Video, snd
<1>4. ASSUME NEW p \in Connections, PlayerRuns(p)
      PROVE  UNCHANGED <<sound, connections, NetworkReader, reader>>
  BY <1>4 DEF PlayerRuns, PlayerLoop, LoadData, PlayerFails, Player, snd
<1>5. ASSUME UNCHANGED vars
      PROVE  UNCHANGED <<sound, connections, NetworkReader, reader>>
  BY <1>5 DEF vars, snd
<1> QED
  BY <1>1, <1>2, <1>3, <1>4, <1>5, SoundKeepsConnections, ReaderKeepsConnections, Steps

-----------------------------------------------------------------------------
(* Players                                                                 *)

\* A stop request that stays is not taken back, so a second player never begins.
LEMMA PlayerNext ==
  ASSUME TypeOK, ConnectionInv, PlayerInv, [Next]_vars
  PROVE  PlayerInv'
<1>0. player \in [Connections -> {"none", "begun", "loop", "load", "done"}]
  BY DEF TypeOK
<1>1. ASSUME UNCHANGED <<sound, connections, player>>,
             ~revived' => ~revived,
             ~revived' /\ ThreadIsRunning # 1 => ThreadIsRunning' # 1
      PROVE  PlayerInv'
  BY <1>1 DEF PlayerInv
<1>2. ASSUME AskToExit \/ WndProc
      PROVE  PlayerInv'
  <2>1. UNCHANGED <<sound, connections, player, revived>>
    BY <1>2
    DEF AskToExit, WndProc, Stop, WaitForThreads, DestroyWindow, Quit, Exit, flags,
        others, snd
  <2>2. ThreadIsRunning' = ThreadIsRunning \/ ThreadIsRunning' = 0
    BY <1>2
    DEF AskToExit, WndProc, Stop, WaitForThreads, DestroyWindow, Quit, Exit, flags
  <2> QED
    BY <1>1, <2>1, <2>2
<1>3. ASSUME VideoRuns \/ LogFails \/ VideoReceive
      PROVE  PlayerInv'
  <2>1. UNCHANGED <<sound, connections, player>>
    BY <1>3
    DEF VideoRuns, VideoRestart, VideoConnect, VideoArm, VideoLoop, VideoResizes,
        VideoStops, VideoExits, LogFails, VideoReceive, Video, snd
  <2>2. CASE VideoArm
    <3>1. /\ ThreadIsRunning' = 1
          /\ revived' <=> (revived \/ ThreadIsRunning # 1)
      BY <2>2, Zenon DEF VideoArm
    <3> QED
      BY <1>1, <2>1, <3>1
  <2>3. CASE ~VideoArm
    <3>1. UNCHANGED revived /\ (ThreadIsRunning' = ThreadIsRunning \/ ThreadIsRunning' = 2)
      BY <1>3, <2>3
      DEF VideoRuns, VideoRestart, VideoConnect, VideoLoop, VideoResizes, VideoStops,
          VideoExits, LogFails, VideoReceive, Exit, flags
    <3> QED
      BY <1>1, <2>1, <3>1
  <2> QED
    BY <2>2, <2>3
<1>4. ASSUME SoundRuns
      PROVE  PlayerInv'
  <2>1. revived' = revived /\ (ThreadIsRunning' = ThreadIsRunning \/ ThreadIsRunning' = 2)
    BY <1>4
    DEF SoundRuns, SoundRestart, SoundRefused, SoundConnects, AwaitSound, CheckSound,
        BeginPlayer, SoundPlays, CloseSound, DeleteReader, SoundStops, flags
  <2>2. CASE BeginPlayer
    <3>1. /\ sound = "latency" /\ sound' = "playing" /\ connections' = connections
          /\ player' = [player EXCEPT ![connections] = "begun"]
      BY <2>2 DEF BeginPlayer, Sound
    <3>2. ~revived => \A p \in Connections : player[p] = "none"
      BY <3>1 DEF PlayerInv
    <3>3. \A p \in Connections : p # connections => player'[p] = player[p]
      BY <1>0, <3>1
    <3> QED
      BY <2>1, <3>1, <3>2, <3>3 DEF PlayerInv
  <2>3. CASE ~BeginPlayer
    <3>1. UNCHANGED player
      BY <1>4, <2>3
      DEF SoundRuns, SoundRestart, SoundRefused, SoundConnects, AwaitSound, CheckSound,
          SoundPlays, CloseSound, DeleteReader, SoundStops
    <3>2. ASSUME ~revived, NEW p \in Connections, player[p] # "none"
          PROVE  /\ p = connections'
                 /\ \/ sound' = "playing"
                    \/ /\ ThreadIsRunning' # 1
                       /\ sound' \in {"close", "grace", "restart", "stopping", "done"}
      <4>1. /\ p = connections
            /\ \/ sound = "playing"
               \/ /\ ThreadIsRunning # 1
                  /\ sound \in {"close", "grace", "restart", "stopping", "done"}
        BY <3>2 DEF PlayerInv
      <4> QED
        BY <1>4, <2>3, <4>1
        DEF SoundRuns, SoundRestart, SoundRefused, SoundConnects, AwaitSound, CheckSound,
            SoundPlays, CloseSound, DeleteReader, SoundStops, Sound, flags
    <3> QED
      BY <2>1, <3>1, <3>2 DEF PlayerInv
  <2> QED
    BY <2>2, <2>3
<1>5. ASSUME NEW r \in Connections, ReaderRuns(r) \/ ReaderReceives(r) \/ ConnectionLost(r)
      PROVE  PlayerInv'
  BY <1>1, <1>5
  DEF ReaderRuns, ReaderLoop, ReceiveFails, ReaderStores, ReaderReceives, ConnectionLost,
      Reader, snd
<1>6. ASSUME NEW q \in Connections, PlayerRuns(q)
      PROVE  PlayerInv'
  <2>1. /\ player[q] # "none" /\ UNCHANGED <<sound, connections, ThreadIsRunning, revived>>
        /\ \A p \in Connections : p # q => player'[p] = player[p]
    BY <1>0, <1>6 DEF PlayerRuns, PlayerLoop, LoadData, PlayerFails, Player, flags, snd
  <2> QED
    BY <2>1 DEF PlayerInv
<1>7. ASSUME UNCHANGED vars
      PROVE  PlayerInv'
  BY <1>1, <1>7 DEF vars, flags, snd
<1> QED
  BY <1>2, <1>3, <1>4, <1>5, <1>6, <1>7, Steps

-----------------------------------------------------------------------------
(* The invariant, and what follows                                         *)

\* The program that begins satisfies the invariant.
LEMMA InvInit == Init => IInv
<1> SUFFICES ASSUME Init PROVE IInv
  OBVIOUS
<1>1. /\ ThreadIsRunning = 1 /\ exitCode = "none" /\ window = "pumping" /\ timer = 0
      /\ video = "restart" /\ sound = "restart" /\ tries = 0 /\ connections = 0
      /\ NetworkReader = [r \in Connections |-> "none"]
      /\ reader = [r \in Connections |-> "none"]
      /\ player = [p \in Connections |-> "none"]
  BY DEF Init
<1>2. asked = FALSE /\ revived = FALSE /\ available = FALSE
  BY DEF Init
<1>3. /\ 0 \in 0..AntiDeadlockTimer /\ 0 \in 0..AntiDeadLock /\ 0 \in 0..MaxConnections
      /\ 1 \in 0..2 /\ \A r \in Connections : r > 0
  BY EncoderAssumption DEF Connections
<1>4. TypeOK
  <2>1. asked \in BOOLEAN /\ revived \in BOOLEAN /\ available \in BOOLEAN
    BY <1>2, Zenon
  <2> QED
    BY <1>1, <1>3, <2>1 DEF TypeOK
<1>5. StopInv /\ ConnectionInv /\ PlayerInv
  BY <1>1, <1>3 DEF StopInv, ConnectionInv, PlayerInv
<1> QED
  BY <1>4, <1>5 DEF IInv

\* It holds in every state of every behaviour.
LEMMA Invariance == Spec => []IInv
<1>1. IInv /\ [Next]_vars => IInv'
  BY TypeNext, StopNext, ConnectionNext, PlayerNext DEF IInv
<1> QED
  BY <1>1, InvInit, PTL DEF Spec

\* Neither lost or refused connections nor a player out of sound stop the program: when
\* it stops, the user has asked for it.
THEOREM EncoderOnlyUserStops == Spec => []OnlyUserStops
<1>1. IInv => OnlyUserStops
  BY DEF IInv, StopInv, OnlyUserStops
<1> QED
  BY <1>1, Invariance, PTL

\* While no stop request is overwritten, at most one player takes sound from the ring,
\* whatever connections are lost and made again.
THEOREM EncoderOnePlayer == Spec => []OnePlayer
<1>1. IInv => OnePlayer
  <2> SUFFICES ASSUME IInv, ~revived
               PROVE  Cardinality(Players) <= 1
    BY DEF OnePlayer
  <2>1. Players \subseteq {connections}
    BY DEF IInv, PlayerInv, Players
  <2>2. IsFiniteSet({connections}) /\ Cardinality({connections}) = 1
    BY FS_Singleton
  <2> QED
    BY <2>1, <2>2, FS_Subset
<1> QED
  BY <1>1, Invariance, PTL

\* A deleted connection has no reader thread left that could use it.
THEOREM EncoderReaderEndsFirst == Spec => []ReaderEndsFirst
<1>1. IInv => ReaderEndsFirst
  BY DEF IInv, ConnectionInv, ReaderEndsFirst
<1> QED
  BY <1>1, Invariance, PTL

=============================================================================
