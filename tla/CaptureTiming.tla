---------------------------- MODULE CaptureTiming -----------------------------
(***************************************************************************)
(* The clocks of the capture thread: the frame rate limiter and the        *)
(* statistics of ScreenCaptureAndSendThread (DataProcessing.cpp), and the  *)
(* usage sampler they ask for the network traffic (Tools.cpp).             *)
(*                                                                         *)
(* There are two clocks.  GetTimer() has every tick since StartTimer();    *)
(* GetTickCount() runs since the PC was booted and moves by Granularity    *)
(* ticks at a time.  Both are unsigned ints of UIntRange values.           *)
(***************************************************************************)
EXTENDS Integers, Functions

CONSTANTS
  Second,            (* ticks of a second: 1000                               *)
  FPSLimits,         (* what the limit may be set to                          *)
  HistoryDuration,   (* ticks of traffic that count: 10000                    *)
  ShowEvery,         (* SHOW_STATS_EVERY_N_FRAMES: 32                         *)
  UIntRange,         (* number of values of an unsigned int: 2^32             *)
  Granularity,       (* ticks GetTickCount() moves by                         *)
  Works,             (* ticks capture, resampling and compression may take    *)
  Sends,             (* ticks sending may take                                *)
  Lates,             (* ticks Sleep() may return too late                     *)
  PacketSizes,       (* bytes of a packet                                     *)
  MaxClients,        (* bound: clients                                        *)
  MaxTime            (* bound: when the last frame begins                     *)

ASSUME TimingAssumption ==
  /\ Second \in Nat \ {0} /\ FPSLimits \subseteq Nat
  /\ HistoryDuration \in Nat \ {0} /\ ShowEvery \in Nat \ {0, 1}
  /\ UIntRange \in Nat /\ UIntRange % 2 = 0 /\ 2 * HistoryDuration < UIntRange
  /\ Granularity \in Nat \ {0}
  /\ Works \subseteq Nat /\ Sends \subseteq Nat /\ Lates \subseteq Nat
  /\ PacketSizes \subseteq Nat /\ MaxClients \in Nat /\ MaxTime \in Nat

VARIABLES
  now,             (* ticks since StartTimer(), never cut                    *)
  boot,            (* what GetTickCount() was ahead of its last move then    *)
  FPSLimit, ShowStatistics,   (* settings                                    *)
  clients,         (* the sessions of NetworkListener                        *)
  pc,              (* the capture thread: "loop", "send", "stats", "limit",  *)
                   (* or "crashed" after a division by zero                  *)
  spent,           (* EndLoop - Start, as far as the frame has come          *)
  LoopCounter, FPSSum, SleepAdjustment,
  Samples,         (* the sampler's list: what it has of every frame; the    *)
                   (* newer a frame, the nearer to the front of the list     *)
  usage,           (* what the latest sum of the sampler was taken of        *)
  sent             (* history: what was sent in the last HistoryDuration     *)

settingVars == <<boot, FPSLimit, ShowStatistics>>
limiterVars == <<LoopCounter, FPSSum, SleepAdjustment>>
usageVars   == <<Samples, usage, sent>>
vars == <<now, settingVars, clients, pc, spent, limiterVars, usageVars>>

GetTimer(t)  == t % UIntRange
GetTickCount(t) == (((t + boot) \div Granularity) * Granularity) % UIntRange

Magnitude(x) == IF x < 0 THEN -x ELSE x

\* Division as in C: towards zero.
Quotient(a, b) ==
  LET q == Magnitude(a) \div Magnitude(b)
  IN  IF (a < 0) = (b < 0) THEN q ELSE -q

\* An unsigned int, read as an int.
Signed(x) == IF x < UIntRange \div 2 THEN x ELSE x - UIntRange

\* Time passes, and older samples are of no interest any more.
Recent(t, samples) ==
  Restrict(samples, {f \in DOMAIN samples : samples[f].Stamp + HistoryDuration >= t})
PassTo(t) == now' = t /\ sent' = Recent(t, sent)

Init ==
  /\ now = 0 /\ boot \in 0..(Granularity - 1)
  /\ FPSLimit \in FPSLimits /\ ShowStatistics \in {0, 2}
  /\ clients = 0
  /\ pc = "loop" /\ spent = 0
  /\ LoopCounter = 1 /\ FPSSum = 0 /\ SleepAdjustment = 0
  /\ Samples = <<>> /\ usage = <<>> /\ sent = <<>>

-----------------------------------------------------------------------------
(* The usage sampler                                                       *)

\* CountedSamples that leaves out what is exactly as old as the limit.
CountedYounger(samples, limit) ==
  Restrict(samples, {f \in DOMAIN samples :
                       \A g \in DOMAIN samples : g >= f => samples[g].Stamp > limit})

\* The list from its front up to the first sample that is older than the limit.
CountedSamples(samples, limit) ==
  Restrict(samples, {f \in DOMAIN samples :
                       \A g \in DOMAIN samples : g >= f => samples[g].Stamp >= limit})

\* StampLimit: an unsigned difference.
StampLimit(t) == (GetTimer(t) - HistoryDuration) % UIntRange

\* KeptSamples if only the last of the list was deleted.
KeptButLast(samples, limit) ==
  Restrict(samples, {f \in DOMAIN samples :
                       \/ f \in DOMAIN CountedSamples(samples, limit)
                       \/ \E g \in DOMAIN samples : g < f})

\* GetSumInterval deletes what is behind the counted samples and older than the limit.
KeptSamples(samples, limit) ==
  Restrict(samples, {f \in DOMAIN samples :
                       \/ f \in DOMAIN CountedSamples(samples, limit)
                       \/ samples[f].Stamp >= limit})

\* AddSample: the calls of a frame, one for every client it is sent to, have the same
\* stamp and make one sample.
AddSample(samples, frame, value, stamp) ==
  [f \in DOMAIN samples \cup {frame} |->
     IF f = frame THEN [Value |-> value, Stamp |-> stamp] ELSE samples[f]]

-----------------------------------------------------------------------------
(* A frame                                                                 *)

\* Without a client the thread sleeps.
Idle ==
  /\ pc = "loop" /\ clients = 0
  /\ now < MaxTime
  /\ PassTo(now + 1)
  /\ UNCHANGED <<settingVars, clients, pc, spent, limiterVars, Samples, usage>>

\* Capture, resampling and compression.
CaptureFrame(work) ==
  /\ pc = "loop" /\ clients > 0
  /\ now < MaxTime
  /\ PassTo(now + work)
  /\ spent' = work
  /\ pc' = "send"
  /\ UNCHANGED <<settingVars, clients, limiterVars, Samples, usage>>

\* All clients have left meanwhile: the frame does not count.
AbandonFrame ==
  /\ pc = "send" /\ clients = 0
  /\ pc' = "loop" /\ spent' = 0
  /\ UNCHANGED <<now, settingVars, clients, limiterVars, usageVars>>

\* sendToAll adds a sample for every client it tries; a client that fails is the
\* last one.  EndLoop and the sum of all frames are taken then.
SendFrame(size, n, time) ==
  /\ pc = "send" /\ clients > 0
  /\ n <= clients
  /\ now' = now + time
  /\ Samples' = AddSample(Samples, LoopCounter, n * size, GetTimer(now'))
  /\ sent' = AddSample(Recent(now', sent), LoopCounter, n * size, now')
  /\ spent' = spent + time
  /\ FPSSum' = FPSSum + spent'
  /\ pc' = "stats"
  /\ UNCHANGED <<settingVars, clients, LoopCounter, SleepAdjustment, usage>>

\* What GetTickCount() says has passed since the loop began.
Elapsed == (GetTickCount(now) - GetTickCount(0)) % UIntRange

\* Statistics are asked for in this frame: for the screen, for the front end.
ForScreen   == ShowStatistics = 2
ForFrontEnd == LoopCounter % ShowEvery = 0

\* A frame rate is computed with a divisor of 0: the rate that could be achieved, or
\* the average.
StatisticsFail ==
  \/ (ForScreen \/ ForFrontEnd) /\ FPSSum \div LoopCounter = 0
  \/ ForScreen   /\ ((Elapsed + 1) % UIntRange) \div LoopCounter = 0
  \/ ForFrontEnd /\ Elapsed \div LoopCounter = 0

\* The statistics of a frame, before its sleep.
Statistics ==
  /\ pc = "stats"
  /\ pc' = IF StatisticsFail THEN "crashed" ELSE "limit"
  /\ LET limit == StampLimit(now)
     IN  IF (ForScreen \/ ForFrontEnd) /\ ~StatisticsFail
         THEN /\ usage' = CountedSamples(Samples, limit)
              /\ Samples' = KeptSamples(Samples, limit)
         ELSE UNCHANGED <<usage, Samples>>
  /\ UNCHANGED <<now, settingVars, clients, spent, limiterVars, sent>>

Budget == Second \div FPSLimit
ShouldSleep == Budget - spent

\* AverageTime without the tick that is added.
AverageTimeBare == Quotient(Signed(Elapsed), LoopCounter)

\* How long a frame took on average, as an int.
AverageTime == Quotient(Signed((Elapsed + 1) % UIntRange), LoopCounter)

\* AdjustedBy the other way round.
AdjustedBack(fps) == IF fps < FPSLimit THEN SleepAdjustment + 1
                     ELSE IF fps > FPSLimit THEN SleepAdjustment - 1 ELSE SleepAdjustment

\* One tick less of sleep for a rate that is too low, one more if it is too high.
AdjustedBy(fps) == IF fps < FPSLimit THEN SleepAdjustment - 1
                   ELSE IF fps > FPSLimit THEN SleepAdjustment + 1 ELSE SleepAdjustment

\* LimitedTo without the upper limit.
LimitedBelow(adjustment) == IF -adjustment > ShouldSleep THEN -ShouldSleep ELSE adjustment

\* An adjustment takes off at most the whole sleep and adds nothing.
LimitedTo(adjustment) ==
  IF adjustment > 0 THEN 0
  ELSE IF -adjustment > ShouldSleep THEN -ShouldSleep ELSE adjustment

LimiterFails == FPSLimit = 0 \/ (Budget > spent /\ AverageTime = 0)

\* Sleep for what the budget of a frame has left, adjusted to the rate so far.
LimitRate ==
  /\ pc = "limit"
  /\ IF LimiterFails
     THEN /\ pc' = "crashed"
          /\ UNCHANGED <<now, sent, SleepAdjustment, LoopCounter>>
     ELSE /\ IF Budget > spent
             THEN /\ SleepAdjustment' =
                       LimitedTo(AdjustedBy(Quotient(Second, AverageTime)))
                  /\ IF ShouldSleep + SleepAdjustment' > 0
                     THEN \E late \in Lates :
                            PassTo(now + ShouldSleep + SleepAdjustment' + late)
                     ELSE UNCHANGED <<now, sent>>
             ELSE UNCHANGED <<now, sent, SleepAdjustment>>
          /\ LoopCounter' = LoopCounter + 1
          /\ pc' = "loop"
  /\ spent' = 0
  /\ UNCHANGED <<settingVars, clients, FPSSum, Samples, usage>>

-----------------------------------------------------------------------------
\* The accepting thread and a failing send() change the number of clients.
ClientsChange ==
  /\ clients' \in 0..MaxClients \ {clients}
  /\ UNCHANGED <<now, settingVars, pc, spent, limiterVars, usageVars>>

Next ==
  \/ Idle
  \/ \E work \in Works : CaptureFrame(work)
  \/ AbandonFrame
  \/ \E size \in PacketSizes, n \in 1..MaxClients, time \in Sends :
       SendFrame(size, n, time)
  \/ Statistics \/ LimitRate \/ ClientsChange

Spec == Init /\ [][Next]_vars

-----------------------------------------------------------------------------
(* Properties                                                              *)

\* One sample at most of every frame so far, with an unsigned stamp.
IsSampleList(list) ==
  /\ DOMAIN list \subseteq 1..LoopCounter
  /\ list \in [DOMAIN list -> [Value : Nat, Stamp : 0..(UIntRange - 1)]]

\* Every variable holds a value its C type and its place allow.
TypeOK ==
  /\ now \in Nat /\ clients \in 0..MaxClients /\ spent \in Nat
  /\ pc \in {"loop", "send", "stats", "limit", "crashed"}
  /\ LoopCounter \in Nat \ {0} /\ FPSSum \in Nat
  /\ FPSLimit > 0 => SleepAdjustment \in -Budget..0
  /\ IsSampleList(Samples) /\ IsSampleList(usage)

\* The sampler has just been asked.
Asked == pc = "limit" /\ (ForScreen \/ ForFrontEnd)

\* Until GetTimer() wraps (after 49 days) the network usage that is shown counts
\* nothing but what was sent in the last HistoryDuration, each frame once, and all of
\* it from twice that time on.  Before, the limit wraps and what was sent is forgotten.
UsageIsExact ==
  Asked /\ now < UIntRange =>
    /\ \A f \in DOMAIN usage : f \in DOMAIN sent /\ usage[f] = sent[f]
    /\ now >= 2 * HistoryDuration => usage = sent

\* Until then no sample that was too old when the sampler was asked is kept.
NothingOldKept ==
  Asked /\ now < UIntRange =>
    \A f \in DOMAIN Samples : Samples[f].Stamp + HistoryDuration >= now

\* While the signed time since the start of the loop has not wrapped (24 days), the
\* thread divides by zero only if no limit was set, its frames took less than a tick
\* on average, or the limit leaves a frame less time than GetTickCount() can see.
DividesByZeroOnlyIfFast ==
  pc = "crashed" /\ now + Granularity < UIntRange \div 2 =>
    FPSLimit = 0 \/ FPSSum < LoopCounter \/ Budget < Granularity

\* The rate is a whole number, so an average shorter than the budget may do; but what
\* does not sleep less than the budget is never faster than the budget.
ShortestFrame ==
  LET shortest == Second \div (FPSLimit + 1) + 1
  IN  IF Budget < shortest THEN Budget ELSE shortest

\* Until then the frames since the start are no more than the limit allows for that
\* time, but for those of one recovery: frames may get shorter by the whole budget
\* and are then a tick longer every time.  It holds however long there was no client
\* before, however late a sleep returns and however coarse GetTickCount() is.
RateIsLimited ==
  pc = "loop" /\ FPSLimit > 0 /\ now + Granularity < UIntRange \div 2 =>
    2 * (LoopCounter - 1) * ShortestFrame
      <= 2 * (now + Granularity) + Budget * (Budget + 1)
=============================================================================
