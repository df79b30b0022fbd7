------------------------- MODULE CaptureTimingProofs --------------------------
(***************************************************************************)
(* The frame rate limiter keeps its promise for every second, limit and    *)
(* granularity, whatever frames, sleeps and clients do: RateIsLimited.     *)
(*                                                                         *)
(* The argument is a potential.  With a = -SleepAdjustment ticks of sleep  *)
(* taken off, the frames to come may be too short by a - 1, a - 2, ... 1   *)
(* ticks, which is a * (a - 1) / 2, before the thread sleeps its whole     *)
(* budget again; as long as the rate is not too high, the clock says that  *)
(* no more frames were sent than it allows.                                *)
(*                                                                         *)
(* The same clock tells why the loop divides by zero only where            *)
(* DividesByZeroOnlyIfFast says it may.  The sampler's list against the    *)
(* history of what was sent gives UsageIsExact and NothingOldKept.         *)
(***************************************************************************)
EXTENDS CaptureTiming, TLAPS

\* The variables the limiter computes with.
NumbersOK ==
  /\ now \in Nat /\ spent \in Nat /\ spent <= now
  /\ boot \in 0..(Granularity - 1)
  /\ FPSLimit \in Nat /\ LoopCounter \in Nat \ {0}
  /\ SleepAdjustment \in Int
  /\ FPSLimit > 0 => SleepAdjustment \in -Budget..0

\* Twice the frames so far at their shortest, and twice what a recovery may still
\* cost, against twice the time at which the frame began.
RateInv ==
  FPSLimit > 0 /\ now + Granularity < UIntRange \div 2 =>
    2 * ((LoopCounter - 1) * ShortestFrame) + SleepAdjustment * (SleepAdjustment - 1)
      <= 2 * (now - spent + Granularity) + Budget * (Budget + 1)

IInv == NumbersOK /\ RateInv

\* The work of the frames is a part of the time.
SpentInv ==
  /\ FPSSum \in Nat
  /\ pc \in {"loop", "send"} => FPSSum + spent <= now
  /\ FPSSum <= now

\* Every frame takes off a tick more at most.
FewAdjustments == FPSLimit > 0 => -SleepAdjustment < LoopCounter

\* What GetTickCount() has moved by at a time.
ElapsedAt(t) == (GetTickCount(t) - GetTickCount(0)) % UIntRange

\* A clock that moves at least once in a budget has moved by a tick for every frame
\* when a frame begins, and by one for every frame that a recovery may still make too
\* short to be seen.
TicksInv ==
  FPSLimit > 0 /\ 2 <= Granularity /\ Granularity <= Budget
    /\ now + Granularity < UIntRange \div 2 /\ LoopCounter > 1 =>
    /\ LoopCounter <= ElapsedAt(now - spent)
    /\ LoopCounter - SleepAdjustment - 1 <= ElapsedAt(now - spent)

\* What keeps the divisions possible.
DivisionInv == SpentInv /\ FewAdjustments /\ TicksInv /\ DividesByZeroOnlyIfFast

\* The sampler's lists, and the history of what was sent, by frames up to this one.
ListsOK ==
  /\ IsSampleList(Samples) /\ IsSampleList(usage)
  /\ DOMAIN sent \subseteq 1..LoopCounter
  /\ sent \in [DOMAIN sent -> [Value : Nat, Stamp : Nat]]

\* A frame is sent once.
SentOnce ==
  pc \in {"loop", "send"} => LoopCounter \notin DOMAIN Samples \cup DOMAIN sent

\* The history has what was sent in the last HistoryDuration.
SentIsRecent ==
  \A f \in DOMAIN sent : sent[f].Stamp <= now /\ sent[f].Stamp + HistoryDuration >= now

\* The list has the newest samples in front,
StampsInOrder ==
  \A f \in DOMAIN Samples :
    /\ Samples[f].Stamp <= now
    /\ \A g \in DOMAIN Samples : f <= g => Samples[f].Stamp <= Samples[g].Stamp

\* ... its recent samples are what was sent,
RecentIsSent ==
  \A f \in DOMAIN Samples :
    Samples[f].Stamp + HistoryDuration >= now => f \in DOMAIN sent /\ sent[f] = Samples[f]

\* ... and it has lost nothing that was sent when the limit did not wrap any more.
SentIsKept ==
  \A f \in DOMAIN sent :
    sent[f].Stamp >= HistoryDuration => f \in DOMAIN Samples /\ Samples[f] = sent[f]

\* The list against the history, until GetTimer() wraps.
ListInv == now < UIntRange => StampsInOrder /\ RecentIsSent /\ SentIsKept

\* What the sampler keeps right.
SamplerInv ==
  ListsOK /\ SentOnce /\ SentIsRecent /\ ListInv /\ UsageIsExact /\ NothingOldKept

-----------------------------------------------------------------------------
(* Division                                                                *)

\* What the quotient of natural numbers is.
LEMMA DivisionBounds ==
  ASSUME NEW a \in Nat, NEW b \in Nat \ {0}
  PROVE  /\ a \div b \in Nat
         /\ b * (a \div b) <= a
         /\ a < b * ((a \div b) + 1)
  OBVIOUS

\* A number whose product with the divisor is not above the dividend is not above
\* the quotient, and the other way round.
LEMMA DivisionGalois ==
  ASSUME NEW a \in Nat, NEW b \in Nat \ {0}, NEW q \in Nat
  PROVE  (b * q <= a) <=> (q <= a \div b)
<1> DEFINE d == a \div b
<1>1. d \in Nat /\ b * d <= a /\ a < b * (d + 1)
  BY DivisionBounds
<1>2. CASE q <= d
  <2>1. b * q <= b * d
    BY <1>1, <1>2
  <2> QED BY <1>1, <1>2, <2>1
<1>3. CASE q > d
  <2>1. q >= d + 1
    BY <1>1, <1>3
  <2>2. b * q >= b * (d + 1)
    BY <1>1, <2>1
  <2> QED BY <1>1, <1>3, <2>2
<1> QED BY <1>1, <1>2, <1>3

\* A remainder of what is smaller than the divisor.
LEMMA SmallRemainder ==
  ASSUME NEW a \in Nat, NEW b \in Nat \ {0}, a < b
  PROVE  a % b = a
  OBVIOUS

\* The time before a part of it.
LEMMA Difference ==
  ASSUME NEW a \in Nat, NEW b \in Nat, b <= a
  PROVE  a - b \in Nat
  OBVIOUS

\* The time before none of it.
LEMMA NoDifference == \A a \in Nat : a - 0 = a
OBVIOUS

\* Division as in C.
LEMMA QuotientFacts ==
  ASSUME NEW a \in Int, NEW b \in Int, b # 0
  PROVE  /\ Quotient(a, b) \in Int
         /\ a >= 0 /\ b > 0 => Quotient(a, b) = a \div b
<1>1. Magnitude(a) \in Nat /\ Magnitude(b) \in Nat \ {0}
  BY DEF Magnitude
<1>2. Magnitude(a) \div Magnitude(b) \in Int
  BY <1>1, DivisionBounds
<1>3. a >= 0 /\ b > 0 => Magnitude(a) = a /\ Magnitude(b) = b
  BY DEF Magnitude
<1> QED BY <1>2, <1>3 DEF Quotient

-----------------------------------------------------------------------------
(* The numbers of the limiter                                              *)

\* The numbers the limit stands for, with a limit.
LEMMA BudgetFacts ==
  ASSUME NumbersOK, FPSLimit > 0
  PROVE  Budget \in Nat /\ ShortestFrame \in Nat /\ ShortestFrame <= Budget
<1>1. Second \in Nat /\ FPSLimit \in Nat \ {0} /\ FPSLimit + 1 \in Nat \ {0}
  BY TimingAssumption DEF NumbersOK
<1>2. Second \div FPSLimit \in Nat /\ Second \div (FPSLimit + 1) \in Nat
  BY <1>1, DivisionBounds
<1> QED BY <1>2 DEF Budget, ShortestFrame

\* While the signed time has not wrapped, GetTickCount() is behind by less than
\* its granularity.
LEMMA TicksAt ==
  ASSUME NumbersOK, NEW t \in Nat, t + Granularity < UIntRange \div 2
  PROVE  /\ ElapsedAt(t) = Granularity * ((t + boot) \div Granularity)
         /\ ElapsedAt(t) \in Nat
         /\ ElapsedAt(t) <= t + boot /\ t + boot < ElapsedAt(t) + Granularity
<1> DEFINE ticks == (t + boot) \div Granularity
<1>1. /\ boot \in Nat /\ boot < Granularity
      /\ Granularity \in Nat \ {0} /\ UIntRange \in Nat
  BY TimingAssumption DEF NumbersOK
<1>2. UIntRange \in Nat \ {0} /\ UIntRange \div 2 \in Nat /\ UIntRange \div 2 <= UIntRange
  BY <1>1, TimingAssumption
<1>3. /\ ticks \in Nat /\ Granularity * ticks <= t + boot
      /\ t + boot < Granularity * (ticks + 1)
  BY <1>1, DivisionBounds
<1>4. /\ ticks * Granularity = Granularity * ticks /\ ticks * Granularity \in Nat
      /\ Granularity * (ticks + 1) = Granularity * ticks + Granularity
  BY <1>1, <1>3
<1>5. ticks * Granularity < UIntRange
  BY <1>1, <1>2, <1>3, <1>4
<1>6. GetTickCount(t) = ticks * Granularity
  BY <1>2, <1>4, <1>5, SmallRemainder DEF GetTickCount
<1>7. GetTickCount(0) = 0
  <2>1. boot \div Granularity = 0
    BY <1>1
  <2> QED BY <1>1, <1>2, <2>1, SmallRemainder DEF GetTickCount
<1>8. ElapsedAt(t) = ticks * Granularity
  BY <1>2, <1>4, <1>5, <1>6, <1>7, SmallRemainder DEF ElapsedAt
<1> QED BY <1>1, <1>3, <1>4, <1>8

\* The same now; what the average is taken of is a natural number.
LEMMA ElapsedFacts ==
  ASSUME NumbersOK, now + Granularity < UIntRange \div 2
  PROVE  /\ Elapsed \in Nat /\ Elapsed = ElapsedAt(now)
         /\ Elapsed + 1 <= now + Granularity
         /\ (Elapsed + 1) % UIntRange = Elapsed + 1
         /\ Signed((Elapsed + 1) % UIntRange) = Elapsed + 1
<1>1. /\ now \in Nat /\ boot \in Nat /\ boot < Granularity
      /\ Granularity \in Nat \ {0} /\ UIntRange \in Nat
  BY TimingAssumption DEF NumbersOK
<1>2. UIntRange \in Nat \ {0} /\ UIntRange \div 2 \in Nat /\ UIntRange \div 2 <= UIntRange
  BY <1>1, TimingAssumption
<1>3. Elapsed = ElapsedAt(now)
  BY DEF Elapsed, ElapsedAt
<1>4. Elapsed \in Nat /\ Elapsed <= now + boot
  BY <1>1, <1>3, TicksAt
<1>5. (Elapsed + 1) % UIntRange = Elapsed + 1
  <2>1. Elapsed + 1 \in Nat /\ Elapsed + 1 < UIntRange
    BY <1>1, <1>2, <1>4
  <2> QED BY <1>2, <2>1, SmallRemainder
<1> QED BY <1>1, <1>2, <1>3, <1>4, <1>5 DEF Signed

\* The coarse clock does not go back, and moves once in its granularity.
LEMMA TicksPass ==
  ASSUME NumbersOK, NEW early \in Nat, NEW late \in Nat, early <= late,
         late + Granularity < UIntRange \div 2
  PROVE  /\ ElapsedAt(early) <= ElapsedAt(late)
         /\ early + Granularity <= late => ElapsedAt(early) + Granularity <= ElapsedAt(late)
<1> DEFINE q(t) == (t + boot) \div Granularity
<1>1. boot \in Nat /\ Granularity \in Nat \ {0} /\ UIntRange \div 2 \in Int
  BY TimingAssumption, DivisionBounds DEF NumbersOK
<1>2. early + Granularity < UIntRange \div 2
  BY <1>1
<1>3. /\ ElapsedAt(early) = Granularity * q(early) /\ ElapsedAt(early) <= early + boot
      /\ ElapsedAt(late) = Granularity * q(late)
  BY <1>2, TicksAt
<1>4. q(early) \in Nat /\ q(late) \in Nat /\ early + boot \in Nat /\ late + boot \in Nat
  BY <1>1, DivisionBounds
<1>5. q(early) <= q(late)
  <2>1. Granularity * q(early) <= late + boot
    BY <1>1, <1>3, <1>4
  <2> QED BY <1>1, <1>4, <2>1, DivisionGalois
<1>6. ASSUME early + Granularity <= late PROVE q(early) + 1 <= q(late)
  <2>1. Granularity * (q(early) + 1) = Granularity * q(early) + Granularity
    BY <1>1, <1>4
  <2>2. Granularity * (q(early) + 1) <= late + boot
    BY <1>1, <1>3, <1>4, <1>6, <2>1
  <2>3. q(early) + 1 \in Nat
    BY <1>4
  <2> QED BY <1>1, <1>4, <2>2, <2>3, DivisionGalois
<1> HIDE DEF q
<1>7. Granularity * q(early) <= Granularity * q(late)
  BY <1>1, <1>4, <1>5
<1>8. ASSUME early + Granularity <= late
      PROVE  Granularity * q(early) + Granularity <= Granularity * q(late)
  <2>1. Granularity * (q(early) + 1) <= Granularity * q(late)
    BY <1>1, <1>4, <1>6, <1>8
  <2>2. Granularity * (q(early) + 1) = Granularity * q(early) + Granularity
    BY <1>1, <1>4
  <2> QED BY <2>1, <2>2
<1> QED BY <1>3, <1>7, <1>8

\* The average may be negative once the signed time has wrapped, but it is a number.
LEMMA AverageTimeInt ==
  ASSUME NumbersOK
  PROVE  AverageTime \in Int
<1>1. UIntRange \in Nat \ {0} /\ Granularity \in Nat \ {0} /\ UIntRange \div 2 \in Nat
  BY TimingAssumption
<1>2. now + boot \in Nat /\ 0 + boot \in Nat /\ LoopCounter \in Int /\ LoopCounter # 0
  BY TimingAssumption DEF NumbersOK
<1>3. /\ (now + boot) \div Granularity \in Nat
      /\ (0 + boot) \div Granularity \in Nat
  BY <1>1, <1>2, DivisionBounds
<1>4. GetTickCount(now) \in Int /\ GetTickCount(0) \in Int
  BY <1>1, <1>3 DEF GetTickCount
<1>5. Elapsed \in Int
  BY <1>1, <1>4 DEF Elapsed
<1>6. (Elapsed + 1) % UIntRange \in Int
  BY <1>1, <1>5
<1>7. Signed((Elapsed + 1) % UIntRange) \in Int
  BY <1>1, <1>6 DEF Signed
<1> QED BY <1>2, <1>7, QuotientFacts DEF AverageTime

\* If the rate the limiter computes is not above the limit, the clock has moved enough
\* for all frames, this one included, at their shortest; if it is below, for more than
\* their budgets.
LEMMA RateTells ==
  ASSUME NumbersOK, FPSLimit > 0, now + Granularity < UIntRange \div 2, AverageTime # 0
  PROVE  LET fps == Quotient(Second, AverageTime)
         IN  /\ fps <= FPSLimit => LoopCounter * ShortestFrame <= Elapsed + 1
             /\ fps < FPSLimit => LoopCounter * (Budget + 1) <= Elapsed + 1
<1> DEFINE average == (Elapsed + 1) \div LoopCounter
           fps     == Quotient(Second, AverageTime)
<1>1. /\ Elapsed \in Nat /\ Elapsed + 1 <= now + Granularity
      /\ LoopCounter \in Nat \ {0} /\ Second \in Nat
      /\ FPSLimit \in Nat \ {0} /\ FPSLimit + 1 \in Nat \ {0}
  BY ElapsedFacts, TimingAssumption DEF NumbersOK
<1>2. AverageTime = average
  BY <1>1, ElapsedFacts, QuotientFacts DEF AverageTime
<1>3. average \in Nat \ {0} /\ LoopCounter * average <= Elapsed + 1
  BY <1>1, <1>2, DivisionBounds
<1>4. fps = Second \div average
  BY <1>1, <1>2, <1>3, QuotientFacts
<1>5. \A n \in Nat : fps < n => average > Second \div n \/ n = 0
  <2> SUFFICES ASSUME NEW n \in Nat \ {0}, fps < n PROVE average > Second \div n
    OBVIOUS
  <2>1. fps \in Nat /\ ~(n <= fps)
    BY <1>1, <1>3, <1>4, DivisionBounds
  <2>2. ~(average * n <= Second)
    BY <1>1, <1>3, <1>4, <2>1, DivisionGalois
  <2>3. ~(n * average <= Second)
    BY <1>3, <2>2
  <2>4. ~(average <= Second \div n)
    BY <1>1, <1>3, <2>3, DivisionGalois
  <2>5. Second \div n \in Nat
    BY <1>1, DivisionBounds
  <2> QED BY <1>3, <2>4, <2>5
<1>6. \A n \in Nat : n <= average => LoopCounter * n <= Elapsed + 1
  <2> SUFFICES ASSUME NEW n \in Nat, n <= average PROVE LoopCounter * n <= Elapsed + 1
    OBVIOUS
  <2>1. LoopCounter * n <= LoopCounter * average
    BY <1>1, <1>3
  <2>2. LoopCounter * n \in Nat /\ LoopCounter * average \in Nat
    BY <1>1, <1>3
  <2> QED BY <1>1, <1>3, <2>1, <2>2
<1>7. Budget \in Nat /\ ShortestFrame \in Nat
  BY BudgetFacts
<1>8. fps \in Nat
  BY <1>1, <1>3, <1>4, DivisionBounds
<1> HIDE DEF fps
<1>9. ASSUME fps <= FPSLimit PROVE LoopCounter * ShortestFrame <= Elapsed + 1
  <2>1. average > Second \div (FPSLimit + 1)
    BY <1>1, <1>5, <1>8, <1>9
  <2>2. Second \div (FPSLimit + 1) \in Nat
    BY <1>1, DivisionBounds
  <2>3. ShortestFrame <= average
    <3> HIDE DEF average
    <3> QED BY <1>3, <1>7, <2>1, <2>2 DEF ShortestFrame
  <2> QED BY <1>6, <1>7, <2>3
<1>10. ASSUME fps < FPSLimit PROVE LoopCounter * (Budget + 1) <= Elapsed + 1
  <2>1. average > Budget
    BY <1>1, <1>5, <1>10 DEF Budget
  <2> HIDE DEF average
  <2>2. Budget + 1 <= average /\ Budget + 1 \in Nat
    BY <1>3, <1>7, <2>1
  <2> QED BY <1>6, <2>2
<1> QED BY <1>9, <1>10 DEF fps

\* So the time so far suffices as well.
LEMMA NotTooFast ==
  ASSUME NumbersOK, FPSLimit > 0, now + Granularity < UIntRange \div 2,
         AverageTime # 0, Quotient(Second, AverageTime) <= FPSLimit
  PROVE  LoopCounter * ShortestFrame <= now + Granularity
<1>1. LoopCounter * ShortestFrame <= Elapsed + 1
  BY RateTells
<1>2. LoopCounter \in Nat /\ ShortestFrame \in Nat /\ now \in Nat /\ Granularity \in Nat
  BY BudgetFacts, TimingAssumption DEF NumbersOK
<1>3. LoopCounter * ShortestFrame \in Nat
  BY <1>2
<1> QED BY <1>1, <1>2, <1>3, ElapsedFacts

-----------------------------------------------------------------------------
(* The steps                                                               *)

\* The adjusted sleep stays between none and what is left of the budget, and goes
\* back by a tick if the rate is too high.
LEMMA AdjustmentFacts ==
  ASSUME NumbersOK, FPSLimit > 0, Budget > spent, NEW fps \in Int
  PROVE  LET adjusted == LimitedTo(AdjustedBy(fps))
         IN  /\ adjusted \in -Budget..0
             /\ ShouldSleep + adjusted >= 0
             /\ fps > FPSLimit /\ SleepAdjustment < 0 => adjusted >= SleepAdjustment + 1
             /\ fps > FPSLimit /\ SleepAdjustment = 0 => adjusted = 0
  BY BudgetFacts DEF LimitedTo, AdjustedBy, ShouldSleep, NumbersOK

\* The potential does not grow when the sleep goes back.
LEMMA PotentialFalls ==
  ASSUME NEW old \in Int, NEW new \in Int, new <= 0,
         \/ old < 0 /\ new >= old + 1
         \/ old = 0 /\ new = 0
  PROVE  new * (new - 1) - 2 * new <= old * (old - 1)
<1>1. CASE old = 0 /\ new = 0
  BY <1>1
<1>2. CASE old < 0 /\ new >= old + 1
  <2>1. new * new <= (old + 1) * (old + 1)
    <3> DEFINE u == -new
               v == -(old + 1)
    <3>1. u \in Nat /\ v \in Nat /\ u <= v
      BY <1>2
    <3>2. u * u <= v * u /\ v * u <= v * v
      BY <3>1
    <3>3. u * u = new * new /\ v * v = (old + 1) * (old + 1)
      OBVIOUS
    <3> QED BY <3>1, <3>2, <3>3
  <2>2. (old + 1) * (old + 1) = old * old + 2 * old + 1
    OBVIOUS
  <2>3. new * (new - 1) = new * new - new /\ old * (old - 1) = old * old - old
    OBVIOUS
  <2> QED BY <1>2, <2>1, <2>2, <2>3
<1> QED BY <1>1, <1>2

\* The potential of a whole budget is the largest.
LEMMA PotentialBound ==
  ASSUME NEW b \in Nat, NEW a \in -b..0
  PROVE  a * (a - 1) <= b * (b + 1)
<1> DEFINE u == -a
<1>1. u \in Nat /\ u <= b
  OBVIOUS
<1>2. u * u <= b * u /\ b * u <= b * b
  BY <1>1
<1>3. a * (a - 1) = u * u + u /\ b * (b + 1) = b * b + b
  OBVIOUS
<1> QED BY <1>1, <1>2, <1>3

\* The signed time has not wrapped yet if it has not at a later time.
LEMMA EarlierToo ==
  ASSUME NEW early \in Nat, NEW late \in Nat, early <= late,
         late + Granularity < UIntRange \div 2
  PROVE  early + Granularity < UIntRange \div 2
<1>1. UIntRange \div 2 \in Nat
  <2>1. UIntRange \in Nat /\ 2 \in Nat \ {0}
    BY TimingAssumption
  <2> QED BY <2>1, DivisionBounds
<1>2. Granularity \in Nat
  BY TimingAssumption
<1> QED BY <1>1, <1>2

\* A bound on time stays one as time passes.
LEMMA LaterBound ==
  ASSUME NEW sum \in Int, NEW bound \in Int, NEW tick \in Int,
         NEW early \in Int, NEW late \in Int, early <= late,
         sum <= 2 * (early + tick) + bound
  PROVE  sum <= 2 * (late + tick) + bound
  OBVIOUS

\* A step that begins, goes on with or drops a frame, and one of the clients.
LEMMA OtherSteps ==
  ASSUME IInv, spent' \in Nat, now' \in Nat, now - spent <= now' - spent', spent' <= now',
         now <= now', UNCHANGED <<boot, FPSLimit, LoopCounter, SleepAdjustment>>
  PROVE  IInv'
<1>1. NumbersOK'
  <2>1. Budget' = Budget
    BY DEF Budget
  <2> QED BY <2>1 DEF IInv, NumbersOK
<1>2. ASSUME FPSLimit > 0, now' + Granularity < UIntRange \div 2
      PROVE  2 * ((LoopCounter - 1) * ShortestFrame) + SleepAdjustment * (SleepAdjustment - 1)
               <= 2 * (now' - spent' + Granularity) + Budget * (Budget + 1)
  <2>1. now + Granularity < UIntRange \div 2
    BY <1>2, EarlierToo, TimingAssumption DEF IInv, NumbersOK
  <2>2. 2 * ((LoopCounter - 1) * ShortestFrame) + SleepAdjustment * (SleepAdjustment - 1)
          <= 2 * (now - spent + Granularity) + Budget * (Budget + 1)
    BY <1>2, <2>1 DEF IInv, RateInv
  <2>3. /\ (LoopCounter - 1) * ShortestFrame \in Int
        /\ SleepAdjustment * (SleepAdjustment - 1) \in Int
        /\ Budget * (Budget + 1) \in Int
    BY <1>2, BudgetFacts DEF IInv, NumbersOK
  <2> DEFINE before == (LoopCounter - 1) * ShortestFrame
             cost   == SleepAdjustment * (SleepAdjustment - 1)
             bound  == Budget * (Budget + 1)
  <2>4. 2 * before + cost <= 2 * (now - spent + Granularity) + bound
    BY <2>2
  <2>5. before \in Int /\ cost \in Int /\ bound \in Int
    BY <2>3
  <2>6. now \in Nat /\ spent \in Nat /\ Granularity \in Nat
    BY TimingAssumption DEF IInv, NumbersOK
  <2> HIDE DEF before, cost, bound
  <2>7. /\ now - spent \in Int /\ now' - spent' \in Int
        /\ 2 * before + cost \in Int /\ Granularity \in Int
    BY <2>5, <2>6
  <2>8. 2 * before + cost <= 2 * (now' - spent' + Granularity) + bound
    <3> DEFINE early == now - spent
               late  == now' - spent'
    <3>1. early \in Int /\ late \in Int /\ early <= late
      BY <2>7
    <3>2. 2 * before + cost <= 2 * (early + Granularity) + bound
      BY <2>4
    <3> HIDE DEF early, late
    <3>3. 2 * before + cost <= 2 * (late + Granularity) + bound
      BY <2>5, <2>7, <3>1, <3>2, LaterBound
    <3> QED BY <3>3 DEF late
  <2> QED BY <2>8 DEF before, cost, bound
<1>3. RateInv'
  BY <1>2 DEF RateInv, ShortestFrame, Budget
<1> QED BY <1>1, <1>3 DEF IInv

\* A frame that was sent: it slept, it had no time left, or the division failed.
LEMMA LimitRateStep ==
  ASSUME IInv, LimitRate
  PROVE  IInv'
<1> DEFINE fps == Quotient(Second, AverageTime)
           adjusted == LimitedTo(AdjustedBy(fps))
<1>1. /\ now \in Nat /\ spent \in Nat /\ spent <= now /\ Granularity \in Nat
      /\ FPSLimit \in Nat /\ LoopCounter \in Nat \ {0} /\ SleepAdjustment \in Int
  BY TimingAssumption DEF IInv, NumbersOK
<1>2. UNCHANGED <<boot, FPSLimit>> /\ spent' = 0
  BY DEF LimitRate, settingVars
<1>3. Budget' = Budget /\ ShortestFrame' = ShortestFrame
  BY <1>2 DEF Budget, ShortestFrame
<1>4. CASE LimiterFails
  <2>1. UNCHANGED <<now, LoopCounter, SleepAdjustment>>
    BY <1>4 DEF LimitRate
  <2> QED BY <1>1, <1>2, <2>1, OtherSteps
<1>5. CASE ~LimiterFails
  <2>1. FPSLimit > 0 /\ LoopCounter' = LoopCounter + 1
    BY <1>1, <1>5 DEF LimitRate, LimiterFails
  <2>2. /\ Budget \in Nat /\ ShortestFrame \in Nat /\ ShortestFrame <= Budget
        /\ SleepAdjustment \in -Budget..0
    BY <2>1, BudgetFacts DEF IInv, NumbersOK
  <2> DEFINE before  == (LoopCounter - 1) * ShortestFrame
             after   == LoopCounter * ShortestFrame
             bound   == Budget * (Budget + 1)
             cost(a) == a * (a - 1)
  <2>3. /\ before \in Int /\ after \in Int /\ after = before + ShortestFrame
        /\ bound \in Int /\ cost(SleepAdjustment) \in Int
    BY <1>1, <2>2
  <2>4. ASSUME now + Granularity < UIntRange \div 2
        PROVE  2 * before + cost(SleepAdjustment) <= 2 * (now - spent + Granularity) + bound
    BY <2>1, <2>4 DEF IInv, RateInv
  <2>5. SUFFICES
          /\ now' \in Nat /\ now <= now'
          /\ SleepAdjustment' \in -Budget..0
          /\ now' + Granularity < UIntRange \div 2 =>
               2 * after + cost(SleepAdjustment') <= 2 * (now' + Granularity) + bound
    <3>1. NumbersOK'
      BY <1>1, <1>2, <1>3, <2>1, <2>2, <2>5 DEF IInv, NumbersOK
    <3>2. RateInv'
      BY <1>1, <1>2, <1>3, <2>1, <2>5 DEF RateInv
    <3> QED BY <3>1, <3>2 DEF IInv
  <2>6. CASE Budget <= spent
    <3>1. UNCHANGED <<now, SleepAdjustment>>
      BY <1>1, <1>5, <2>2, <2>6 DEF LimitRate
    <3> HIDE DEF before, after, bound, cost
    <3> QED BY <1>1, <2>2, <2>3, <2>4, <2>6, <3>1
  <2>7. CASE Budget > spent
    <3>1. AverageTime # 0
      BY <1>5, <2>7 DEF LimiterFails
    <3>2. SleepAdjustment' = adjusted
      BY <1>5, <2>7 DEF LimitRate
    <3>3. fps \in Int
      <4>1. Second \in Int /\ AverageTime \in Int
        BY AverageTimeInt, TimingAssumption DEF IInv
      <4> QED BY <3>1, <4>1, QuotientFacts
    <3>4. /\ adjusted \in -Budget..0
          /\ ShouldSleep + adjusted >= 0
          /\ fps > FPSLimit /\ SleepAdjustment < 0 => adjusted >= SleepAdjustment + 1
          /\ fps > FPSLimit /\ SleepAdjustment = 0 => adjusted = 0
      BY <2>1, <2>7, <3>3, AdjustmentFacts DEF IInv
    <3> HIDE DEF fps, adjusted
    <3>5. now' \in Nat /\ now' >= now + (Budget - spent) + adjusted
      <4>1. ShouldSleep = Budget - spent /\ ShouldSleep \in Int /\ adjusted \in Int
        BY <1>1, <2>2, <3>4 DEF ShouldSleep
      <4>2. CASE ShouldSleep + adjusted > 0
        <5>1. PICK late \in Lates : now' = now + ShouldSleep + adjusted + late
          BY <1>5, <2>7, <3>2, <4>2 DEF LimitRate, PassTo
        <5>2. late \in Nat
          BY TimingAssumption
        <5> QED BY <1>1, <4>1, <4>2, <5>1, <5>2
      <4>3. CASE ShouldSleep + adjusted = 0
        <5>1. UNCHANGED now
          BY <1>5, <2>7, <3>2, <4>3 DEF LimitRate
        <5> QED BY <1>1, <4>1, <4>3, <5>1
      <4> QED BY <3>4, <4>1, <4>2, <4>3
    <3>6. now <= now'
      BY <1>1, <2>2, <3>4, <3>5 DEF ShouldSleep
    <3>7. ASSUME now' + Granularity < UIntRange \div 2
          PROVE  2 * after + cost(adjusted) <= 2 * (now' + Granularity) + bound
      <4>1. now + Granularity < UIntRange \div 2
        BY <1>1, <3>5, <3>6, <3>7, EarlierToo
      <4>2. 2 * before + cost(SleepAdjustment) <= 2 * (now - spent + Granularity) + bound
        BY <2>4, <4>1
      <4>3. adjusted \in Int /\ adjusted <= 0 /\ cost(adjusted) \in Int
        BY <2>2, <3>4
      <4>4. CASE fps <= FPSLimit
        <5>1. after <= now + Granularity
          BY <2>1, <3>1, <4>1, <4>4, NotTooFast DEF IInv, fps
        <5>2. cost(adjusted) <= bound
          BY <2>2, <3>4, PotentialBound
        <5> HIDE DEF after, bound, cost
        <5> QED BY <1>1, <2>3, <3>5, <3>6, <4>3, <5>1, <5>2
      <4>5. CASE fps > FPSLimit
        <5>1. cost(adjusted) - 2 * adjusted <= cost(SleepAdjustment)
          BY <2>2, <3>4, <4>3, <4>5, PotentialFalls
        <5> HIDE DEF before, after, bound, cost
        <5> QED BY <1>1, <2>2, <2>3, <3>5, <4>2, <4>3, <5>1
      <4> QED BY <1>1, <3>3, <4>4, <4>5
    <3> QED BY <3>2, <3>4, <3>5, <3>6, <3>7
  <2> QED BY <1>1, <2>2, <2>6, <2>7
<1> QED BY <1>4, <1>5

-----------------------------------------------------------------------------
(* The divisions                                                           *)

\* Where a rate is computed every frame had a tick of the clock, the first one but for
\* the tick that is added.
LEMMA EnoughTicks ==
  ASSUME IInv, DivisionInv, FPSLimit > 0, now + Granularity < UIntRange \div 2,
         LoopCounter <= FPSSum, Granularity <= Budget
  PROVE  LoopCounter <= Elapsed + 1 /\ (LoopCounter > 1 => LoopCounter <= Elapsed)
<1>1. /\ now \in Nat /\ spent \in Nat /\ spent <= now /\ Granularity \in Nat \ {0}
      /\ LoopCounter \in Nat \ {0} /\ boot \in 0..(Granularity - 1)
      /\ FPSSum \in Nat /\ FPSSum <= now
  BY TimingAssumption DEF IInv, NumbersOK, DivisionInv, SpentInv
<1>2. Elapsed = ElapsedAt(now) /\ Elapsed \in Nat
  BY ElapsedFacts DEF IInv
<1>3. CASE Granularity = 1
  <2>1. Elapsed = now
    BY <1>1, <1>2, <1>3, TicksAt DEF IInv
  <2> QED BY <1>1, <2>1
<1>4. CASE 2 <= Granularity
  <2>1. LoopCounter > 1 => LoopCounter <= ElapsedAt(now - spent)
    BY <1>4 DEF DivisionInv, TicksInv
  <2>2. ElapsedAt(now - spent) <= ElapsedAt(now) /\ ElapsedAt(now - spent) \in Nat
    <3>1. now - spent \in Nat /\ now - spent <= now /\ UIntRange \div 2 \in Int
      BY <1>1, TimingAssumption, DivisionBounds
    <3>2. (now - spent) + Granularity < UIntRange \div 2
      BY <1>1, <3>1
    <3> QED BY <1>1, <3>1, <3>2, TicksPass, TicksAt DEF IInv
  <2> QED BY <1>1, <1>2, <2>1, <2>2
<1> QED BY <1>1, <1>3, <1>4

\* A quotient is not 0 if the divisor is not above the dividend.
LEMMA QuotientPositive ==
  ASSUME NEW a \in Nat, NEW b \in Nat \ {0}, b <= a
  PROVE  a \div b # 0
<1>1. b * 1 <= a
  OBVIOUS
<1>2. 1 <= a \div b
  BY <1>1, DivisionGalois
<1> QED BY <1>2

\* So no statistics and no limiter divide by zero but in a loop that is too fast.
LEMMA CrashStep ==
  ASSUME IInv, DivisionInv, Statistics \/ LimitRate
  PROVE  DividesByZeroOnlyIfFast'
<1>1. UNCHANGED <<FPSLimit, FPSSum>> /\ (pc' = "crashed" => UNCHANGED <<now, LoopCounter>>)
        /\ Budget' = Budget
  BY DEF Statistics, LimitRate, settingVars, limiterVars, Budget
<1>2. SUFFICES ASSUME pc' = "crashed", now + Granularity < UIntRange \div 2,
                      FPSLimit # 0, LoopCounter <= FPSSum, Granularity <= Budget
               PROVE  FALSE
  <2>1. FPSSum \in Nat /\ LoopCounter \in Nat /\ Granularity \in Nat
          /\ (FPSLimit # 0 => Budget \in Nat)
    <3>1. Second \in Nat /\ FPSLimit \in Nat
      BY TimingAssumption DEF IInv, NumbersOK
    <3>2. FPSLimit # 0 => Budget \in Nat
      BY <3>1, DivisionBounds DEF Budget
    <3> QED BY <3>2, TimingAssumption DEF IInv, NumbersOK, DivisionInv, SpentInv
  <2> QED BY <1>1, <1>2, <2>1 DEF DividesByZeroOnlyIfFast
<1>3. FPSLimit > 0 /\ LoopCounter \in Nat \ {0} /\ FPSSum \in Nat
  BY <1>2 DEF IInv, NumbersOK, DivisionInv, SpentInv
<1>4. LoopCounter <= Elapsed + 1 /\ (LoopCounter > 1 => LoopCounter <= Elapsed)
  BY <1>2, <1>3, EnoughTicks
<1>5. /\ Elapsed \in Nat /\ (Elapsed + 1) % UIntRange = Elapsed + 1
      /\ Signed((Elapsed + 1) % UIntRange) = Elapsed + 1
  BY <1>2, ElapsedFacts DEF IInv
<1>6. (Elapsed + 1) \div LoopCounter # 0
  BY <1>3, <1>4, <1>5, QuotientPositive
<1>7. CASE Statistics
  <2>1. StatisticsFail
    BY <1>2, <1>7 DEF Statistics
  <2>2. FPSSum \div LoopCounter # 0
    BY <1>2, <1>3, QuotientPositive
  <2>3. ((Elapsed + 1) % UIntRange) \div LoopCounter # 0
    BY <1>5, <1>6
  <2>4. ForFrontEnd /\ Elapsed \div LoopCounter = 0
    BY <2>1, <2>2, <2>3 DEF StatisticsFail
  <2>5. LoopCounter > 1
    <3>1. ShowEvery \in Nat \ {0, 1}
      BY TimingAssumption
    <3>2. LoopCounter % ShowEvery = 0
      BY <2>4 DEF ForFrontEnd
    <3>3. LoopCounter # 1
      BY <3>1, <3>2, SmallRemainder
    <3> QED BY <1>3, <3>3
  <2> QED BY <1>3, <1>4, <1>5, <2>4, <2>5, QuotientPositive
<1>8. CASE LimitRate
  <2>1. LimiterFails
    BY <1>2, <1>8 DEF LimitRate
  <2>2. AverageTime = (Elapsed + 1) \div LoopCounter
    BY <1>3, <1>5, QuotientFacts DEF AverageTime
  <2> QED BY <1>2, <1>6, <2>1, <2>2 DEF LimiterFails
<1> QED BY <1>7, <1>8

\* The limiter does not turn the time back.
LEMMA LimiterTakesTime ==
  ASSUME IInv, LimitRate
  PROVE  now' \in Nat /\ now <= now'
<1>1. now \in Nat
  BY DEF IInv, NumbersOK
<1>2. CASE UNCHANGED now
  BY <1>1, <1>2
<1>3. CASE ~UNCHANGED now
  <2>1. PICK late \in Lates :
          /\ now' = now + ShouldSleep + SleepAdjustment' + late
          /\ ShouldSleep + SleepAdjustment' > 0
          /\ SleepAdjustment' = LimitedTo(AdjustedBy(Quotient(Second, AverageTime)))
          /\ ~LimiterFails /\ Budget > spent
    BY <1>3 DEF LimitRate, PassTo
  <2>2. late \in Nat /\ Second \in Int /\ spent \in Int
    BY TimingAssumption DEF IInv, NumbersOK
  <2>3. FPSLimit > 0 /\ AverageTime # 0 /\ AverageTime \in Int
    BY <2>1, AverageTimeInt DEF LimiterFails, IInv, NumbersOK
  <2>4. Budget \in Nat
    BY <2>3, BudgetFacts DEF IInv
  <2>5. Quotient(Second, AverageTime) \in Int
    BY <2>2, <2>3, QuotientFacts
  <2>6. SleepAdjustment' \in Int
    BY <2>1, <2>3, <2>5, AdjustmentFacts DEF IInv
  <2>7. ShouldSleep \in Int
    BY <2>2, <2>4 DEF ShouldSleep
  <2> QED BY <1>1, <2>1, <2>2, <2>6, <2>7
<1> QED BY <1>2, <1>3

\* A frame that is sent and slept for.
LEMMA LimiterKeepsTicks ==
  ASSUME IInv, DivisionInv, LimitRate, ~LimiterFails, IInv'
  PROVE  FewAdjustments' /\ TicksInv'
<1> DEFINE fps == Quotient(Second, AverageTime)
           adjusted == LimitedTo(AdjustedBy(fps))
           start == now - spent
<1>1. /\ now \in Nat /\ spent \in Nat /\ spent <= now /\ start \in Nat
      /\ Granularity \in Nat \ {0} /\ UIntRange \div 2 \in Int
      /\ FPSLimit \in Nat /\ LoopCounter \in Nat \ {0} /\ SleepAdjustment \in Int
      /\ now' \in Nat
  BY TimingAssumption, DivisionBounds DEF IInv, NumbersOK
<1>2. /\ UNCHANGED <<boot, FPSLimit>> /\ spent' = 0 /\ LoopCounter' = LoopCounter + 1
      /\ FPSLimit > 0
  BY <1>1 DEF LimitRate, settingVars, LimiterFails
<1>3. Budget' = Budget /\ ElapsedAt(now - spent)' = ElapsedAt(now' - spent')
  BY <1>2 DEF Budget, ElapsedAt, GetTickCount
<1>4. /\ Budget \in Nat /\ ShortestFrame \in Nat
      /\ SleepAdjustment \in -Budget..0 /\ -SleepAdjustment < LoopCounter
  BY <1>2, BudgetFacts DEF IInv, NumbersOK, DivisionInv, FewAdjustments
<1>5. CASE Budget <= spent
  <2>1. UNCHANGED <<now, SleepAdjustment>>
    BY <1>1, <1>4, <1>5 DEF LimitRate
  <2>2. FewAdjustments'
    BY <1>1, <1>2, <1>4, <2>1 DEF FewAdjustments
  <2>3. TicksInv'
    <3> SUFFICES ASSUME 2 <= Granularity, Granularity <= Budget,
                        now + Granularity < UIntRange \div 2
                 PROVE  /\ LoopCounter + 1 <= ElapsedAt(now)
                        /\ (LoopCounter + 1) - SleepAdjustment - 1 <= ElapsedAt(now)
      <4>1. now' - spent' = now
        BY <1>1, <1>2, <2>1, NoDifference
      <4> QED BY <1>2, <1>3, <2>1, <4>1 DEF TicksInv
    <3>1. start + Granularity <= now /\ start <= now
      BY <1>1, <1>4, <1>5
    <3>2. ElapsedAt(start) + Granularity <= ElapsedAt(now)
      BY <1>1, <3>1, TicksPass DEF IInv
    <3>3. ElapsedAt(start) \in Nat /\ ElapsedAt(now) \in Nat
      <4>1. start + Granularity < UIntRange \div 2
        BY <1>1, <3>1
      <4> QED BY <1>1, <4>1, TicksAt DEF IInv
    <3>4. LoopCounter > 1 => /\ LoopCounter <= ElapsedAt(start)
                             /\ LoopCounter - SleepAdjustment - 1 <= ElapsedAt(start)
      BY <1>2 DEF DivisionInv, TicksInv
    <3> QED BY <1>1, <1>4, <3>2, <3>3, <3>4
  <2> QED BY <2>2, <2>3
<1>6. CASE Budget > spent
  <2>1. AverageTime # 0 /\ SleepAdjustment' = adjusted
    BY <1>6 DEF LimitRate, LimiterFails
  <2>2. fps \in Int
    <3>1. Second \in Int /\ AverageTime \in Int
      BY AverageTimeInt, TimingAssumption DEF IInv
    <3> QED BY <2>1, <3>1, QuotientFacts
  <2>3. /\ adjusted \in -Budget..0
        /\ ShouldSleep + adjusted >= 0
        /\ fps > FPSLimit /\ SleepAdjustment < 0 => adjusted >= SleepAdjustment + 1
        /\ fps > FPSLimit /\ SleepAdjustment = 0 => adjusted = 0
    BY <1>2, <1>6, <2>2, AdjustmentFacts DEF IInv
  <2>4. /\ adjusted >= SleepAdjustment - 1
        /\ fps >= FPSLimit => adjusted >= SleepAdjustment
    BY <1>1, <1>4, <1>6, <2>2 DEF LimitedTo, AdjustedBy, ShouldSleep
  <2> HIDE DEF fps, adjusted
  <2>5. now' >= start + Budget + adjusted /\ now' >= now
    <3>1. ShouldSleep = Budget - spent /\ ShouldSleep \in Int /\ adjusted \in Int
      BY <1>1, <1>4, <2>3 DEF ShouldSleep
    <3>2. CASE ShouldSleep + adjusted > 0
      <4>1. PICK late \in Lates : now' = now + ShouldSleep + adjusted + late
        BY <1>6, <2>1, <3>2 DEF LimitRate, PassTo, fps, adjusted
      <4>2. late \in Nat
        BY TimingAssumption
      <4> QED BY <1>1, <1>4, <3>1, <3>2, <4>1, <4>2
    <3>3. CASE ShouldSleep + adjusted = 0
      <4>1. UNCHANGED now
        BY <1>6, <2>1, <3>3 DEF LimitRate, fps, adjusted
      <4> QED BY <1>1, <1>4, <3>1, <3>3, <4>1
    <3> QED BY <2>3, <3>1, <3>2, <3>3
  <2>6. FewAdjustments'
    BY <1>1, <1>2, <1>4, <2>1, <2>3, <2>4 DEF FewAdjustments
  <2>7. TicksInv'
    <3> SUFFICES ASSUME 2 <= Granularity, Granularity <= Budget,
                        now' + Granularity < UIntRange \div 2
                 PROVE  /\ LoopCounter + 1 <= ElapsedAt(now')
                        /\ LoopCounter - adjusted <= ElapsedAt(now')
      <4>1. now' - spent' = now'
        <5>1. now' - 0 = now'
          BY <1>1, NoDifference
        <5> QED BY <1>2, <5>1
      <4>2. LoopCounter' - SleepAdjustment' - 1 = LoopCounter - adjusted
        BY <1>1, <1>2, <2>1, <2>3
      <4> QED BY <1>2, <1>3, <2>1, <4>1, <4>2 DEF TicksInv
    <3>1. /\ start <= now /\ start + Granularity < UIntRange \div 2
          /\ now + Granularity < UIntRange \div 2
      BY <1>1, <2>5
    <3>2. /\ ElapsedAt(start) \in Nat /\ ElapsedAt(now) \in Nat /\ ElapsedAt(now') \in Nat
      BY <1>1, <3>1, TicksAt DEF IInv
    <3>3. ElapsedAt(start) <= ElapsedAt(now) /\ ElapsedAt(now) <= ElapsedAt(now')
      BY <1>1, <2>5, <3>1, TicksPass DEF IInv
    <3>4. LoopCounter > 1 => /\ LoopCounter <= ElapsedAt(start)
                             /\ LoopCounter - SleepAdjustment - 1 <= ElapsedAt(start)
      BY <1>2, <3>1 DEF DivisionInv, TicksInv
    <3>5. Elapsed = ElapsedAt(now)
      BY <3>1, ElapsedFacts DEF IInv
    <3>6. CASE adjusted = 0
      <4>1. start + Granularity <= now' /\ start <= now'
        BY <1>1, <1>4, <2>5, <3>6
      <4>2. ElapsedAt(start) + Granularity <= ElapsedAt(now')
        BY <1>1, <4>1, TicksPass DEF IInv
      <4> QED BY <1>1, <3>2, <3>4, <3>6, <4>2
    <3>7. CASE adjusted < 0
      <4>1. SUFFICES LoopCounter - adjusted <= ElapsedAt(now')
        BY <1>1, <2>3, <3>2, <3>7
      <4>2. CASE fps > FPSLimit
        <5>1. SleepAdjustment < 0 /\ adjusted >= SleepAdjustment + 1
          BY <1>4, <2>3, <3>7, <4>2
        <5>2. LoopCounter > 1
          BY <1>1, <1>4, <5>1
        <5> QED BY <1>1, <2>3, <3>2, <3>3, <3>4, <5>1, <5>2
      <4>3. CASE fps = FPSLimit
        <5>1. adjusted >= SleepAdjustment
          BY <1>1, <2>4, <4>3
        <5>2. LoopCounter * ShortestFrame <= ElapsedAt(now) + 1
          BY <1>1, <1>2, <2>1, <3>1, <3>5, <4>3, RateTells DEF IInv, fps
        <5>3. ShortestFrame >= 2
          <6>1. Second \in Nat /\ FPSLimit \in Nat \ {0} /\ FPSLimit + 1 \in Nat \ {0}
            BY <1>1, <1>2, TimingAssumption
          <6>2. FPSLimit * 2 <= Second
            <7>1. 2 <= Second \div FPSLimit
              BY <1>1, <1>4 DEF Budget
            <7> QED BY <6>1, <7>1, DivisionGalois
          <6>3. (FPSLimit + 1) * 1 <= Second
            BY <6>1, <6>2
          <6>4. 1 <= Second \div (FPSLimit + 1)
            BY <6>1, <6>3, DivisionGalois
          <6>5. Second \div (FPSLimit + 1) \in Nat
            BY <6>1, DivisionBounds
          <6> QED BY <1>1, <1>4, <6>4, <6>5 DEF ShortestFrame
        <5>4. LoopCounter * 2 <= LoopCounter * ShortestFrame /\ LoopCounter * ShortestFrame \in Nat
          BY <1>1, <1>4, <5>3
        <5>5. LoopCounter * 2 <= ElapsedAt(now) + 1
          BY <1>1, <3>2, <5>2, <5>4
        <5> QED BY <1>1, <1>4, <2>3, <3>2, <3>3, <5>1, <5>5
      <4>4. CASE fps < FPSLimit
        <5>1. LoopCounter * (Budget + 1) <= ElapsedAt(now) + 1
          BY <1>1, <1>2, <2>1, <3>1, <3>5, <4>4, RateTells DEF IInv, fps
        <5>2. LoopCounter * 3 <= LoopCounter * (Budget + 1) /\ LoopCounter * (Budget + 1) \in Nat
          BY <1>1, <1>4
        <5>3. LoopCounter * 3 <= ElapsedAt(now) + 1
          BY <1>1, <3>2, <5>1, <5>2
        <5> QED BY <1>1, <1>4, <2>3, <2>4, <3>2, <3>3, <5>3
      <4> QED BY <1>1, <2>2, <4>2, <4>3, <4>4
    <3> QED BY <2>3, <3>6, <3>7
  <2> QED BY <2>6, <2>7
<1> QED BY <1>1, <1>4, <1>5, <1>6

\* A step in which no frame ends.
LEMMA OtherTicks ==
  ASSUME IInv, DivisionInv, IInv', now - spent <= now' - spent', now <= now',
         UNCHANGED <<boot, FPSLimit, LoopCounter, SleepAdjustment>>
  PROVE  FewAdjustments' /\ TicksInv'
<1>1. FewAdjustments'
  BY DEF DivisionInv, FewAdjustments
<1>2. /\ now \in Nat /\ spent \in Nat /\ spent <= now /\ now' \in Nat /\ spent' \in Nat
      /\ spent' <= now' /\ LoopCounter \in Nat /\ SleepAdjustment \in Int
      /\ Granularity \in Nat /\ UIntRange \div 2 \in Int
  BY TimingAssumption, DivisionBounds DEF IInv, NumbersOK
<1>3. Budget' = Budget
  BY DEF Budget
<1>4. ASSUME FPSLimit > 0, 2 <= Granularity, Granularity <= Budget,
             now' + Granularity < UIntRange \div 2, LoopCounter > 1
      PROVE  /\ LoopCounter <= ElapsedAt(now' - spent')
             /\ LoopCounter - SleepAdjustment - 1 <= ElapsedAt(now' - spent')
  <2>1. now + Granularity < UIntRange \div 2
    BY <1>2, <1>4
  <2>2. /\ LoopCounter <= ElapsedAt(now - spent)
        /\ LoopCounter - SleepAdjustment - 1 <= ElapsedAt(now - spent)
    BY <1>4, <2>1 DEF DivisionInv, TicksInv
  <2>3. now - spent \in Nat /\ now' - spent' \in Nat
    <3>1. now - spent \in Nat
      BY <1>2
    <3>2. now' - spent' \in Nat
      BY <1>2, Difference
    <3> QED BY <3>1, <3>2
  <2>4. (now' - spent') + Granularity < UIntRange \div 2
          /\ (now - spent) + Granularity < UIntRange \div 2
    BY <1>2, <1>4, <2>1
  <2>5. ElapsedAt(now - spent) <= ElapsedAt(now' - spent')
    BY <2>3, <2>4, TicksPass DEF IInv
  <2>6. ElapsedAt(now - spent) \in Nat /\ ElapsedAt(now' - spent') \in Nat
    BY <2>3, <2>4, TicksAt DEF IInv
  <2> QED BY <1>2, <2>2, <2>5, <2>6
<1>5. TicksInv'
  <2>1. ElapsedAt(now - spent)' = ElapsedAt(now' - spent')
    BY DEF ElapsedAt, GetTickCount
  <2> QED BY <1>3, <1>4, <2>1 DEF TicksInv
<1> QED BY <1>1, <1>5

-----------------------------------------------------------------------------
(* Induction                                                               *)

\* The invariant holds when the loop begins ...
LEMMA InitIInv == Init => IInv
<1> SUFFICES ASSUME Init PROVE IInv
  OBVIOUS
<1>1. NumbersOK
  <2>1. FPSLimit > 0 => Budget \in Nat
    BY TimingAssumption, DivisionBounds DEF Init, Budget
  <2> QED BY <2>1, TimingAssumption DEF Init, NumbersOK
<1>2. RateInv
  <2> SUFFICES ASSUME FPSLimit > 0
               PROVE  2 * ((1 - 1) * ShortestFrame) + 0 * (0 - 1)
                        <= 2 * (0 - 0 + Granularity) + Budget * (Budget + 1)
    BY DEF Init, RateInv
  <2>1. ShortestFrame \in Nat /\ Budget \in Nat /\ Granularity \in Nat
    BY <1>1, BudgetFacts, TimingAssumption
  <2>2. Budget * (Budget + 1) \in Nat
    BY <2>1
  <2> QED BY <2>1, <2>2
<1> QED BY <1>1, <1>2 DEF IInv

\* ... every step keeps it ...
LEMMA NextIInv == IInv /\ [Next]_vars => IInv'
<1> SUFFICES ASSUME IInv, [Next]_vars PROVE IInv'
  OBVIOUS
<1>1. now \in Nat /\ spent \in Nat /\ spent <= now
  BY DEF IInv, NumbersOK
<1>2. CASE Idle
  BY <1>1, <1>2, OtherSteps DEF Idle, PassTo, settingVars, limiterVars
<1>3. ASSUME NEW work \in Works, CaptureFrame(work) PROVE IInv'
  <2>1. work \in Nat
    BY TimingAssumption
  <2> QED BY <1>1, <1>3, <2>1, OtherSteps DEF CaptureFrame, PassTo, settingVars, limiterVars
<1>4. CASE AbandonFrame
  BY <1>1, <1>4, OtherSteps DEF AbandonFrame, settingVars, limiterVars
<1>5. ASSUME NEW size \in PacketSizes, NEW n \in 1..MaxClients, NEW time \in Sends,
             SendFrame(size, n, time)
      PROVE  IInv'
  <2>1. time \in Nat
    BY TimingAssumption
  <2> QED BY <1>1, <1>5, <2>1, OtherSteps DEF SendFrame, settingVars
<1>6. CASE Statistics
  BY <1>1, <1>6, OtherSteps DEF Statistics, settingVars, limiterVars
<1>7. CASE LimitRate
  BY <1>7, LimitRateStep
<1>8. CASE ClientsChange
  BY <1>1, <1>8, OtherSteps DEF ClientsChange, settingVars, limiterVars
<1>9. CASE UNCHANGED vars
  BY <1>1, <1>9, OtherSteps DEF vars, settingVars, limiterVars
<1> QED BY <1>2, <1>3, <1>4, <1>5, <1>6, <1>7, <1>8, <1>9 DEF Next

\* ... and it limits the rate.
LEMMA IInvRateIsLimited == IInv => RateIsLimited
<1> SUFFICES ASSUME IInv, FPSLimit > 0, now + Granularity < UIntRange \div 2
             PROVE  2 * (LoopCounter - 1) * ShortestFrame
                      <= 2 * (now + Granularity) + Budget * (Budget + 1)
  BY DEF RateIsLimited
<1> DEFINE frames == (LoopCounter - 1) * ShortestFrame
           cost   == SleepAdjustment * (SleepAdjustment - 1)
           bound  == Budget * (Budget + 1)
<1>1. /\ now \in Nat /\ spent \in Nat /\ Granularity \in Nat /\ LoopCounter \in Nat
      /\ SleepAdjustment \in Int /\ SleepAdjustment <= 0
      /\ Budget \in Nat /\ ShortestFrame \in Nat
  BY BudgetFacts, TimingAssumption DEF IInv, NumbersOK
<1>2. 2 * frames + cost <= 2 * (now - spent + Granularity) + bound
  BY DEF IInv, RateInv
<1>3. frames \in Int /\ bound \in Int /\ cost \in Nat
  <2>1. -SleepAdjustment \in Nat /\ 1 - SleepAdjustment \in Nat
    BY <1>1
  <2>2. (-SleepAdjustment) * (1 - SleepAdjustment) \in Nat
    BY <2>1
  <2>3. cost = (-SleepAdjustment) * (1 - SleepAdjustment)
    BY <1>1
  <2> QED BY <1>1, <2>2, <2>3
<1>4. 2 * (LoopCounter - 1) * ShortestFrame = 2 * frames
  BY <1>1
<1> HIDE DEF frames, cost, bound
<1>5. 2 * frames <= 2 * (now + Granularity) + bound
  BY <1>1, <1>2, <1>3
<1> QED BY <1>4, <1>5 DEF bound

\* The divisions stay possible over every step.
LEMMA NextDivisionInv == IInv /\ DivisionInv /\ [Next]_vars => DivisionInv'
<1> SUFFICES ASSUME IInv, DivisionInv, [Next]_vars PROVE DivisionInv'
  OBVIOUS
<1>1. IInv'
  BY NextIInv
<1>2. /\ now \in Nat /\ spent \in Nat /\ spent <= now /\ FPSSum \in Nat /\ FPSSum <= now
      /\ pc \in {"loop", "send"} => FPSSum + spent <= now
  BY DEF IInv, NumbersOK, DivisionInv, SpentInv
<1>3. ASSUME now' \in Nat, spent' \in Nat, spent' <= now', now - spent <= now' - spent',
             now <= now', UNCHANGED <<boot, FPSLimit, LoopCounter, SleepAdjustment>>,
             SpentInv', DividesByZeroOnlyIfFast'
      PROVE  DivisionInv'
  BY <1>1, <1>3, OtherTicks DEF DivisionInv
<1>4. CASE Idle
  <2>1. /\ pc = "loop" /\ pc' = "loop" /\ now' = now + 1
        /\ UNCHANGED <<boot, FPSLimit, LoopCounter, SleepAdjustment, spent, FPSSum>>
    BY <1>4 DEF Idle, PassTo, settingVars, limiterVars
  <2> QED BY <1>2, <1>3, <2>1 DEF SpentInv, DividesByZeroOnlyIfFast
<1>5. ASSUME NEW work \in Works, CaptureFrame(work) PROVE DivisionInv'
  <2>1. /\ pc = "loop" /\ pc' = "send" /\ now' = now + work /\ spent' = work
        /\ UNCHANGED <<boot, FPSLimit, LoopCounter, SleepAdjustment, FPSSum>>
    BY <1>5 DEF CaptureFrame, PassTo, settingVars, limiterVars
  <2>2. work \in Nat
    BY TimingAssumption
  <2> QED BY <1>2, <1>3, <2>1, <2>2 DEF SpentInv, DividesByZeroOnlyIfFast
<1>6. CASE AbandonFrame
  <2>1. /\ pc' = "loop" /\ spent' = 0
        /\ UNCHANGED <<now, boot, FPSLimit, LoopCounter, SleepAdjustment, FPSSum>>
    BY <1>6 DEF AbandonFrame, settingVars, limiterVars
  <2> QED BY <1>2, <1>3, <2>1 DEF SpentInv, DividesByZeroOnlyIfFast
<1>7. ASSUME NEW size \in PacketSizes, NEW n \in 1..MaxClients, NEW time \in Sends,
             SendFrame(size, n, time)
      PROVE  DivisionInv'
  <2>1. /\ pc = "send" /\ pc' = "stats" /\ now' = now + time /\ spent' = spent + time
        /\ FPSSum' = FPSSum + spent'
        /\ UNCHANGED <<boot, FPSLimit, LoopCounter, SleepAdjustment>>
    BY <1>7 DEF SendFrame, settingVars
  <2>2. time \in Nat
    BY TimingAssumption
  <2> QED BY <1>2, <1>3, <2>1, <2>2 DEF SpentInv, DividesByZeroOnlyIfFast
<1>8. CASE Statistics
  <2>1. /\ UNCHANGED <<now, boot, FPSLimit, LoopCounter, SleepAdjustment, spent, FPSSum>>
        /\ pc' \in {"crashed", "limit"}
    BY <1>8 DEF Statistics, settingVars, limiterVars
  <2>2. DividesByZeroOnlyIfFast'
    BY <1>8, CrashStep
  <2> QED BY <1>2, <1>3, <2>1, <2>2 DEF SpentInv
<1>9. CASE LimitRate
  <2>1. DividesByZeroOnlyIfFast'
    BY <1>9, CrashStep
  <2>2. UNCHANGED <<boot, FPSLimit, FPSSum>> /\ spent' = 0
    BY <1>9 DEF LimitRate, settingVars
  <2>3. CASE LimiterFails
    <3>1. UNCHANGED <<now, LoopCounter, SleepAdjustment>> /\ pc' = "crashed"
      BY <1>9, <2>3 DEF LimitRate
    <3> QED BY <1>2, <1>3, <2>1, <2>2, <3>1 DEF SpentInv
  <2>4. CASE ~LimiterFails
    <3>1. FewAdjustments' /\ TicksInv'
      BY <1>1, <1>9, <2>4, LimiterKeepsTicks
    <3>2. now' \in Nat /\ now <= now'
      BY <1>9, LimiterTakesTime
    <3>3. SpentInv'
      BY <1>2, <2>2, <3>2 DEF SpentInv
    <3> QED BY <2>1, <3>1, <3>3 DEF DivisionInv
  <2> QED BY <2>3, <2>4
<1>10. CASE ClientsChange \/ UNCHANGED vars
  <2>1. UNCHANGED <<now, boot, FPSLimit, LoopCounter, SleepAdjustment, spent, FPSSum, pc>>
    BY <1>10 DEF ClientsChange, vars, settingVars, limiterVars
  <2>2. SpentInv'
    BY <2>1 DEF DivisionInv, SpentInv
  <2>3. DividesByZeroOnlyIfFast'
    BY <2>1 DEF DivisionInv, DividesByZeroOnlyIfFast, Budget
  <2> QED BY <1>2, <1>3, <2>1, <2>2, <2>3
<1> QED BY <1>4, <1>5, <1>6, <1>7, <1>8, <1>9, <1>10 DEF Next

\* ... and are possible at the start.
LEMMA InitDivisionInv == Init => DivisionInv
BY DEF Init, DivisionInv, SpentInv, FewAdjustments, TicksInv, DividesByZeroOnlyIfFast

-----------------------------------------------------------------------------
(* The sampler                                                             *)

\* A part of a list.
LEMMA RestrictFacts ==
  ASSUME NEW list, NEW S \in SUBSET DOMAIN list
  PROVE  /\ DOMAIN Restrict(list, S) = S
         /\ \A f \in S : Restrict(list, S)[f] = list[f]
         /\ \A T : list \in [DOMAIN list -> T] => Restrict(list, S) \in [S -> T]
BY DEF Restrict

\* What time leaves of the history.
LEMMA RecentFacts ==
  ASSUME NEW list, NEW t
  PROVE  LET recent == {f \in DOMAIN list : list[f].Stamp + HistoryDuration >= t}
         IN  /\ DOMAIN Recent(t, list) = recent
             /\ \A f \in recent : Recent(t, list)[f] = list[f]
             /\ \A T : list \in [DOMAIN list -> T] => Recent(t, list) \in [recent -> T]
<1> DEFINE recent == {f \in DOMAIN list : list[f].Stamp + HistoryDuration >= t}
<1>1. recent \in SUBSET DOMAIN list /\ Recent(t, list) = Restrict(list, recent)
  BY DEF Recent
<1> HIDE DEF recent
<1>2. /\ DOMAIN Recent(t, list) = recent
      /\ \A f \in recent : Recent(t, list)[f] = list[f]
      /\ \A T : list \in [DOMAIN list -> T] => Recent(t, list) \in [recent -> T]
  BY <1>1, RestrictFacts
<1> QED BY <1>2 DEF recent

\* What the sampler counts and keeps is a part of its list: what it counts is not
\* older than the limit, and what is newer; what it keeps is what is not older.
LEMMA SamplerFacts ==
  ASSUME NEW list, NEW limit
  PROVE  LET counted == CountedSamples(list, limit)
             kept    == KeptSamples(list, limit)
         IN  /\ DOMAIN counted =
                  {f \in DOMAIN list :
                     \A g \in DOMAIN list : g >= f => list[g].Stamp >= limit}
             /\ \A f \in DOMAIN counted : counted[f] = list[f]
             /\ DOMAIN kept =
                  {f \in DOMAIN list : f \in DOMAIN counted \/ list[f].Stamp >= limit}
             /\ \A f \in DOMAIN kept : kept[f] = list[f]
             /\ counted = [f \in DOMAIN counted |-> list[f]]
             /\ kept = [f \in DOMAIN kept |-> list[f]]
<1> DEFINE counted == CountedSamples(list, limit)
           kept    == KeptSamples(list, limit)
           C == {f \in DOMAIN list :
                   \A g \in DOMAIN list : g >= f => list[g].Stamp >= limit}
           K == {f \in DOMAIN list :
                   f \in DOMAIN counted \/ list[f].Stamp >= limit}
<1>1. C \in SUBSET DOMAIN list /\ counted = Restrict(list, C)
  BY DEF CountedSamples, counted
<1>2. K \in SUBSET DOMAIN list /\ kept = Restrict(list, K)
  BY DEF KeptSamples, kept
<1> HIDE DEF C, K, counted, kept
<1>3. /\ DOMAIN counted = C
      /\ \A f \in C : counted[f] = list[f]
      /\ counted = [f \in C |-> list[f]]
  BY <1>1 DEF Restrict
<1>4. /\ DOMAIN kept = K
      /\ \A f \in K : kept[f] = list[f]
      /\ kept = [f \in K |-> list[f]]
  BY <1>2 DEF Restrict
<1> QED BY <1>3, <1>4 DEF C, K, counted, kept

\* The limit wraps to what no stamp is before HistoryDuration has passed.
LEMMA StampLimitIs ==
  ASSUME NEW t \in Nat, t < UIntRange
  PROVE  /\ StampLimit(t) \in Nat
         /\ t >= HistoryDuration => StampLimit(t) = t - HistoryDuration
         /\ t < HistoryDuration => StampLimit(t) > t
<1>1. UIntRange \in Nat \ {0} /\ HistoryDuration \in Nat /\ 2 * HistoryDuration < UIntRange
  BY TimingAssumption
<1>2. GetTimer(t) = t
  BY <1>1, SmallRemainder DEF GetTimer
<1>3. CASE t >= HistoryDuration
  <2>1. t - HistoryDuration \in Nat /\ t - HistoryDuration < UIntRange
    BY <1>1, <1>3
  <2> QED BY <1>1, <1>2, <1>3, <2>1, SmallRemainder DEF StampLimit
<1>4. CASE t < HistoryDuration
  <2>1. (t - HistoryDuration) % UIntRange = t - HistoryDuration + UIntRange
    BY <1>1, <1>4
  <2> QED BY <1>1, <1>2, <1>4, <2>1 DEF StampLimit
<1> QED BY <1>1, <1>3, <1>4

\* GetTimer() is an unsigned int, and until it wraps the time.
LEMMA GetTimerIs ==
  ASSUME NEW t \in Nat
  PROVE  GetTimer(t) \in 0..(UIntRange - 1) /\ (t < UIntRange => GetTimer(t) = t)
<1>1. UIntRange \in Nat \ {0}
  BY TimingAssumption
<1> QED BY <1>1, SmallRemainder DEF GetTimer

\* No time passes: the history is what it was.
LEMMA NothingPasses ==
  ASSUME ListsOK, SentIsRecent
  PROVE  Recent(now, sent) = sent
<1>1. {f \in DOMAIN sent : sent[f].Stamp + HistoryDuration >= now} = DOMAIN sent
  BY DEF SentIsRecent
<1>2. /\ Recent(now, sent) \in [DOMAIN sent -> [Value : Nat, Stamp : Nat]]
      /\ \A f \in DOMAIN sent : Recent(now, sent)[f] = sent[f]
  BY <1>1, RecentFacts DEF ListsOK
<1> QED BY <1>2 DEF ListsOK

\* Time passes and the sampler is left alone.
LEMMA TimePasses ==
  ASSUME IInv, SamplerInv, now' \in Nat, now <= now', sent' = Recent(now', sent),
         UNCHANGED <<Samples, usage>>, pc' # "limit",
         \/ LoopCounter' = LoopCounter /\ (pc' \in {"loop", "send"} => pc \in {"loop", "send"})
         \/ LoopCounter' = LoopCounter + 1
  PROVE  SamplerInv'
<1>1. /\ now \in Nat /\ LoopCounter \in Nat /\ LoopCounter' \in Nat
      /\ HistoryDuration \in Nat /\ UIntRange \in Nat
  BY TimingAssumption DEF IInv, NumbersOK
<1>2. /\ DOMAIN sent' = {f \in DOMAIN sent : sent[f].Stamp + HistoryDuration >= now'}
      /\ \A f \in DOMAIN sent' : sent'[f] = sent[f]
      /\ sent' \in [DOMAIN sent' -> [Value : Nat, Stamp : Nat]]
  BY RecentFacts DEF SamplerInv, ListsOK
<1>3. \A f \in DOMAIN sent : sent[f].Stamp \in Nat
  BY DEF SamplerInv, ListsOK
<1>4. \A f \in DOMAIN Samples : Samples[f].Stamp \in Nat
  BY <1>1 DEF SamplerInv, ListsOK, IsSampleList
<1>5. ListsOK'
  BY <1>1, <1>2 DEF SamplerInv, ListsOK, IsSampleList
<1>6. SentOnce'
  BY <1>1, <1>2 DEF SamplerInv, SentOnce, ListsOK, IsSampleList
<1>7. SentIsRecent'
  BY <1>1, <1>2, <1>3 DEF SamplerInv, SentIsRecent
<1>8. ListInv'
  <2> SUFFICES ASSUME now' < UIntRange PROVE (StampsInOrder /\ RecentIsSent /\ SentIsKept)'
    BY DEF ListInv
  <2>1. StampsInOrder /\ RecentIsSent /\ SentIsKept
    BY <1>1 DEF SamplerInv, ListInv
  <2>2. StampsInOrder'
    BY <1>1, <1>4, <2>1 DEF StampsInOrder
  <2>3. RecentIsSent'
    BY <1>1, <1>2, <1>4, <2>1 DEF RecentIsSent
  <2>4. SentIsKept'
    BY <1>2, <2>1 DEF SentIsKept
  <2> QED BY <2>2, <2>3, <2>4
<1>9. UsageIsExact' /\ NothingOldKept'
  BY DEF UsageIsExact, NothingOldKept, Asked
<1> QED BY <1>5, <1>6, <1>7, <1>8, <1>9 DEF SamplerInv

\* A frame is sent: the newest sample of the list and of the history.
LEMMA SendAddsSample ==
  ASSUME IInv, SamplerInv, NEW size \in PacketSizes, NEW n \in 1..MaxClients,
         NEW time \in Sends, SendFrame(size, n, time)
  PROVE  SamplerInv'
<1> DEFINE recent == Recent(now', sent)
           value  == n * size
<1>1. /\ now \in Nat /\ LoopCounter \in Nat \ {0} /\ time \in Nat /\ value \in Nat
      /\ HistoryDuration \in Nat /\ UIntRange \in Nat
  BY TimingAssumption DEF IInv, NumbersOK
<1>2. /\ pc = "send" /\ pc' = "stats" /\ now' = now + time
      /\ Samples' = AddSample(Samples, LoopCounter, value, GetTimer(now'))
      /\ sent' = AddSample(recent, LoopCounter, value, now')
      /\ LoopCounter' = LoopCounter /\ usage' = usage
  BY DEF SendFrame
<1>3. /\ DOMAIN recent = {f \in DOMAIN sent : sent[f].Stamp + HistoryDuration >= now'}
      /\ \A f \in DOMAIN recent : recent[f] = sent[f]
      /\ recent \in [DOMAIN recent -> [Value : Nat, Stamp : Nat]]
  BY RecentFacts DEF SamplerInv, ListsOK
<1> HIDE DEF recent, value
<1>4. /\ LoopCounter \notin DOMAIN Samples /\ LoopCounter \notin DOMAIN sent
      /\ DOMAIN Samples \subseteq 1..LoopCounter /\ DOMAIN sent \subseteq 1..LoopCounter
      /\ Samples \in [DOMAIN Samples -> [Value : Nat, Stamp : 0..(UIntRange - 1)]]
      /\ sent \in [DOMAIN sent -> [Value : Nat, Stamp : Nat]]
  BY <1>2 DEF SamplerInv, SentOnce, ListsOK, IsSampleList
<1>5. now' \in Nat /\ GetTimer(now') \in 0..(UIntRange - 1)
      /\ (now' < UIntRange => GetTimer(now') = now')
  <2>1. now' \in Nat
    BY <1>1, <1>2
  <2> QED BY <2>1, GetTimerIs
<1>6. /\ DOMAIN Samples' = DOMAIN Samples \cup {LoopCounter}
      /\ Samples'[LoopCounter] = [Value |-> value, Stamp |-> GetTimer(now')]
      /\ \A f \in DOMAIN Samples : Samples'[f] = Samples[f]
      /\ Samples' \in [DOMAIN Samples' -> [Value : Nat, Stamp : 0..(UIntRange - 1)]]
  <2>1. /\ Samples' = [f \in DOMAIN Samples' |-> Samples'[f]]
        /\ DOMAIN Samples' = DOMAIN Samples \cup {LoopCounter}
        /\ Samples'[LoopCounter] = [Value |-> value, Stamp |-> GetTimer(now')]
        /\ \A f \in DOMAIN Samples : Samples'[f] = Samples[f]
    BY <1>1, <1>2, <1>4 DEF AddSample
  <2>2. \A f \in DOMAIN Samples' : Samples'[f] \in [Value : Nat, Stamp : 0..(UIntRange - 1)]
    BY <1>1, <1>4, <1>5, <2>1
  <2> QED BY <2>1, <2>2
<1>7. /\ DOMAIN sent' = DOMAIN recent \cup {LoopCounter}
      /\ sent'[LoopCounter] = [Value |-> value, Stamp |-> now']
      /\ \A f \in DOMAIN recent : sent'[f] = sent[f]
      /\ sent' \in [DOMAIN sent' -> [Value : Nat, Stamp : Nat]]
  <2>1. LoopCounter \notin DOMAIN recent
    BY <1>3, <1>4
  <2>2. /\ sent' = [f \in DOMAIN sent' |-> sent'[f]]
        /\ DOMAIN sent' = DOMAIN recent \cup {LoopCounter}
        /\ sent'[LoopCounter] = [Value |-> value, Stamp |-> now']
        /\ \A f \in DOMAIN recent : sent'[f] = recent[f]
    BY <1>1, <1>2, <2>1 DEF AddSample
  <2>3. \A f \in DOMAIN sent' : sent'[f] \in [Value : Nat, Stamp : Nat]
    BY <1>1, <1>3, <1>5, <2>2
  <2> QED BY <1>3, <2>2, <2>3
<1>8. /\ \A f \in DOMAIN sent : sent[f].Stamp \in Nat
      /\ \A f \in DOMAIN Samples : Samples[f].Stamp \in Nat
  BY <1>1, <1>4
<1>9. ListsOK'
  <2>1. DOMAIN Samples' \subseteq 1..LoopCounter /\ DOMAIN sent' \subseteq 1..LoopCounter
    BY <1>1, <1>3, <1>4, <1>6, <1>7
  <2> QED BY <1>2, <1>6, <1>7, <2>1 DEF SamplerInv, ListsOK, IsSampleList
<1>10. SentOnce'
  BY <1>2 DEF SentOnce
<1>11. SentIsRecent'
  <2>1. \A f \in DOMAIN sent' : f = LoopCounter \/ (f \in DOMAIN recent /\ f \in DOMAIN sent)
    BY <1>3, <1>7
  <2>2. sent'[LoopCounter].Stamp = now'
    BY <1>7
  <2>3. \A f \in DOMAIN recent : /\ f \in DOMAIN sent /\ sent'[f] = sent[f]
                                  /\ sent[f].Stamp <= now
                                  /\ sent[f].Stamp + HistoryDuration >= now'
    BY <1>3, <1>7 DEF SamplerInv, SentIsRecent
  <2> QED BY <1>1, <1>2, <1>5, <1>8, <2>1, <2>2, <2>3 DEF SentIsRecent
<1>12. ListInv'
  <2> SUFFICES ASSUME now' < UIntRange PROVE (StampsInOrder /\ RecentIsSent /\ SentIsKept)'
    BY DEF ListInv
  <2>1. StampsInOrder /\ RecentIsSent /\ SentIsKept /\ now <= now'
    BY <1>1, <1>2 DEF SamplerInv, ListInv
  <2>2. Samples'[LoopCounter] = sent'[LoopCounter] /\ Samples'[LoopCounter].Stamp = now'
    BY <1>5, <1>6, <1>7
  <2>3. \A f \in DOMAIN Samples' :
          f = LoopCounter \/ (f \in DOMAIN Samples /\ f \in 1..LoopCounter /\ f # LoopCounter)
    BY <1>4, <1>6
  <2>4. \A f \in DOMAIN Samples : Samples'[f].Stamp \in Nat /\ Samples'[f].Stamp <= now'
    <3>1. \A f \in DOMAIN Samples : Samples[f].Stamp <= now
      BY <2>1 DEF StampsInOrder
    <3> QED BY <1>1, <1>2, <1>6, <1>8, <3>1
  <2>5. StampsInOrder'
    <3> SUFFICES ASSUME NEW f \in DOMAIN Samples'
                 PROVE  /\ Samples'[f].Stamp <= now'
                        /\ \A g \in DOMAIN Samples' : f <= g => Samples'[f].Stamp <= Samples'[g].Stamp
      BY DEF StampsInOrder
    <3>1. CASE f = LoopCounter
      BY <1>1, <1>5, <2>2, <2>3, <3>1
    <3>2. CASE f # LoopCounter
      <4>1. f \in DOMAIN Samples
        BY <2>3, <3>2
      <4>2. \A g \in DOMAIN Samples : f <= g => Samples'[f].Stamp <= Samples'[g].Stamp
        BY <1>6, <2>1, <4>1 DEF StampsInOrder
      <4> QED BY <2>2, <2>3, <2>4, <4>1, <4>2
    <3> QED BY <3>1, <3>2
  <2>6. RecentIsSent'
    <3>1. \A f \in DOMAIN Samples : Samples[f].Stamp + HistoryDuration >= now' =>
            f \in DOMAIN recent /\ sent[f] = Samples[f]
      BY <1>1, <1>2, <1>3, <1>8, <2>1 DEF RecentIsSent
    <3> QED BY <1>6, <1>7, <2>2, <2>3, <3>1 DEF RecentIsSent
  <2>7. SentIsKept'
    <3>1. \A f \in DOMAIN recent : sent[f].Stamp >= HistoryDuration =>
            f \in DOMAIN Samples /\ Samples[f] = sent[f]
      BY <1>3, <2>1 DEF SentIsKept
    <3> QED BY <1>6, <1>7, <2>2, <3>1 DEF SentIsKept
  <2> QED BY <2>5, <2>6, <2>7
<1>13. UsageIsExact' /\ NothingOldKept'
  BY <1>2 DEF UsageIsExact, NothingOldKept, Asked
<1> QED BY <1>9, <1>10, <1>11, <1>12, <1>13 DEF SamplerInv

\* The statistics ask the sampler.
LEMMA StatisticsAsk ==
  ASSUME IInv, SamplerInv, Statistics
  PROVE  SamplerInv'
<1> DEFINE limit == StampLimit(now)
           asks  == (ForScreen \/ ForFrontEnd) /\ ~StatisticsFail
<1>1. /\ now \in Nat /\ LoopCounter \in Nat \ {0}
      /\ HistoryDuration \in Nat /\ UIntRange \in Nat
  BY TimingAssumption DEF IInv, NumbersOK
<1>2. /\ pc' = (IF StatisticsFail THEN "crashed" ELSE "limit")
      /\ UNCHANGED <<now, sent, LoopCounter, ShowStatistics>>
      /\ asks => usage' = CountedSamples(Samples, limit) /\ Samples' = KeptSamples(Samples, limit)
      /\ ~asks => usage' = usage /\ Samples' = Samples
  BY DEF Statistics, settingVars, limiterVars
<1>3. Asked' => asks
  BY <1>2 DEF Asked, ForScreen, ForFrontEnd
<1> HIDE DEF asks
<1>4. CASE ~asks
  <2>1. UNCHANGED <<usage, Samples>>
    BY <1>2, <1>4
  <2>2. ListsOK' /\ SentIsRecent' /\ ListInv'
    BY <1>2, <2>1 DEF SamplerInv, ListsOK, IsSampleList, SentIsRecent, ListInv,
                     StampsInOrder, RecentIsSent, SentIsKept
  <2>3. SentOnce'
    BY <1>2 DEF SentOnce
  <2>4. UsageIsExact' /\ NothingOldKept'
    BY <1>3, <1>4 DEF UsageIsExact, NothingOldKept
  <2> QED BY <2>2, <2>3, <2>4 DEF SamplerInv
<1>5. CASE asks
  <2>1. usage' = CountedSamples(Samples, limit) /\ Samples' = KeptSamples(Samples, limit)
    BY <1>2, <1>5
  <2> HIDE DEF limit
  <2>3. /\ DOMAIN Samples \subseteq 1..LoopCounter
        /\ Samples \in [DOMAIN Samples -> [Value : Nat, Stamp : 0..(UIntRange - 1)]]
    BY DEF SamplerInv, ListsOK, IsSampleList
  <2>2. /\ DOMAIN usage' = {f \in DOMAIN Samples :
                              \A g \in DOMAIN Samples : g >= f => Samples[g].Stamp >= limit}
        /\ \A f \in DOMAIN usage' : usage'[f] = Samples[f]
        /\ DOMAIN Samples' = {f \in DOMAIN Samples :
                                f \in DOMAIN usage' \/ Samples[f].Stamp >= limit}
        /\ \A f \in DOMAIN Samples' : Samples'[f] = Samples[f]
        /\ usage' \in [DOMAIN usage' -> [Value : Nat, Stamp : 0..(UIntRange - 1)]]
        /\ Samples' \in [DOMAIN Samples' -> [Value : Nat, Stamp : 0..(UIntRange - 1)]]
    <3>1. /\ DOMAIN CountedSamples(Samples, limit) =
               {f \in DOMAIN Samples :
                  \A g \in DOMAIN Samples : g >= f => Samples[g].Stamp >= limit}
          /\ \A f \in DOMAIN CountedSamples(Samples, limit) :
               CountedSamples(Samples, limit)[f] = Samples[f]
          /\ DOMAIN KeptSamples(Samples, limit) =
               {f \in DOMAIN Samples :
                  f \in DOMAIN CountedSamples(Samples, limit) \/ Samples[f].Stamp >= limit}
          /\ \A f \in DOMAIN KeptSamples(Samples, limit) :
               KeptSamples(Samples, limit)[f] = Samples[f]
          /\ CountedSamples(Samples, limit) =
               [f \in DOMAIN CountedSamples(Samples, limit) |-> Samples[f]]
          /\ KeptSamples(Samples, limit) =
               [f \in DOMAIN KeptSamples(Samples, limit) |-> Samples[f]]
      BY SamplerFacts
    <3>2. DOMAIN usage' \subseteq DOMAIN Samples /\ DOMAIN Samples' \subseteq DOMAIN Samples
      BY <2>1, <3>1
    <3> QED BY <2>1, <2>3, <3>1, <3>2
  <2>4. ListsOK'
    <3>1. DOMAIN usage' \subseteq 1..LoopCounter /\ DOMAIN Samples' \subseteq 1..LoopCounter
      BY <2>2, <2>3
    <3>2. /\ usage' \in [DOMAIN usage' -> [Value : Nat, Stamp : 0..(UIntRange - 1)]]
          /\ Samples' \in [DOMAIN Samples' -> [Value : Nat, Stamp : 0..(UIntRange - 1)]]
      BY <2>2, <2>3
    <3> QED BY <1>2, <3>1, <3>2 DEF SamplerInv, ListsOK, IsSampleList
  <2>5. SentOnce'
    BY <1>2 DEF SentOnce
  <2>6. SentIsRecent'
    BY <1>2 DEF SamplerInv, SentIsRecent
  <2>7. ASSUME now < UIntRange
        PROVE  /\ StampsInOrder' /\ RecentIsSent' /\ SentIsKept'
               /\ \A f \in DOMAIN usage' : f \in DOMAIN sent /\ usage'[f] = sent[f]
               /\ now >= 2 * HistoryDuration => usage' = sent
               /\ \A f \in DOMAIN Samples' : Samples'[f].Stamp + HistoryDuration >= now
    <3>1. StampsInOrder /\ RecentIsSent /\ SentIsKept
      BY <2>7 DEF SamplerInv, ListInv
    <3>2. /\ limit \in Nat /\ (now >= HistoryDuration => limit = now - HistoryDuration)
          /\ (now < HistoryDuration => limit > now)
      BY <1>1, <2>7, StampLimitIs DEF limit
    <3>3. \A f \in DOMAIN Samples : f \in Nat /\ Samples[f].Stamp \in Nat
      BY <1>1, <2>3
    <3>4. \A f \in DOMAIN Samples' : f \in DOMAIN Samples /\ Samples[f].Stamp >= limit
      BY <2>2, <3>3
    <3>5. \A f \in DOMAIN Samples : Samples[f].Stamp <= now
      BY <3>1 DEF StampsInOrder
    <3>6. \A f \in DOMAIN usage' : f \in DOMAIN Samples /\ Samples[f].Stamp >= limit
      BY <2>2, <3>3
    <3>7. \A f \in DOMAIN Samples : Samples[f].Stamp >= limit =>
            now >= HistoryDuration /\ Samples[f].Stamp + HistoryDuration >= now
      BY <1>1, <3>2, <3>3, <3>5
    <3>8. StampsInOrder'
      BY <1>2, <2>2, <3>1, <3>4 DEF StampsInOrder
    <3>9. RecentIsSent'
      BY <1>2, <2>2, <3>1, <3>4 DEF RecentIsSent
    <3>10. SentIsKept'
      <4> SUFFICES ASSUME NEW f \in DOMAIN sent, sent[f].Stamp >= HistoryDuration
                   PROVE  f \in DOMAIN Samples' /\ Samples'[f] = sent[f]
        BY <1>2 DEF SentIsKept
      <4>1. f \in DOMAIN Samples /\ Samples[f] = sent[f]
        BY <3>1 DEF SentIsKept
      <4>2. sent[f].Stamp <= now /\ sent[f].Stamp + HistoryDuration >= now
        BY DEF SamplerInv, SentIsRecent
      <4>3. Samples[f].Stamp >= limit
        BY <1>1, <3>2, <3>3, <4>1, <4>2
      <4> QED BY <2>2, <4>1, <4>3
    <3>11. \A f \in DOMAIN usage' : f \in DOMAIN sent /\ usage'[f] = sent[f]
      BY <2>2, <3>1, <3>6, <3>7 DEF RecentIsSent
    <3>12. ASSUME now >= 2 * HistoryDuration PROVE usage' = sent
      <4>1. \A f \in DOMAIN sent : f \in DOMAIN usage'
        <5> SUFFICES ASSUME NEW f \in DOMAIN sent PROVE f \in DOMAIN usage'
          OBVIOUS
        <5>1. sent[f].Stamp \in Nat /\ sent[f].Stamp + HistoryDuration >= now
          BY DEF SamplerInv, ListsOK, SentIsRecent
        <5>2. f \in DOMAIN Samples /\ Samples[f] = sent[f]
          BY <1>1, <3>1, <3>12, <5>1 DEF SentIsKept
        <5>3. Samples[f].Stamp >= limit
          BY <1>1, <3>2, <3>12, <5>1, <5>2
        <5>4. \A g \in DOMAIN Samples : g >= f => Samples[g].Stamp >= Samples[f].Stamp
          BY <3>1, <3>3, <5>2 DEF StampsInOrder
        <5>5. \A g \in DOMAIN Samples : g >= f => Samples[g].Stamp >= limit
          BY <3>2, <3>3, <5>2, <5>3, <5>4
        <5> QED BY <2>2, <5>2, <5>5
      <4>2. DOMAIN usage' = DOMAIN sent
        BY <3>11, <4>1
      <4>3. /\ usage' \in [DOMAIN usage' -> [Value : Nat, Stamp : 0..(UIntRange - 1)]]
            /\ sent \in [DOMAIN sent -> [Value : Nat, Stamp : Nat]]
        BY <2>2, <2>3 DEF SamplerInv, ListsOK
      <4> QED BY <3>11, <4>2, <4>3
    <3>13. \A f \in DOMAIN Samples' : Samples'[f].Stamp + HistoryDuration >= now
      BY <2>2, <3>4, <3>7
    <3> QED BY <3>8, <3>9, <3>10, <3>11, <3>12, <3>13
  <2>8. ListInv'
    BY <1>2, <2>7 DEF ListInv
  <2>9. UsageIsExact' /\ NothingOldKept'
    BY <1>2, <2>7 DEF UsageIsExact, NothingOldKept
  <2> QED BY <2>4, <2>5, <2>6, <2>8, <2>9 DEF SamplerInv
<1> QED BY <1>4, <1>5

\* The sampler stays right over every step.
LEMMA NextSamplerInv == IInv /\ SamplerInv /\ [Next]_vars => SamplerInv'
<1> SUFFICES ASSUME IInv, SamplerInv, [Next]_vars PROVE SamplerInv'
  OBVIOUS
<1>1. now \in Nat /\ LoopCounter \in Nat
  BY DEF IInv, NumbersOK
<1>2. sent = Recent(now, sent)
  BY NothingPasses DEF SamplerInv
<1>3. CASE Idle
  <2>1. /\ pc = "loop" /\ pc' = "loop" /\ now' = now + 1 /\ sent' = Recent(now', sent)
        /\ UNCHANGED <<Samples, usage, LoopCounter>>
    BY <1>3 DEF Idle, PassTo, limiterVars
  <2> QED BY <1>1, <2>1, TimePasses
<1>4. ASSUME NEW work \in Works, CaptureFrame(work) PROVE SamplerInv'
  <2>1. /\ pc = "loop" /\ pc' = "send" /\ now' = now + work /\ sent' = Recent(now', sent)
        /\ UNCHANGED <<Samples, usage, LoopCounter>>
    BY <1>4 DEF CaptureFrame, PassTo, limiterVars
  <2>2. work \in Nat
    BY TimingAssumption
  <2> QED BY <1>1, <2>1, <2>2, TimePasses
<1>5. CASE AbandonFrame
  <2>1. /\ pc = "send" /\ pc' = "loop"
        /\ UNCHANGED <<now, sent, Samples, usage, LoopCounter>>
    BY <1>5 DEF AbandonFrame, limiterVars, usageVars
  <2> QED BY <1>1, <1>2, <2>1, TimePasses
<1>6. ASSUME NEW size \in PacketSizes, NEW n \in 1..MaxClients, NEW time \in Sends,
             SendFrame(size, n, time)
      PROVE  SamplerInv'
  BY <1>6, SendAddsSample
<1>7. CASE Statistics
  BY <1>7, StatisticsAsk
<1>8. CASE LimitRate
  <2>1. UNCHANGED <<Samples, usage>>
    BY <1>8 DEF LimitRate
  <2>2. CASE LimiterFails
    <3>1. pc' = "crashed" /\ UNCHANGED <<now, sent, LoopCounter>>
      BY <1>8, <2>2 DEF LimitRate
    <3> QED BY <1>1, <1>2, <2>1, <3>1, TimePasses
  <2>3. CASE ~LimiterFails
    <3>1. pc' = "loop" /\ LoopCounter' = LoopCounter + 1
      BY <1>8, <2>3 DEF LimitRate
    <3>2. sent' = Recent(now', sent)
      <4>1. \/ UNCHANGED <<now, sent>>
            \/ \E late \in Lates : PassTo(now + ShouldSleep + SleepAdjustment' + late)
        BY <1>8, <2>3 DEF LimitRate
      <4> QED BY <1>2, <4>1 DEF PassTo
    <3>3. now' \in Nat /\ now <= now'
      BY <1>8, LimiterTakesTime
    <3> QED BY <2>1, <3>1, <3>2, <3>3, TimePasses
  <2> QED BY <2>2, <2>3
<1>9. CASE ClientsChange \/ UNCHANGED vars
  <2>1. UNCHANGED <<now, pc, LoopCounter, ShowStatistics, Samples, usage, sent>>
    BY <1>9 DEF ClientsChange, vars, settingVars, limiterVars, usageVars
  <2>2. ListsOK' /\ SentOnce' /\ SentIsRecent'
    BY <2>1 DEF SamplerInv, ListsOK, IsSampleList, SentOnce, SentIsRecent
  <2>3. ListInv'
    BY <2>1 DEF SamplerInv, ListInv, StampsInOrder, RecentIsSent, SentIsKept
  <2>4. UsageIsExact' /\ NothingOldKept'
    BY <2>1 DEF SamplerInv, UsageIsExact, NothingOldKept, Asked, ForScreen, ForFrontEnd
  <2> QED BY <2>2, <2>3, <2>4 DEF SamplerInv
<1> QED BY <1>3, <1>4, <1>5, <1>6, <1>7, <1>8, <1>9 DEF Next

\* ... and starts with empty lists.
LEMMA InitSamplerInv == Init => SamplerInv
<1> SUFFICES ASSUME Init PROVE SamplerInv
  OBVIOUS
<1>1. DOMAIN Samples = {} /\ DOMAIN usage = {} /\ DOMAIN sent = {} /\ pc = "loop"
  BY DEF Init
<1>2. ListsOK
  BY <1>1 DEF Init, ListsOK, IsSampleList
<1> QED BY <1>1, <1>2 DEF SamplerInv, SentOnce, SentIsRecent, ListInv, StampsInOrder,
                         RecentIsSent, SentIsKept, UsageIsExact, NothingOldKept, Asked

-----------------------------------------------------------------------------
(* The theorems                                                            *)

\* The invariant of the limiter holds in every state.
LEMMA TimingIInv == Spec => []IInv
BY InitIInv, NextIInv, PTL DEF Spec

\* The limiter (DataProcessing.cpp 354 to 372) never lets more frames through than
\* the limit allows for the time since the loop began, but for those of one recovery.
THEOREM TimingRateIsLimited == Spec => []RateIsLimited
BY TimingIInv, IInvRateIsLimited, PTL

\* The statistics and the limiter (DataProcessing.cpp 338, 351, 354 and 359) divide by
\* zero only without a limit, for frames of less than a tick, or if GetTickCount() may
\* stand still for a whole budget.
THEOREM TimingDividesByZeroOnlyIfFast == Spec => []DividesByZeroOnlyIfFast
<1>1. DivisionInv => DividesByZeroOnlyIfFast
  BY DEF DivisionInv
<1>2. Spec => []DivisionInv
  BY InitDivisionInv, NextDivisionInv, TimingIInv, PTL DEF Spec
<1> QED BY <1>1, <1>2, PTL
\* The place of the thread, and the clients.
PlaceOK ==
  /\ clients \in 0..MaxClients
  /\ pc \in {"loop", "send", "stats", "limit", "crashed"}

\* Every step keeps the place.
LEMMA NextPlaceOK == PlaceOK /\ [Next]_vars => PlaceOK'
BY DEF PlaceOK, Next, Idle, CaptureFrame, AbandonFrame, SendFrame, Statistics, LimitRate,
       ClientsChange, vars

\* What the sampler keeps right holds in every state.
LEMMA TimingSamplerInv == Spec => []SamplerInv
BY InitSamplerInv, NextSamplerInv, TimingIInv, PTL DEF Spec

\* Every variable of the capture loop's clocks, limiter and sampler keeps its type,
\* for all settings and however long it runs.
THEOREM TimingTypeOK == Spec => []TypeOK
<1>1. Init => PlaceOK
  BY TimingAssumption DEF Init, PlaceOK
<1>2. IInv /\ DivisionInv /\ SamplerInv /\ PlaceOK => TypeOK
  BY DEF IInv, NumbersOK, DivisionInv, SpentInv, SamplerInv, ListsOK, PlaceOK, TypeOK
<1>3. Spec => []DivisionInv
  BY InitDivisionInv, NextDivisionInv, TimingIInv, PTL DEF Spec
<1>4. Spec => []PlaceOK
  BY <1>1, NextPlaceOK, PTL DEF Spec
<1> QED BY <1>2, <1>3, <1>4, TimingIInv, TimingSamplerInv, PTL

\* The network usage that is shown (Tools.cpp 163 to 198) counts nothing but what was
\* sent in the last HistoryDuration, and all of it from twice that time on.
THEOREM TimingUsageIsExact == Spec => []UsageIsExact
<1>1. SamplerInv => UsageIsExact
  BY DEF SamplerInv
<1> QED BY <1>1, TimingSamplerInv, PTL

\* The sampler (Tools.cpp 183 to 194) keeps no sample that was too old when it was
\* asked.
THEOREM TimingNothingOldKept == Spec => []NothingOldKept
<1>1. SamplerInv => NothingOldKept
  BY DEF SamplerInv
<1> QED BY <1>1, TimingSamplerInv, PTL
=============================================================================
