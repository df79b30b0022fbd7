------------------------- MODULE ServerNetworkProofs --------------------------
(***************************************************************************)
(* Every client gets the packets in order and misses none but those the    *)
(* failure of another one costs it, for any number of clients and packets: *)
(* PacketsInOrder, NoOtherLoss and LossBoundedByFailures.                  *)
(*                                                                         *)
(* The first two follow from what a walk in progress still has to do: the  *)
(* sessions from iter on, which are different clients, do not have the     *)
(* packet yet, and everybody else has all that is due.  For the third the  *)
(* clients that failed pay: every failure erases one and costs whoever is  *)
(* behind it one packet.                                                   *)
(***************************************************************************)
EXTENDS ServerNetwork, SequenceTheorems, FiniteSetTheorems, TLAPS

\* The types the invariant needs.
TypesOK ==
  /\ sessions \in Seq(Clients) /\ inserting \subseteq Clients
  /\ peer \in [Clients -> {"away", "waiting", "served", "gone"}]
  /\ packet \in Nat /\ iter \in 0..Len(sessions)
  /\ got \in [Clients -> Seq(Nat)]
  /\ due \in [Clients -> SUBSET Nat] /\ missed \in [Clients -> SUBSET Nat]

\* Every session is a client of its own that was accepted.
TableInv ==
  /\ \A i \in 1..Len(sessions) : peer[sessions[i]] \in {"served", "gone"}
  /\ \A i, j \in 1..Len(sessions) : sessions[i] = sessions[j] => i = j
  /\ \A c \in inserting : peer[c] = "waiting"
  /\ \A c \in Clients : peer[c] \in {"away", "waiting"} => got[c] = <<>> /\ due[c] = {}

\* The walk still has to serve the client.
Pending(c) == iter > 0 /\ \E i \in iter..Len(sessions) : sessions[i] = c

\* Packets are in order, and the one that is being sent is not there before its turn.
InOrder(c) ==
  /\ \A i \in 1..Len(got[c]) : got[c][i] <= packet /\ (Pending(c) => got[c][i] < packet)
  /\ \A i, j \in 1..Len(got[c]) : i < j => got[c][i] < got[c][j]

OrderInv == \A c \in Clients : InOrder(c)

\* A client that is served has what is due, but for the packet it is waiting for.
LossInv ==
  \A c \in Clients : peer[c] = "served" =>
    \A p \in due[c] : \/ p \in ToSet(got[c]) \/ p \in missed[c]
                      \/ (Pending(c) /\ p = packet)

IInv == ~raced => TypesOK /\ TableInv /\ OrderInv /\ LossInv

\* The clients a failing send has erased.
Erased == {d \in Clients : peer[d] = "gone" /\ \A i \in 1..Len(sessions) : sessions[i] # d}

\* Each of them cost a client one packet at most, and one that is not served nothing.
CostInv ==
  ~raced => \A c \in Clients :
    /\ peer[c] = "served" => IsFiniteSet(missed[c]) /\ Cardinality(missed[c]) <= Cardinality(Erased)
    /\ peer[c] \in {"away", "waiting"} => missed[c] = {}

-----------------------------------------------------------------------------
(* Sequences                                                               *)

\* What is left when an element is removed.
LEMMA RemoveAtFacts ==
  ASSUME NEW S, NEW s \in Seq(S), NEW i \in 1..Len(s)
  PROVE  /\ RemoveAt(s, i) \in Seq(S)
         /\ Len(RemoveAt(s, i)) = Len(s) - 1
         /\ \A j \in 1..(Len(s) - 1) :
              RemoveAt(s, i)[j] = IF j < i THEN s[j] ELSE s[j + 1]
<1> DEFINE left  == SubSeq(s, 1, i - 1)
           right == SubSeq(s, i + 1, Len(s))
<1>1. RemoveAt(s, i) = left \o right
  BY DEF RemoveAt
<1>2. /\ left \in Seq(S) /\ Len(left) = i - 1
      /\ \A j \in 1..(i - 1) : left[j] = s[j]
  OBVIOUS
<1>3. /\ right \in Seq(S) /\ Len(right) = Len(s) - i
      /\ \A j \in 1..(Len(s) - i) : right[j] = s[i + j]
  OBVIOUS
<1> HIDE DEF left, right
<1>4. /\ left \o right \in Seq(S) /\ Len(left \o right) = Len(left) + Len(right)
      /\ \A j \in 1..(Len(left) + Len(right)) :
           (left \o right)[j] = IF j <= Len(left) THEN left[j] ELSE right[j - Len(left)]
  BY <1>2, <1>3, ConcatProperties
<1> QED BY <1>1, <1>2, <1>3, <1>4

\* What is in a sequence that was appended to.
LEMMA AppendFacts ==
  ASSUME NEW S, NEW s \in Seq(S), NEW e \in S
  PROVE  /\ Append(s, e) \in Seq(S) /\ Len(Append(s, e)) = Len(s) + 1
         /\ \A j \in 1..Len(s) : Append(s, e)[j] = s[j]
         /\ Append(s, e)[Len(s) + 1] = e
         /\ ToSet(Append(s, e)) = ToSet(s) \cup {e}
<1>1. /\ Append(s, e) \in Seq(S) /\ Len(Append(s, e)) = Len(s) + 1
      /\ \A j \in 1..Len(s) : Append(s, e)[j] = s[j]
      /\ Append(s, e)[Len(s) + 1] = e
  OBVIOUS
<1>2. DOMAIN s = 1..Len(s) /\ DOMAIN Append(s, e) = 1..(Len(s) + 1) /\ Len(s) \in Nat
  OBVIOUS
<1>3. ToSet(Append(s, e)) = ToSet(s) \cup {e}
  BY <1>1, <1>2 DEF ToSet
<1> QED BY <1>1, <1>3

-----------------------------------------------------------------------------
(* The steps                                                               *)

\* Clients come and go.
LEMMA ClientStep ==
  ASSUME IInv, NEW c \in Clients, Arrive(c) \/ Leave(c)
  PROVE  IInv'
<1> SUFFICES ASSUME ~raced, UNCHANGED raced
             PROVE  TypesOK' /\ TableInv' /\ OrderInv' /\ LossInv'
  BY DEF IInv, Arrive, Leave
<1>1. UNCHANGED <<sessions, inserting, packet, iter, got, due, missed>>
  BY DEF Arrive, Leave, tableVars, sendVars, histVars
<1>2. TypesOK /\ TableInv /\ OrderInv /\ LossInv
  BY DEF IInv
<1>3. \/ peer[c] = "away" /\ peer' = [peer EXCEPT ![c] = "waiting"]
      \/ peer[c] = "served" /\ peer' = [peer EXCEPT ![c] = "gone"]
  BY DEF Arrive, Leave
<1>4. TypesOK'
  BY <1>1, <1>2, <1>3 DEF TypesOK
<1>5. TableInv'
  <2>1. \A d \in Clients : \/ peer'[d] = peer[d]
                           \/ peer[d] = "away" /\ peer'[d] = "waiting"
                           \/ peer[d] = "served" /\ peer'[d] = "gone"
    BY <1>2, <1>3 DEF TypesOK
  <2>2. \A i \in 1..Len(sessions) : sessions[i] \in Clients
    BY <1>2, ElementOfSeq DEF TypesOK
  <2>3. \A i \in 1..Len(sessions) : peer'[sessions[i]] \in {"served", "gone"}
    BY <1>2, <2>1, <2>2 DEF TableInv
  <2>4. \A d \in inserting : peer'[d] = "waiting"
    BY <1>2, <2>1 DEF TypesOK, TableInv
  <2>5. \A d \in Clients : peer'[d] \in {"away", "waiting"} => got[d] = <<>> /\ due[d] = {}
    BY <1>2, <2>1 DEF TableInv
  <2> QED BY <1>1, <1>2, <2>3, <2>4, <2>5 DEF TableInv
<1>6. OrderInv'
  BY <1>1, <1>2 DEF OrderInv, InOrder, Pending
<1>7. LossInv'
  <2>1. \A d \in Clients : peer'[d] = "served" => peer[d] = "served"
    BY <1>2, <1>3 DEF TypesOK
  <2> QED BY <1>1, <1>2, <2>1 DEF LossInv, Pending
<1> QED BY <1>4, <1>5, <1>6, <1>7

\* A client begins to be inserted.
LEMMA AcceptStep ==
  ASSUME IInv, NEW c \in Clients, AcceptNewClient(c)
  PROVE  IInv'
<1>1. /\ ~raced /\ UNCHANGED <<sessions, peer, packet, iter, got, due, missed>>
      /\ inserting' = {c} /\ peer[c] = "waiting"
  BY DEF AcceptNewClient, sendVars, histVars
<1>2. TypesOK /\ TableInv /\ OrderInv /\ LossInv
  BY <1>1 DEF IInv
<1>3. TypesOK' /\ TableInv'
  BY <1>1, <1>2 DEF TypesOK, TableInv
<1>4. OrderInv'
  BY <1>1, <1>2 DEF OrderInv, InOrder, Pending
<1>5. LossInv'
  BY <1>1, <1>2 DEF LossInv, Pending
<1> QED BY <1>3, <1>4, <1>5 DEF IInv

\* The new session is the last one: a walk in progress will come to it.
LEMMA InsertStep ==
  ASSUME IInv, NEW c \in Clients, Insert(c)
  PROVE  IInv'
<1>1. /\ ~raced /\ UNCHANGED <<packet, iter, got, due, missed>>
      /\ c \in inserting /\ inserting' = {}
      /\ sessions' = Append(sessions, c) /\ peer' = [peer EXCEPT ![c] = "served"]
  BY DEF Insert, sendVars, histVars
<1>2. TypesOK /\ TableInv /\ OrderInv /\ LossInv
  BY <1>1 DEF IInv
<1>3. peer[c] = "waiting" /\ got[c] = <<>> /\ due[c] = {}
  BY <1>1, <1>2 DEF TableInv
<1>4. /\ sessions' \in Seq(Clients) /\ Len(sessions') = Len(sessions) + 1
      /\ \A j \in 1..Len(sessions) : sessions'[j] = sessions[j]
      /\ sessions'[Len(sessions) + 1] = c /\ Len(sessions) \in Nat
  BY <1>1, <1>2, AppendFacts DEF TypesOK
<1>5. TypesOK'
  BY <1>1, <1>2, <1>4 DEF TypesOK
<1>6. \A i \in 1..Len(sessions) : sessions[i] # c
  BY <1>2, <1>3 DEF TableInv
<1>7. TableInv'
  <2>1. \A d \in Clients : peer'[d] = IF d = c THEN "served" ELSE peer[d]
    BY <1>1, <1>2 DEF TypesOK
  <2>2. \A i \in 1..Len(sessions') : peer'[sessions'[i]] \in {"served", "gone"}
    <3> SUFFICES ASSUME NEW i \in 1..Len(sessions')
                 PROVE  peer'[sessions'[i]] \in {"served", "gone"}
      OBVIOUS
    <3>1. CASE i = Len(sessions) + 1
      BY <1>4, <2>1, <3>1
    <3>2. CASE i \in 1..Len(sessions)
      <4>1. sessions'[i] = sessions[i]
        BY <1>4, <3>2
      <4>2. sessions[i] \in Clients /\ peer[sessions[i]] \in {"served", "gone"}
        BY <1>2, <3>2, ElementOfSeq DEF TableInv, TypesOK
      <4> QED BY <2>1, <4>1, <4>2
    <3> QED BY <1>4, <3>1, <3>2
  <2>3. \A i, j \in 1..Len(sessions') : sessions'[i] = sessions'[j] => i = j
    <3> SUFFICES ASSUME NEW i \in 1..Len(sessions'), NEW j \in 1..Len(sessions'),
                        sessions'[i] = sessions'[j]
                 PROVE  i = j
      OBVIOUS
    <3>1. i \in 1..Len(sessions) \/ i = Len(sessions) + 1
      BY <1>4
    <3>2. j \in 1..Len(sessions) \/ j = Len(sessions) + 1
      BY <1>4
    <3> QED BY <1>2, <1>4, <1>6, <3>1, <3>2 DEF TableInv
  <2>4. \A d \in Clients : peer'[d] \in {"away", "waiting"} =>
          got'[d] = <<>> /\ due'[d] = {}
    BY <1>1, <1>2, <2>1 DEF TableInv
  <2> QED BY <1>1, <2>2, <2>3, <2>4 DEF TableInv
<1>8. \A d \in Clients : d # c => (Pending(d)' <=> Pending(d))
  <2> SUFFICES ASSUME NEW d \in Clients, d # c PROVE Pending(d)' <=> Pending(d)
    OBVIOUS
  <2>1. iter \in 0..Len(sessions)
    BY <1>2 DEF TypesOK
  <2>2. \A i \in 1..Len(sessions') : sessions'[i] = d => i \in 1..Len(sessions)
    BY <1>4
  <2> QED BY <1>1, <1>4, <2>1, <2>2 DEF Pending
<1>9. OrderInv'
  <2>1. Len(got[c]) = 0
    BY <1>3
  <2> QED BY <1>1, <1>2, <1>8, <2>1 DEF OrderInv, InOrder
<1>10. LossInv'
  <2>1. \A d \in Clients : d # c => peer'[d] = peer[d]
    BY <1>1, <1>2 DEF TypesOK
  <2> QED BY <1>1, <1>2, <1>3, <1>8, <2>1 DEF LossInv
<1> QED BY <1>5, <1>7, <1>9, <1>10 DEF IInv

\* Nobody is served any more.
LEMMA CloseStep ==
  ASSUME IInv, CloseConnections
  PROVE  IInv'
<1>1. /\ ~raced /\ UNCHANGED <<inserting, packet, got, due, missed>>
      /\ inserting = {} /\ sessions' = <<>> /\ iter' = 0
      /\ peer' = [c \in Clients |-> IF peer[c] = "away" THEN "away" ELSE "gone"]
  BY DEF CloseConnections, histVars
<1>2. TypesOK /\ TableInv /\ OrderInv
  BY <1>1 DEF IInv
<1>3. Len(sessions') = 0 /\ sessions' \in Seq(Clients)
  BY <1>1
<1>4. TypesOK'
  BY <1>1, <1>2, <1>3 DEF TypesOK
<1>5. TableInv'
  BY <1>1, <1>2, <1>3 DEF TableInv
<1>6. \A c \in Clients : ~Pending(c)'
  BY <1>1 DEF Pending
<1>7. OrderInv'
  BY <1>1, <1>2, <1>6 DEF OrderInv, InOrder
<1>8. LossInv'
  BY <1>1 DEF LossInv
<1> QED BY <1>4, <1>5, <1>7, <1>8 DEF IInv

\* Everybody in the table waits for the new packet.
LEMMA BeginStep ==
  ASSUME IInv, BeginSend
  PROVE  IInv'
<1> SUFFICES ASSUME ~raced' PROVE TypesOK' /\ TableInv' /\ OrderInv' /\ LossInv'
  BY DEF IInv
<1>1. /\ ~raced /\ iter = 0 /\ iter' = 1 /\ sessions # <<>> /\ packet' = packet + 1
      /\ due' = [c \in Clients |-> IF c \in ToSet(sessions) THEN due[c] \cup {packet'}
                                   ELSE due[c]]
      /\ UNCHANGED <<sessions, inserting, peer, got, missed>>
  BY DEF BeginSend, MoveTo, tableVars, histVars
<1>2. TypesOK /\ TableInv /\ OrderInv /\ LossInv
  BY <1>1 DEF IInv
<1>3. Len(sessions) \in Nat \ {0} /\ DOMAIN sessions = 1..Len(sessions)
  BY <1>1, <1>2, EmptySeq, LenProperties DEF TypesOK
<1>4. \A c \in Clients : Pending(c)' <=> c \in ToSet(sessions)
  BY <1>1, <1>3 DEF Pending, ToSet
<1>5. \A c \in Clients : ~Pending(c)
  BY <1>1 DEF Pending
<1>6. TypesOK'
  <2>1. packet \in Nat /\ due \in [Clients -> SUBSET Nat]
    BY <1>2 DEF TypesOK
  <2>2. due' \in [Clients -> SUBSET Nat]
    BY <1>1, <2>1
  <2> QED BY <1>1, <1>2, <1>3, <2>1, <2>2 DEF TypesOK
<1>7. TableInv'
  <2>1. ASSUME NEW c \in Clients, peer[c] \in {"away", "waiting"}
        PROVE  due'[c] = {}
    <3>1. c \notin ToSet(sessions)
      BY <1>2, <1>3, <2>1 DEF TableInv, ToSet
    <3> QED BY <1>1, <1>2, <2>1, <3>1 DEF TableInv
  <2> QED BY <1>1, <1>2, <2>1 DEF TableInv
<1>8. OrderInv'
  <2>1. \A c \in Clients : \A i \in 1..Len(got[c]) : got[c][i] < packet + 1
    <3> SUFFICES ASSUME NEW c \in Clients, NEW i \in 1..Len(got[c])
                 PROVE  got[c][i] < packet + 1
      OBVIOUS
    <3>1. got[c] \in Seq(Nat) /\ packet \in Nat
      BY <1>2 DEF TypesOK
    <3>2. got[c][i] \in Nat
      BY <3>1, ElementOfSeq
    <3>3. got[c][i] <= packet
      BY <1>2 DEF OrderInv, InOrder
    <3> QED BY <3>1, <3>2, <3>3
  <2>2. \A c \in Clients : \A i \in 1..Len(got[c]) : got[c][i] \in Nat /\ packet \in Nat
    BY <1>2, ElementOfSeq DEF TypesOK
  <2> QED BY <1>1, <1>2, <2>1, <2>2 DEF OrderInv, InOrder
<1>9. LossInv'
  <2> SUFFICES ASSUME NEW c \in Clients, peer[c] = "served", NEW p \in due'[c]
               PROVE  p \in ToSet(got[c]) \/ p \in missed[c] \/ (Pending(c)' /\ p = packet')
    BY <1>1 DEF LossInv
  <2>1. CASE p \in due[c]
    BY <1>2, <1>5, <2>1 DEF LossInv
  <2>2. CASE p \notin due[c]
    BY <1>1, <1>4, <2>2
  <2> QED BY <2>1, <2>2
<1> QED BY <1>6, <1>7, <1>8, <1>9

\* Where the walk goes on, what was pending stays so but for the session it leaves.
LEMMA AfterFacts ==
  ASSUME TypesOK, TableInv, iter > 0, iter' = After, UNCHANGED sessions,
         NEW b \in Clients, b = sessions[iter]
  PROVE  /\ iter' \in 0..Len(sessions) /\ ~Pending(b)' /\ Pending(b)
         /\ \A c \in Clients : c # b => (Pending(c)' <=> Pending(c))
<1>1. Len(sessions) \in Nat /\ iter \in 1..Len(sessions)
  BY DEF TypesOK
<1>2. Pending(b)
  BY <1>1 DEF Pending
<1>3. CASE iter = Len(sessions)
  <2>1. iter' = 0
    BY <1>3 DEF After
  <2> QED BY <1>1, <1>2, <1>3, <2>1 DEF Pending
<1>4. CASE iter # Len(sessions)
  <2>1. iter' = iter + 1
    BY <1>4 DEF After
  <2>2. ~Pending(b)'
    BY <1>1, <2>1 DEF Pending, TableInv
  <2>3. \A i \in iter..Len(sessions) : i = iter \/ i \in iter'..Len(sessions)
    BY <1>1, <2>1
  <2> QED BY <1>1, <1>2, <1>4, <2>1, <2>2, <2>3 DEF Pending
<1> QED BY <1>3, <1>4

\* A client gets the packet, or has left and gets none.
LEMMA SendOkStep ==
  ASSUME IInv, SendOk
  PROVE  IInv'
<1> SUFFICES ASSUME ~raced' PROVE TypesOK' /\ TableInv' /\ OrderInv' /\ LossInv'
  BY DEF IInv
<1>0. sessions[iter] \in Clients
  <2>1. iter \in 1..Len(sessions) /\ sessions \in Seq(Clients)
    BY DEF SendOk, IInv, TypesOK
  <2> QED BY <2>1, ElementOfSeq
<1> PICK b \in Clients : b = sessions[iter]
  BY <1>0
<1>1. /\ ~raced /\ iter > 0 /\ iter' = After
      /\ got' = IF peer[b] = "served" THEN [got EXCEPT ![b] = Append(@, packet)] ELSE got
      /\ UNCHANGED <<sessions, inserting, peer, packet, due, missed>>
  BY DEF SendOk, MoveTo, tableVars
<1>2. TypesOK /\ TableInv /\ OrderInv /\ LossInv
  BY <1>1 DEF IInv
<1>3. /\ iter' \in 0..Len(sessions) /\ ~Pending(b)' /\ Pending(b)
      /\ \A c \in Clients : c # b => (Pending(c)' <=> Pending(c))
  BY <1>1, <1>2, AfterFacts
<1>4. /\ got \in [Clients -> Seq(Nat)] /\ packet \in Nat /\ got[b] \in Seq(Nat)
  BY <1>2, <1>3 DEF TypesOK
<1>5. /\ got' \in [Clients -> Seq(Nat)]
      /\ \A c \in Clients : c # b \/ peer[b] # "served" => got'[c] = got[c]
      /\ peer[b] = "served" => got'[b] = Append(got[b], packet)
  <2>1. Append(got[b], packet) \in Seq(Nat)
    BY <1>4, AppendFacts
  <2> QED BY <1>1, <1>4, <2>1
<1> DEFINE longer == Append(got[b], packet)
<1>10. /\ Len(longer) = Len(got[b]) + 1 /\ Len(got[b]) \in Nat
       /\ \A i \in 1..Len(got[b]) : longer[i] = got[b][i]
       /\ longer[Len(got[b]) + 1] = packet
       /\ ToSet(longer) = ToSet(got[b]) \cup {packet}
  BY <1>4, AppendFacts
<1> HIDE DEF longer
<1>11. peer[b] = "served" => got'[b] = longer
  BY <1>5 DEF longer
<1>6. TypesOK'
  BY <1>1, <1>2, <1>3, <1>5 DEF TypesOK
<1>7. TableInv'
  BY <1>1, <1>2, <1>5 DEF TableInv
<1>8. OrderInv'
  <2>1. ASSUME NEW c \in Clients, c # b \/ peer[b] # "served"
        PROVE  InOrder(c)'
    <3>1. InOrder(c) /\ got'[c] = got[c] /\ packet' = packet
      BY <1>1, <1>2, <1>5, <2>1 DEF OrderInv
    <3>2. Pending(c)' => Pending(c)
      BY <1>3
    <3> QED BY <3>1, <3>2 DEF InOrder
  <2>2. ASSUME peer[b] = "served"
        PROVE  /\ \A i \in 1..Len(got'[b]) : got'[b][i] <= packet
               /\ \A i, j \in 1..Len(got'[b]) : i < j => got'[b][i] < got'[b][j]
    <3>1. /\ Len(got'[b]) = Len(got[b]) + 1 /\ Len(got[b]) \in Nat
          /\ \A i \in 1..Len(got[b]) : got'[b][i] = got[b][i]
          /\ got'[b][Len(got[b]) + 1] = packet
      BY <1>10, <1>11, <2>2
    <3>2. \A i \in 1..Len(got[b]) : got[b][i] \in Nat /\ got[b][i] < packet
      BY <1>2, <1>3, <1>4, ElementOfSeq DEF OrderInv, InOrder
    <3>3. \A i, j \in 1..Len(got[b]) : i < j => got[b][i] < got[b][j]
      BY <1>2, <1>3 DEF OrderInv, InOrder
    <3>4. \A i \in 1..Len(got'[b]) : i \in 1..Len(got[b]) \/ i = Len(got[b]) + 1
      BY <3>1
    <3>5. \A i \in 1..Len(got'[b]) : got'[b][i] <= packet
      <4> SUFFICES ASSUME NEW i \in 1..Len(got'[b]) PROVE got'[b][i] <= packet
        OBVIOUS
      <4>1. CASE i \in 1..Len(got[b])
        <5>1. got'[b][i] = got[b][i] /\ got[b][i] \in Nat /\ got[b][i] < packet
          BY <3>1, <3>2, <4>1
        <5> QED BY <1>4, <5>1
      <4>2. CASE i = Len(got[b]) + 1
        BY <1>4, <3>1, <4>2
      <4> QED BY <3>4, <4>1, <4>2
    <3>6. \A i, j \in 1..Len(got'[b]) : i < j => got'[b][i] < got'[b][j]
      <4> SUFFICES ASSUME NEW i \in 1..Len(got'[b]), NEW j \in 1..Len(got'[b]), i < j
                   PROVE  got'[b][i] < got'[b][j]
        OBVIOUS
      <4>1. i \in 1..Len(got[b])
        BY <3>1
      <4>2. CASE j \in 1..Len(got[b])
        BY <3>1, <3>3, <4>1, <4>2
      <4>3. CASE j = Len(got[b]) + 1
        BY <3>1, <3>2, <4>1, <4>3
      <4> QED BY <3>4, <4>2, <4>3
    <3> QED BY <3>5, <3>6
  <2>3. ASSUME NEW c \in Clients PROVE InOrder(c)'
    <3>1. CASE c # b \/ peer[b] # "served"
      BY <2>1, <3>1
    <3>2. CASE c = b /\ peer[b] = "served"
      BY <1>1, <1>3, <2>2, <3>2 DEF InOrder
    <3> QED BY <3>1, <3>2
  <2> QED BY <2>3 DEF OrderInv
<1>9. LossInv'
  <2> SUFFICES ASSUME NEW c \in Clients, peer[c] = "served", NEW p \in due[c]
               PROVE  p \in ToSet(got'[c]) \/ p \in missed[c] \/ (Pending(c)' /\ p = packet)
    BY <1>1 DEF LossInv
  <2>1. p \in ToSet(got[c]) \/ p \in missed[c] \/ (Pending(c) /\ p = packet)
    BY <1>2 DEF LossInv
  <2>2. CASE c # b
    BY <1>3, <1>5, <2>1, <2>2
  <2>3. CASE c = b
    <3>1. ToSet(got'[b]) = ToSet(got[b]) \cup {packet}
      BY <1>10, <1>11, <2>3
    <3> QED BY <2>1, <2>3, <3>1
  <2> QED BY <2>2, <2>3
<1> QED BY <1>6, <1>7, <1>8, <1>9

\* A client that left is erased, and whoever was behind it misses the packet.
LEMMA SendFailsStep ==
  ASSUME IInv, SendFails
  PROVE  IInv'
<1> SUFFICES ASSUME ~raced' PROVE TypesOK' /\ TableInv' /\ OrderInv' /\ LossInv'
  BY DEF IInv
<1>1. /\ ~raced /\ iter > 0 /\ iter' = 0 /\ peer[sessions[iter]] = "gone"
      /\ missed' = [c \in Clients |-> IF c \in Skipped(iter) THEN missed[c] \cup {packet}
                                      ELSE missed[c]]
      /\ sessions' = RemoveAt(sessions, iter)
      /\ UNCHANGED <<inserting, peer, packet, due, got>>
  BY DEF SendFails, Fail, MoveTo
<1>2. TypesOK /\ TableInv /\ OrderInv /\ LossInv
  BY <1>1 DEF IInv
<1>3. sessions \in Seq(Clients) /\ Len(sessions) \in Nat /\ iter \in 1..Len(sessions)
  BY <1>1, <1>2 DEF TypesOK
<1>4. /\ sessions' \in Seq(Clients) /\ Len(sessions') = Len(sessions) - 1
      /\ \A j \in 1..(Len(sessions) - 1) :
           sessions'[j] = IF j < iter THEN sessions[j] ELSE sessions[j + 1]
  BY <1>1, <1>3, RemoveAtFacts
<1>5. TypesOK'
  <2>1. packet \in Nat /\ missed \in [Clients -> SUBSET Nat]
    BY <1>2 DEF TypesOK
  <2>2. missed' \in [Clients -> SUBSET Nat]
    BY <1>1, <2>1
  <2>3. iter' \in 0..Len(sessions')
    BY <1>1, <1>3, <1>4
  <2> QED BY <1>1, <1>2, <1>4, <2>2, <2>3 DEF TypesOK
<1>6. TableInv'
  <2>1. \A i \in 1..Len(sessions') : peer[sessions'[i]] \in {"served", "gone"}
    BY <1>2, <1>3, <1>4 DEF TableInv
  <2>2. \A i, j \in 1..Len(sessions') : sessions'[i] = sessions'[j] => i = j
    <3> SUFFICES ASSUME NEW i \in 1..Len(sessions'), NEW j \in 1..Len(sessions'),
                        sessions'[i] = sessions'[j]
                 PROVE  i = j
      OBVIOUS
    <3> DEFINE k == IF i < iter THEN i ELSE i + 1
               l == IF j < iter THEN j ELSE j + 1
    <3>1. k \in 1..Len(sessions) /\ l \in 1..Len(sessions)
      BY <1>3, <1>4
    <3>2. sessions[k] = sessions[l]
      BY <1>3, <1>4
    <3>3. k = l
      <4> HIDE DEF k, l
      <4> QED BY <1>2, <3>1, <3>2 DEF TableInv
    <3> QED BY <1>3, <1>4, <3>3
  <2> QED BY <1>1, <1>2, <2>1, <2>2 DEF TableInv
<1>7. \A c \in Clients : ~Pending(c)'
  BY <1>1 DEF Pending
<1>8. OrderInv'
  BY <1>1, <1>2, <1>7 DEF OrderInv, InOrder
<1>9. LossInv'
  <2> SUFFICES ASSUME NEW c \in Clients, peer[c] = "served", NEW p \in due[c]
               PROVE  p \in ToSet(got[c]) \/ p \in missed'[c]
    BY <1>1 DEF LossInv
  <2>1. p \in ToSet(got[c]) \/ p \in missed[c] \/ (Pending(c) /\ p = packet)
    BY <1>2 DEF LossInv
  <2>2. missed[c] \subseteq missed'[c]
    BY <1>1
  <2>3. CASE Pending(c) /\ p = packet
    <3>1. PICK i \in iter..Len(sessions) : sessions[i] = c
      BY <2>3 DEF Pending
    <3>2. i # iter
      BY <1>1, <3>1
    <3>3. c \in Skipped(iter)
      BY <1>3, <2>3, <3>1, <3>2 DEF Skipped
    <3> QED BY <1>1, <2>3, <3>3
  <2> QED BY <2>1, <2>2, <2>3
<1> QED BY <1>5, <1>6, <1>8, <1>9

-----------------------------------------------------------------------------
(* What failures cost                                                      *)

\* A step that costs nobody anything and forgets no failure.
LEMMA NoCostStep ==
  ASSUME CostInv, ~raced, UNCHANGED missed, Erased \subseteq Erased',
         \A c \in Clients : peer'[c] = "served" => peer[c] = "served" \/ missed[c] = {},
         \A c \in Clients : peer'[c] \in {"away", "waiting"} => peer[c] \in {"away", "waiting"}
  PROVE  CostInv'
<1>1. IsFiniteSet(Erased') /\ IsFiniteSet(Erased)
  BY ServerAssumption, FS_Subset DEF Erased
<1>2. Cardinality(Erased) <= Cardinality(Erased')
  BY <1>1, FS_Subset
<1>3. Cardinality(Erased) \in Nat /\ Cardinality(Erased') \in Nat
  BY <1>1, FS_CardinalityType
<1>4. ASSUME NEW c \in Clients, peer'[c] = "served"
      PROVE  IsFiniteSet(missed[c]) /\ Cardinality(missed[c]) <= Cardinality(Erased')
  <2>1. CASE missed[c] = {}
    BY <1>3, <2>1, FS_EmptySet
  <2>2. CASE peer[c] = "served"
    <3>1. IsFiniteSet(missed[c]) /\ Cardinality(missed[c]) <= Cardinality(Erased)
      BY <2>2 DEF CostInv
    <3>2. Cardinality(missed[c]) \in Nat
      BY <3>1, FS_CardinalityType
    <3> QED BY <1>2, <1>3, <3>1, <3>2
  <2> QED BY <1>4, <2>1, <2>2
<1>5. \A c \in Clients : peer'[c] \in {"away", "waiting"} => missed[c] = {}
  BY DEF CostInv
<1> QED BY <1>4, <1>5 DEF CostInv

\* A failure erases a client and adds a packet to what the others miss.
LEMMA FailureCost ==
  ASSUME IInv, CostInv, SendFails
  PROVE  CostInv'
<1> SUFFICES ASSUME ~raced' PROVE CostInv'
  BY DEF CostInv
<1>1. /\ ~raced /\ iter > 0 /\ peer[sessions[iter]] = "gone"
      /\ missed' = [c \in Clients |-> IF c \in Skipped(iter) THEN missed[c] \cup {packet}
                                      ELSE missed[c]]
      /\ sessions' = RemoveAt(sessions, iter) /\ UNCHANGED peer
  BY DEF SendFails, Fail, MoveTo
<1>2. TypesOK /\ TableInv
  BY <1>1 DEF IInv
<1>3. sessions \in Seq(Clients) /\ Len(sessions) \in Nat /\ iter \in 1..Len(sessions)
  BY <1>1, <1>2 DEF TypesOK
<1>4. /\ Len(sessions') = Len(sessions) - 1
      /\ \A j \in 1..(Len(sessions) - 1) :
           sessions'[j] = IF j < iter THEN sessions[j] ELSE sessions[j + 1]
  BY <1>1, <1>3, RemoveAtFacts
<1> PICK b \in Clients : b = sessions[iter]
  BY <1>3, ElementOfSeq
<1>5. b \notin Erased
  BY <1>3 DEF Erased
<1>6. Erased \cup {b} \subseteq Erased'
  <2>1. \A j \in 1..(Len(sessions) - 1) : sessions'[j] # b
    BY <1>2, <1>3, <1>4 DEF TableInv
  <2>2. b \in Erased'
    BY <1>1, <1>3, <1>4, <2>1 DEF Erased
  <2>3. Erased \subseteq Erased'
    BY <1>1, <1>3, <1>4 DEF Erased
  <2> QED BY <2>2, <2>3
<1>7. /\ IsFiniteSet(Erased) /\ IsFiniteSet(Erased')
      /\ Cardinality(Erased) \in Nat /\ Cardinality(Erased') \in Nat
      /\ Cardinality(Erased) + 1 <= Cardinality(Erased')
  <2>1. IsFiniteSet(Erased) /\ IsFiniteSet(Erased')
    BY ServerAssumption, FS_Subset DEF Erased
  <2>2. Cardinality(Erased \cup {b}) = Cardinality(Erased) + 1
    BY <1>5, <2>1, FS_AddElement
  <2>3. Cardinality(Erased \cup {b}) <= Cardinality(Erased')
    BY <1>6, <2>1, FS_Subset
  <2> QED BY <2>1, <2>2, <2>3, FS_CardinalityType
<1>8. ASSUME NEW c \in Clients, peer[c] = "served"
      PROVE  IsFiniteSet(missed'[c]) /\ Cardinality(missed'[c]) <= Cardinality(Erased')
  <2>1. IsFiniteSet(missed[c]) /\ Cardinality(missed[c]) <= Cardinality(Erased)
    BY <1>1, <1>8 DEF CostInv
  <2>2. Cardinality(missed[c]) \in Nat
    BY <2>1, FS_CardinalityType
  <2>3. missed'[c] = missed[c] \/ missed'[c] = missed[c] \cup {packet}
    BY <1>1
  <2>4. /\ IsFiniteSet(missed[c] \cup {packet})
        /\ \/ Cardinality(missed[c] \cup {packet}) = Cardinality(missed[c])
           \/ Cardinality(missed[c] \cup {packet}) = Cardinality(missed[c]) + 1
    BY <2>1, FS_AddElement
  <2> QED BY <1>7, <2>1, <2>2, <2>3, <2>4
<1>9. ASSUME NEW c \in Clients, peer[c] \in {"away", "waiting"}
      PROVE  missed'[c] = {}
  <2>1. c \notin Skipped(iter)
    BY <1>2, <1>9 DEF Skipped, TableInv
  <2> QED BY <1>1, <1>9, <2>1 DEF CostInv
<1> QED BY <1>1, <1>8, <1>9 DEF CostInv

\* All other steps.
LEMMA CostStep ==
  ASSUME IInv, CostInv, [Next]_vars
  PROVE  CostInv'
<1>1. CASE raced
  <2>1. raced'
    BY <1>1 DEF Next, Arrive, Leave, AcceptNewClient, Insert, CloseConnections, SendToAll,
                BeginSend, SendOk, SendFails, Fail, vars
  <2> QED BY <2>1 DEF CostInv
<1>2. CASE ~raced
  <2>1. TypesOK /\ TableInv
    BY <1>2 DEF IInv
  <2>2. CASE SendFails
    BY <2>2, FailureCost
  <2>3. ASSUME UNCHANGED <<missed, peer, sessions>> PROVE CostInv'
    BY <1>2, <2>3, NoCostStep DEF Erased
  <2>4. ASSUME NEW c \in Clients, Arrive(c) \/ Leave(c) PROVE CostInv'
    <3>1. UNCHANGED <<missed, sessions>>
      BY <2>4 DEF Arrive, Leave, tableVars, sendVars, histVars
    <3>2. \A d \in Clients : \/ peer'[d] = peer[d]
                             \/ peer[d] = "away" /\ peer'[d] = "waiting"
                             \/ peer[d] = "served" /\ peer'[d] = "gone"
      BY <2>1, <2>4 DEF TypesOK, Arrive, Leave
    <3>3. Erased \subseteq Erased'
      BY <3>1, <3>2 DEF Erased
    <3> QED BY <1>2, <3>1, <3>2, <3>3, NoCostStep
  <2>5. ASSUME NEW c \in Clients, Insert(c) PROVE CostInv'
    <3>1. /\ UNCHANGED missed /\ peer[c] = "waiting"
          /\ sessions' = Append(sessions, c) /\ peer' = [peer EXCEPT ![c] = "served"]
      BY <2>1, <2>5 DEF Insert, sendVars, histVars, TableInv
    <3>2. \A d \in Clients : peer'[d] = IF d = c THEN "served" ELSE peer[d]
      BY <2>1, <3>1 DEF TypesOK
    <3>3. /\ Len(sessions') = Len(sessions) + 1 /\ Len(sessions) \in Nat
          /\ \A j \in 1..Len(sessions) : sessions'[j] = sessions[j]
          /\ sessions'[Len(sessions) + 1] = c
      BY <2>1, <3>1, AppendFacts DEF TypesOK
    <3>4. Erased \subseteq Erased'
      <4> SUFFICES ASSUME NEW d \in Erased PROVE d \in Erased'
        OBVIOUS
      <4>1. d \in Clients /\ d # c /\ peer[d] = "gone"
        BY <3>1 DEF Erased
      <4>2. ASSUME NEW i \in 1..Len(sessions') PROVE sessions'[i] # d
        <5>1. i \in 1..Len(sessions) \/ i = Len(sessions) + 1
          BY <3>3
        <5> QED BY <3>3, <4>1, <5>1 DEF Erased
      <4>3. peer'[d] = "gone"
        BY <3>2, <4>1
      <4> QED BY <4>1, <4>2, <4>3 DEF Erased
    <3>5. missed[c] = {}
      BY <1>2, <3>1 DEF CostInv
    <3> QED BY <1>2, <3>1, <3>2, <3>4, <3>5, NoCostStep
  <2>6. CASE CloseConnections
    <3>1. /\ UNCHANGED missed /\ sessions' = <<>>
          /\ peer' = [c \in Clients |-> IF peer[c] = "away" THEN "away" ELSE "gone"]
      BY <2>6 DEF CloseConnections, histVars
    <3>2. Erased \subseteq Erased'
      BY <3>1 DEF Erased
    <3> QED BY <1>2, <3>1, <3>2, NoCostStep
  <2>7. (\E c \in Clients : AcceptNewClient(c)) \/ BeginSend \/ SendOk \/ UNCHANGED vars
        => UNCHANGED <<missed, peer, sessions>>
    BY DEF AcceptNewClient, BeginSend, SendOk, vars, tableVars, sendVars, histVars
  <2> QED BY <2>2, <2>3, <2>4, <2>5, <2>6, <2>7 DEF Next, SendToAll
<1> QED BY <1>1, <1>2

-----------------------------------------------------------------------------
(* The theorems                                                            *)

\* The invariant holds at the start ...
LEMMA InitIInv == Init => IInv
<1> SUFFICES ASSUME Init PROVE IInv
  OBVIOUS
<1>1. sessions = <<>> /\ <<>> \in Seq(Clients) /\ Len(<<>>) = 0 /\ <<>> \in Seq(Nat)
  BY DEF Init
<1>2. TypesOK /\ TableInv
  BY <1>1 DEF Init, TypesOK, TableInv
<1>3. OrderInv
  BY <1>1 DEF Init, OrderInv, InOrder
<1>4. LossInv
  BY DEF Init, LossInv
<1> QED BY <1>2, <1>3, <1>4 DEF IInv

\* ... and every step keeps it.
LEMMA NextIInv == IInv /\ [Next]_vars => IInv'
<1> SUFFICES ASSUME IInv, [Next]_vars PROVE IInv'
  OBVIOUS
<1>1. CASE UNCHANGED vars
  BY <1>1 DEF vars, tableVars, sendVars, histVars, IInv, TypesOK, TableInv, OrderInv,
              InOrder, LossInv, Pending
<1> QED BY <1>1, ClientStep, AcceptStep, InsertStep, CloseStep, BeginStep, SendOkStep,
           SendFailsStep DEF Next, SendToAll

\* The invariant holds in every state.
THEOREM ServerIInv == Spec => []IInv
BY InitIInv, NextIInv, PTL DEF Spec

\* sendToAll (ServerNetwork.cpp 147 to 175) sends no client a packet twice or out of
\* order, however many clients come and go during the walk.
THEOREM ServerPacketsInOrder == Spec => []PacketsInOrder
<1>1. IInv => PacketsInOrder
  <2> SUFFICES ASSUME IInv, ~raced, NEW c \in Clients, NEW i \in DOMAIN got[c],
                      NEW j \in DOMAIN got[c], i < j
               PROVE  got[c][i] < got[c][j]
    BY DEF PacketsInOrder
  <2>1. DOMAIN got[c] = 1..Len(got[c])
    BY LenProperties DEF IInv, TypesOK
  <2> QED BY <2>1 DEF IInv, OrderInv, InOrder
<1> QED BY <1>1, ServerIInv, PTL

\* ... and a client that is served misses nothing but what the failure of another one
\* ahead of it in the table costs it (171).
THEOREM ServerNoOtherLoss == Spec => []NoOtherLoss
<1>1. IInv => NoOtherLoss
  BY DEF IInv, LossInv, Pending, NoOtherLoss
<1> QED BY <1>1, ServerIInv, PTL

\* The return of sendToAll at its first failure (171) costs a client that is served one
\* packet at most for every client that left.
THEOREM ServerLossBounded == Spec => []LossBoundedByFailures
<1>1. Init => CostInv
  <2> SUFFICES ASSUME Init PROVE CostInv
    OBVIOUS
  <2> QED BY DEF Init, CostInv
<1>2. IInv /\ CostInv /\ [Next]_vars => CostInv'
  BY CostStep
<1>3. CostInv => LossBoundedByFailures
  <2> SUFFICES ASSUME CostInv, ~raced, NEW c \in Clients, peer[c] = "served"
               PROVE  Cardinality(missed[c])
                        <= Cardinality({d \in Clients : peer[d] = "gone"})
    BY DEF LossBoundedByFailures
  <2> DEFINE Gone == {d \in Clients : peer[d] = "gone"}
  <2>1. IsFiniteSet(Gone) /\ Erased \subseteq Gone
    BY ServerAssumption, FS_Subset DEF Erased
  <2>2. IsFiniteSet(Erased) /\ Cardinality(Erased) <= Cardinality(Gone)
    BY <2>1, FS_Subset
  <2>3. IsFiniteSet(missed[c]) /\ Cardinality(missed[c]) <= Cardinality(Erased)
    BY DEF CostInv
  <2>4. /\ Cardinality(missed[c]) \in Nat /\ Cardinality(Erased) \in Nat
        /\ Cardinality(Gone) \in Nat
    BY <2>1, <2>2, <2>3, FS_CardinalityType
  <2> QED BY <2>2, <2>3, <2>4
<1> QED BY <1>1, <1>2, <1>3, ServerIInv, PTL DEF Spec
=============================================================================
