---------------------------- MODULE ServerNetwork -----------------------------
(***************************************************************************)
(* The server side of both transfers, ServerNetwork.cpp: the accepting     *)
(* thread adds clients to the sessions table while the sending thread      *)
(* walks through it in sendToAll, without a lock between them.             *)
(***************************************************************************)
EXTENDS Naturals, Sequences, SequencesExt, FiniteSets

CONSTANTS
  Clients,      (* the client programs that may connect, once each            *)
  MaxPackets    (* bound: calls of sendToAll                                  *)

ASSUME ServerAssumption == MaxPackets \in Nat /\ IsFiniteSet(Clients)

VARIABLES
  ListenSocket, (* is the listening socket open?                              *)
  sessions,     (* the sessions table, in the order of its keys               *)
  inserting,    (* the clients acceptNewClient is about to insert: one at most *)
  peer,         (* each client: "away", "waiting" to be accepted, "served"    *)
                (* (connected), or "gone"                                     *)
  packet,       (* history: the number of the packet sent last                *)
  iter,         (* where sendToAll is in sessions, 0 outside of it            *)
  due,          (* history: the packets sent while each client was in the table *)
  got,          (* history: the packets each client was sent successfully     *)
  missed,       (* history: the packets a failure of another client cost it   *)
  raced         (* history: both threads were in the table at once; std::map  *)
                (* gives no meaning to what follows, and nothing follows here *)

tableVars == <<ListenSocket, sessions, inserting>>
histVars  == <<got, missed>>
sendVars  == <<packet, iter, due, histVars>>
vars      == <<tableVars, peer, sendVars, raced>>

Init ==
  /\ ListenSocket = TRUE /\ sessions = <<>> /\ inserting = {}
  /\ peer = [c \in Clients |-> "away"]
  /\ packet = 0 /\ iter = 0
  /\ due = [c \in Clients |-> {}]
  /\ got = [c \in Clients |-> <<>>]
  /\ missed = [c \in Clients |-> {}]
  /\ raced = FALSE

-----------------------------------------------------------------------------
(* The clients                                                             *)

\* A client connects: the system completes the connection, accept() is to come.
Arrive(c) ==
  /\ ListenSocket
  /\ peer[c] = "away"
  /\ peer' = [peer EXCEPT ![c] = "waiting"]
  /\ UNCHANGED <<tableVars, sendVars, raced>>

\* A client closes its end; the server learns of it from a failing send.
Leave(c) ==
  /\ peer[c] = "served"
  /\ peer' = [peer EXCEPT ![c] = "gone"]
  /\ UNCHANGED <<tableVars, sendVars, raced>>

-----------------------------------------------------------------------------
(* acceptNewClient and CloseConnections                                    *)

\* accept() returns a socket and the insertion into the table begins.
AcceptNewClient(c) ==
  /\ ListenSocket /\ ~raced /\ inserting = {}
  /\ peer[c] = "waiting"
  /\ inserting' = {c}
  /\ UNCHANGED <<ListenSocket, sessions, peer, sendVars, raced>>

\* Its end: the new session has the next key, so it is the last one.
Insert(c) ==
  /\ ~raced /\ c \in inserting
  /\ inserting' = {}
  /\ sessions' = Append(sessions, c)
  /\ peer' = [peer EXCEPT ![c] = "served"]
  /\ UNCHANGED <<ListenSocket, sendVars, raced>>

\* accept() fails, or the program shuts down: every session and the listening
\* socket are closed.  A sendToAll in progress keeps an iterator into the cleared
\* table.
CloseConnections ==
  /\ ListenSocket /\ ~raced /\ inserting = {}
  /\ ListenSocket' = FALSE /\ sessions' = <<>>
  /\ peer' = [c \in Clients |-> IF peer[c] = "away" THEN "away" ELSE "gone"]
  /\ iter' = 0
  /\ raced' = (iter > 0)
  /\ UNCHANGED <<inserting, packet, due, histVars>>

-----------------------------------------------------------------------------
(* sendToAll                                                               *)

\* The sending thread moves in the table, or changes it, without asking whether an
\* insertion is going on.
MoveTo(next) ==
  /\ iter' = next
  /\ raced' = (inserting # {})

\* The sending thread has a packet and HasConnections().
BeginSend ==
  /\ iter = 0 /\ ~raced
  /\ sessions # <<>> /\ packet < MaxPackets
  /\ packet' = packet + 1
  /\ due' = [c \in Clients |->
               IF c \in ToSet(sessions) THEN due[c] \cup {packet'} ELSE due[c]]
  /\ UNCHANGED <<tableVars, peer, histVars>>
  /\ MoveTo(1)

\* After that ends with the first client.
AfterFirst == 0

\* Where the loop goes on: it ends behind the last session there is by then.
After == IF iter = Len(sessions) THEN 0 ELSE iter + 1

\* send() takes the packet; for a client that has just left it may still do so.
SendOk ==
  /\ iter > 0 /\ ~raced
  /\ LET c == sessions[iter] IN
       got' = IF peer[c] = "served" THEN [got EXCEPT ![c] = Append(@, packet)]
                                    ELSE got
  /\ UNCHANGED <<tableVars, peer, packet, due, missed>>
  /\ MoveTo(After)

\* Clients a loop that stops at position i leaves without the packet.
Skipped(i) == {c \in Clients : packet \in due[c]
                 /\ \E j \in (i + 1)..Len(sessions) : sessions[j] = c}

\* The failure at the session of the loop position, with the table it leaves and
\* where the loop goes on.
Fail(table, next) ==
  /\ iter > 0 /\ ~raced
  /\ peer[sessions[iter]] = "gone"
  /\ missed' = [c \in Clients |->
                  IF c \in Skipped(iter) THEN missed[c] \cup {packet}
                  ELSE missed[c]]
  /\ sessions' = table
  /\ UNCHANGED <<ListenSocket, inserting, peer, packet, due, got>>
  /\ MoveTo(next)

\* SendFails that leaves the dead session in the table.
SendFailsKeepsSession == Fail(sessions, 0)

\* SendFails that goes through the remaining table from its beginning.
SendFailsRestarts == Fail(RemoveAt(sessions, iter), IF Len(sessions) = 1 THEN 0 ELSE 1)

\* send() fails: the session is closed and erased, and sendToAll returns.
SendFails == Fail(RemoveAt(sessions, iter), 0)

SendToAll == BeginSend \/ SendOk \/ SendFails

Next ==
  \/ \E c \in Clients : Arrive(c) \/ Leave(c) \/ AcceptNewClient(c) \/ Insert(c)
  \/ CloseConnections
  \/ SendToAll

Spec == Init /\ [][Next]_vars

-----------------------------------------------------------------------------
(* Properties                                                              *)

\* Every variable holds a value of its kind; the loop position is a session of the
\* table.
TypeOK ==
  /\ ListenSocket \in BOOLEAN /\ raced \in BOOLEAN
  /\ sessions \in Seq(Clients) /\ inserting \subseteq Clients
  /\ peer \in [Clients -> {"away", "waiting", "served", "gone"}]
  /\ packet \in 0..MaxPackets
  /\ iter \in 0..Len(sessions)
  /\ got \in [Clients -> Seq(1..MaxPackets)]
  /\ due \in [Clients -> SUBSET (1..MaxPackets)]
  /\ missed \in [Clients -> SUBSET (1..MaxPackets)]

\* No client is sent a packet twice or out of order, also when sessions are
\* erased and added during the walk.
PacketsInOrder ==
  ~raced => \A c \in Clients : \A i, j \in DOMAIN got[c] :
              i < j => got[c][i] < got[c][j]

\* A client accepted once is only ever left out of a packet by the failure of
\* another one before it in the table, and each client that left costs it one packet
\* at most.
LossBoundedByFailures ==
  ~raced => \A c \in Clients : peer[c] = "served" =>
              Cardinality(missed[c]) <= Cardinality({d \in Clients : peer[d] = "gone"})

\* A client that is served misses nothing else: when no send is under way it has
\* every packet sent while it was in the table, but for those a failure cost it.
NoOtherLoss ==
  ~raced /\ iter = 0 =>
    \A c \in Clients : peer[c] = "served" =>
      due[c] \subseteq ToSet(got[c]) \cup missed[c]

\* "send data to all clients": no packet is over before every client of the table
\* that is still connected has it.
SentToAll ==
  ~raced => \A c \in Clients : peer[c] = "served" => missed[c] = {}
=============================================================================
