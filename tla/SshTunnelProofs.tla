--------------------------- MODULE SshTunnelProofs ---------------------------
(***************************************************************************)
(* Proofs about SshTunnel, for any number of tunnels, connections and      *)
(* descriptors.                                                            *)
(*                                                                         *)
(* SetIsTheThreads is inductive once it is known which connection a        *)
(* listener has in hand and that it is in no other listener's (InHand),    *)
(* and that only accepted connections have a thread (Accepted).            *)
(* NoneLeftOpen is not: a number that is open has to be the one its        *)
(* connection was given (Held), or a thread that closes its own number     *)
(* would leave another's open.                                             *)
(***************************************************************************)
EXTENDS SshTunnel, TLAPS

Types ==
    /\ attached \in [Tunnels -> BOOLEAN]
    /\ m_listensock \in [Tunnels -> BOOLEAN]
    /\ cleaner \in SUBSET Tunnels
    /\ listener \in [Tunnels -> {"none", "accept", "invalid", "start", "insert", "cleanup", "ended"}]
    /\ taken \in [Tunnels -> Conns \cup {NoConn}]
    /\ tunnelOf \in [Conns -> Tunnels]
    /\ client \in [Conns -> {"idle", "calling", "connected", "closed"}]
    /\ sub \in [Conns -> {"none", "channel", "forward", "shutdown", "closed", "gone"}]
    /\ m_forwardsock \in [Conns -> Fds \cup {NoFd}]
    /\ holder \in [Fds -> Conns \cup {NoConn}]
    /\ g_setSocketDescriptor \in SUBSET Fds
    /\ unstarted \in SUBSET Conns /\ blind \in SUBSET Conns /\ late \in SUBSET Conns

\* The connection a listener has in hand is one of its own, was accepted, and
\* has no thread before it is started.
InHand ==
    \A t \in Tunnels :
        IF listener[t] \in {"start", "insert"}
        THEN /\ taken[t] \in Conns /\ tunnelOf[taken[t]] = t
             /\ client[taken[t]] \in {"connected", "closed"}
             /\ m_forwardsock[taken[t]] \in Fds
             /\ listener[t] = "start" <=> sub[taken[t]] = "none"
             /\ taken[t] \notin unstarted
        ELSE taken[t] = NoConn

\* A connection that was not accepted has no thread, and those for which no
\* thread could be started, or that were entered late, have none any more.
Accepted ==
    \A c \in Conns :
        /\ client[c] \in {"idle", "calling"} => sub[c] = "none"
        /\ sub[c] # "none" => m_forwardsock[c] \in Fds
        /\ c \in unstarted \cup late => sub[c] = "gone"

\* Whose socket has a number, was given that number, and will close it.
Held ==
    \A f \in Fds : holder[f] # NoConn =>
        /\ m_forwardsock[holder[f]] = f
        /\ \/ \E t \in Tunnels : listener[t] = "start" /\ taken[t] = holder[f]
           \/ holder[f] \in unstarted
           \/ sub[holder[f]] \in {"channel", "forward", "shutdown"}

IInv == Types /\ InHand /\ Accepted /\ Held /\ SetIsTheThreads

\* The initial states satisfy it.
LEMMA InitInv == Init => IInv
<1>1. ASSUME Init PROVE Types
  BY <1>1, RoutesAreRoutes DEF Init, Types
<1>2. ASSUME Init PROVE InHand /\ Accepted /\ Held /\ SetIsTheThreads
  BY <1>2 DEF Init, InHand, Accepted, Held, SetIsTheThreads, Alive
<1> QED
  BY <1>1, <1>2 DEF IInv

\* Each action keeps the invariant: those of the GUI thread, ...
LEMMA GuiStep ==
    ASSUME IInv, NEW t \in Tunnels, Connect(t) \/ ConnectFails(t) \/ Disconnect(t) \/ CleanupOver(t)
    PROVE  IInv'
<1>1. CASE Connect(t)
  <2>1. Types'
    BY <1>1 DEF IInv, Types, Connect, clients, subs, history
  <2>2. InHand'
    BY <1>1, DescriptorsSuffice DEF IInv, Types, InHand, Accepted, Connect, clients, subs, history
  <2>3. Accepted'
    BY <1>1 DEF IInv, Types, InHand, Accepted, Connect, clients, subs, history
  <2>4. Held'
    BY <1>1, DescriptorsSuffice
      DEF IInv, Types, InHand, Accepted, Held, Connect, clients, subs, history
  <2>5. SetIsTheThreads'
    BY <1>1
      DEF IInv, Types, InHand, Accepted, SetIsTheThreads, Starting, Alive, Connect, clients, subs, history
  <2> QED
    BY <2>1, <2>2, <2>3, <2>4, <2>5 DEF IInv
<1>2. CASE ConnectFails(t)
  <2>1. Types'
    BY <1>2 DEF IInv, Types, ConnectFails, CloseSockets, clients, subs, history
  <2>2. InHand'
    BY <1>2, DescriptorsSuffice
      DEF IInv, Types, InHand, Accepted, ConnectFails, CloseSockets, clients, subs, history
  <2>3. Accepted'
    BY <1>2 DEF IInv, Types, InHand, Accepted, ConnectFails, CloseSockets, clients, subs, history
  <2>4. Held'
    BY <1>2, DescriptorsSuffice
      DEF IInv, Types, InHand, Accepted, Held, ConnectFails, CloseSockets, clients, subs, history
  <2>5. SetIsTheThreads'
    BY <1>2
      DEF IInv, Types, InHand, Accepted, SetIsTheThreads, Starting, Alive, ConnectFails, CloseSockets, clients, subs, history
  <2> QED
    BY <2>1, <2>2, <2>3, <2>4, <2>5 DEF IInv
<1>3. CASE Disconnect(t)
  <2>1. Types'
    BY <1>3 DEF IInv, Types, Disconnect, CloseSockets, clients, subs, history
  <2>2. InHand'
    BY <1>3, DescriptorsSuffice
      DEF IInv, Types, InHand, Accepted, Disconnect, CloseSockets, clients, subs, history
  <2>3. Accepted'
    BY <1>3 DEF IInv, Types, InHand, Accepted, Disconnect, CloseSockets, clients, subs, history
  <2>4. Held'
    BY <1>3, DescriptorsSuffice
      DEF IInv, Types, InHand, Accepted, Held, Disconnect, CloseSockets, clients, subs, history
  <2>5. SetIsTheThreads'
    BY <1>3
      DEF IInv, Types, InHand, Accepted, SetIsTheThreads, Starting, Alive, Disconnect, CloseSockets, clients, subs, history
  <2> QED
    BY <2>1, <2>2, <2>3, <2>4, <2>5 DEF IInv
<1>4. CASE CleanupOver(t)
  <2>1. Types'
    BY <1>4 DEF IInv, Types, CleanupOver, clients, subs, history
  <2>2. InHand'
    BY <1>4, DescriptorsSuffice
      DEF IInv, Types, InHand, Accepted, CleanupOver, clients, subs, history
  <2>3. Accepted'
    BY <1>4 DEF IInv, Types, InHand, Accepted, CleanupOver, clients, subs, history
  <2>4. Held'
    BY <1>4, DescriptorsSuffice
      DEF IInv, Types, InHand, Accepted, Held, CleanupOver, clients, subs, history
  <2>5. SetIsTheThreads'
    BY <1>4
      DEF IInv, Types, InHand, Accepted, SetIsTheThreads, Starting, Alive, CleanupOver, clients, subs, history
  <2> QED
    BY <2>1, <2>2, <2>3, <2>4, <2>5 DEF IInv
<1> QED
  BY <1>1, <1>2, <1>3, <1>4

\* ... of the clients, ...
LEMMA ClientStep ==
    ASSUME IInv, NEW c \in Conns, Call(c) \/ Hangup(c)
    PROVE  IInv'
<1>1. CASE Call(c)
  <2>1. Types'
    BY <1>1 DEF IInv, Types, Call, tunnel, subs, history
  <2>2. InHand'
    BY <1>1, DescriptorsSuffice DEF IInv, Types, InHand, Accepted, Call, tunnel, subs, history
  <2>3. Accepted'
    BY <1>1 DEF IInv, Types, InHand, Accepted, Call, tunnel, subs, history
  <2>4. Held'
    BY <1>1, DescriptorsSuffice DEF IInv, Types, InHand, Accepted, Held, Call, tunnel, subs, history
  <2>5. SetIsTheThreads'
    BY <1>1
      DEF IInv, Types, InHand, Accepted, SetIsTheThreads, Starting, Alive, Call, tunnel, subs, history
  <2> QED
    BY <2>1, <2>2, <2>3, <2>4, <2>5 DEF IInv
<1>2. CASE Hangup(c)
  <2>1. Types'
    BY <1>2 DEF IInv, Types, Hangup, tunnel, subs, history
  <2>2. InHand'
    BY <1>2, DescriptorsSuffice DEF IInv, Types, InHand, Accepted, Hangup, tunnel, subs, history
  <2>3. Accepted'
    BY <1>2 DEF IInv, Types, InHand, Accepted, Hangup, tunnel, subs, history
  <2>4. Held'
    BY <1>2, DescriptorsSuffice
      DEF IInv, Types, InHand, Accepted, Held, Hangup, tunnel, subs, history
  <2>5. SetIsTheThreads'
    BY <1>2
      DEF IInv, Types, InHand, Accepted, SetIsTheThreads, Starting, Alive, Hangup, tunnel, subs, history
  <2> QED
    BY <2>1, <2>2, <2>3, <2>4, <2>5 DEF IInv
<1> QED
  BY <1>1, <1>2

\* ... of a listener, ...
LEMMA ListenerStep ==
    ASSUME IInv, NEW t \in Tunnels, Accept(t) \/ AcceptInterrupted(t) \/ AcceptFails(t) \/ ListenerCleaned(t) \/ StartSub(t) \/ SubNotStarted(t) \/ InsertSocket(t)
    PROVE  IInv'
<1>1. CASE Accept(t)
  <2>1. Types'
    BY <1>1 DEF IInv, Types, Accept, history
  <2>2. InHand'
    BY <1>1, DescriptorsSuffice DEF IInv, Types, InHand, Accepted, Accept, history
  <2>3. Accepted'
    BY <1>1 DEF IInv, Types, InHand, Accepted, Accept, history
  <2>4. Held'
    BY <1>1, DescriptorsSuffice DEF IInv, Types, InHand, Accepted, Held, Accept, history
  <2>5. SetIsTheThreads'
    BY <1>1 DEF IInv, Types, InHand, Accepted, SetIsTheThreads, Starting, Alive, Accept, history
  <2> QED
    BY <2>1, <2>2, <2>3, <2>4, <2>5 DEF IInv
<1>2. CASE AcceptInterrupted(t)
  <2>1. Types'
    BY <1>2 DEF IInv, Types, AcceptInterrupted, clients, subs, history
  <2>2. InHand'
    BY <1>2, DescriptorsSuffice
      DEF IInv, Types, InHand, Accepted, AcceptInterrupted, clients, subs, history
  <2>3. Accepted'
    BY <1>2 DEF IInv, Types, InHand, Accepted, AcceptInterrupted, clients, subs, history
  <2>4. Held'
    BY <1>2, DescriptorsSuffice
      DEF IInv, Types, InHand, Accepted, Held, AcceptInterrupted, clients, subs, history
  <2>5. SetIsTheThreads'
    BY <1>2
      DEF IInv, Types, InHand, Accepted, SetIsTheThreads, Starting, Alive, AcceptInterrupted, clients, subs, history
  <2> QED
    BY <2>1, <2>2, <2>3, <2>4, <2>5 DEF IInv
<1>3. CASE AcceptFails(t)
  <2>1. Types'
    BY <1>3 DEF IInv, Types, AcceptFails, CloseSockets, clients, subs, history
  <2>2. InHand'
    BY <1>3, DescriptorsSuffice
      DEF IInv, Types, InHand, Accepted, AcceptFails, CloseSockets, clients, subs, history
  <2>3. Accepted'
    BY <1>3 DEF IInv, Types, InHand, Accepted, AcceptFails, CloseSockets, clients, subs, history
  <2>4. Held'
    BY <1>3, DescriptorsSuffice
      DEF IInv, Types, InHand, Accepted, Held, AcceptFails, CloseSockets, clients, subs, history
  <2>5. SetIsTheThreads'
    BY <1>3
      DEF IInv, Types, InHand, Accepted, SetIsTheThreads, Starting, Alive, AcceptFails, CloseSockets, clients, subs, history
  <2> QED
    BY <2>1, <2>2, <2>3, <2>4, <2>5 DEF IInv
<1>4. CASE ListenerCleaned(t)
  <2>1. Types'
    BY <1>4 DEF IInv, Types, ListenerCleaned, clients, subs, history
  <2>2. InHand'
    BY <1>4, DescriptorsSuffice
      DEF IInv, Types, InHand, Accepted, ListenerCleaned, clients, subs, history
  <2>3. Accepted'
    BY <1>4 DEF IInv, Types, InHand, Accepted, ListenerCleaned, clients, subs, history
  <2>4. Held'
    BY <1>4, DescriptorsSuffice
      DEF IInv, Types, InHand, Accepted, Held, ListenerCleaned, clients, subs, history
  <2>5. SetIsTheThreads'
    BY <1>4
      DEF IInv, Types, InHand, Accepted, SetIsTheThreads, Starting, Alive, ListenerCleaned, clients, subs, history
  <2> QED
    BY <2>1, <2>2, <2>3, <2>4, <2>5 DEF IInv
<1>5. CASE StartSub(t)
  <2>1. Types'
    BY <1>5 DEF IInv, Types, StartSub, clients, history
  <2>2. InHand'
    BY <1>5, DescriptorsSuffice DEF IInv, Types, InHand, Accepted, StartSub, clients, history
  <2>3. Accepted'
    BY <1>5 DEF IInv, Types, InHand, Accepted, StartSub, clients, history
  <2>4. Held'
    BY <1>5, DescriptorsSuffice DEF IInv, Types, InHand, Accepted, Held, StartSub, clients, history
  <2>5. SetIsTheThreads'
    BY <1>5
      DEF IInv, Types, InHand, Accepted, SetIsTheThreads, Starting, Alive, StartSub, clients, history
  <2> QED
    BY <2>1, <2>2, <2>3, <2>4, <2>5 DEF IInv
<1>6. CASE SubNotStarted(t)
  <2>1. Types'
    BY <1>6 DEF IInv, Types, InHand, SubNotStarted, Erase, Listen, clients
  <2>2. InHand'
    BY <1>6, DescriptorsSuffice
      DEF IInv, Types, InHand, Accepted, SubNotStarted, Erase, Listen, clients
  <2>3. Accepted'
    BY <1>6 DEF IInv, Types, InHand, Accepted, SubNotStarted, Erase, Listen, clients
  <2>4. Held'
    BY <1>6, DescriptorsSuffice
      DEF IInv, Types, InHand, Accepted, Held, SubNotStarted, Erase, Listen, clients
  <2>5. SetIsTheThreads'
    BY <1>6
      DEF IInv, Types, InHand, Accepted, SetIsTheThreads, Starting, Alive, SubNotStarted, Erase, Listen, clients
  <2> QED
    BY <2>1, <2>2, <2>3, <2>4, <2>5 DEF IInv
<1>7. CASE InsertSocket(t)
  <2>1. Types'
    BY <1>7 DEF IInv, Types, InHand, InsertSocket, Listen, clients, subs
  <2>2. InHand'
    BY <1>7, DescriptorsSuffice
      DEF IInv, Types, InHand, Accepted, InsertSocket, Listen, clients, subs
  <2>3. Accepted'
    BY <1>7 DEF IInv, Types, InHand, Accepted, InsertSocket, Listen, clients, subs
  <2>4. Held'
    BY <1>7, DescriptorsSuffice
      DEF IInv, Types, InHand, Accepted, Held, InsertSocket, Listen, clients, subs
  <2>5. SetIsTheThreads'
    BY <1>7
      DEF IInv, Types, InHand, Accepted, SetIsTheThreads, Starting, Alive, InsertSocket, Listen, clients, subs
  <2> QED
    BY <2>1, <2>2, <2>3, <2>4, <2>5 DEF IInv
<1> QED
  BY <1>1, <1>2, <1>3, <1>4, <1>5, <1>6, <1>7

\* ... and of a sub-thread.
LEMMA SubStep ==
    ASSUME IInv, NEW c \in Conns, OpenChannel(c) \/ StopForwarding(c) \/ ChannelFails(c) \/ Shutdown(c) \/ DestroySub(c)
    PROVE  IInv'
<1>1. CASE OpenChannel(c)
  <2>1. Types'
    BY <1>1 DEF IInv, Types, OpenChannel, SubGoes, tunnel, clients, history
  <2>2. InHand'
    BY <1>1, DescriptorsSuffice
      DEF IInv, Types, InHand, Accepted, OpenChannel, SubGoes, tunnel, clients, history
  <2>3. Accepted'
    BY <1>1 DEF IInv, Types, InHand, Accepted, OpenChannel, SubGoes, tunnel, clients, history
  <2>4. Held'
    BY <1>1, DescriptorsSuffice
      DEF IInv, Types, InHand, Accepted, Held, OpenChannel, SubGoes, tunnel, clients, history
  <2>5. SetIsTheThreads'
    BY <1>1
      DEF IInv, Types, InHand, Accepted, SetIsTheThreads, Starting, Alive, OpenChannel, SubGoes, tunnel, clients, history
  <2> QED
    BY <2>1, <2>2, <2>3, <2>4, <2>5 DEF IInv
<1>2. CASE StopForwarding(c)
  <2>1. Types'
    BY <1>2 DEF IInv, Types, StopForwarding, SubGoes, tunnel, clients, history
  <2>2. InHand'
    BY <1>2, DescriptorsSuffice
      DEF IInv, Types, InHand, Accepted, StopForwarding, SubGoes, tunnel, clients, history
  <2>3. Accepted'
    BY <1>2 DEF IInv, Types, InHand, Accepted, StopForwarding, SubGoes, tunnel, clients, history
  <2>4. Held'
    BY <1>2, DescriptorsSuffice
      DEF IInv, Types, InHand, Accepted, Held, StopForwarding, SubGoes, tunnel, clients, history
  <2>5. SetIsTheThreads'
    BY <1>2
      DEF IInv, Types, InHand, Accepted, SetIsTheThreads, Starting, Alive, StopForwarding, SubGoes, tunnel, clients, history
  <2> QED
    BY <2>1, <2>2, <2>3, <2>4, <2>5 DEF IInv
<1>3. CASE ChannelFails(c)
  <2>1. Types'
    BY <1>3 DEF IInv, Types, ChannelFails, SubGoes, tunnel, clients, history
  <2>2. InHand'
    BY <1>3, DescriptorsSuffice
      DEF IInv, Types, InHand, Accepted, ChannelFails, SubGoes, tunnel, clients, history
  <2>3. Accepted'
    BY <1>3 DEF IInv, Types, InHand, Accepted, ChannelFails, SubGoes, tunnel, clients, history
  <2>4. Held'
    BY <1>3, DescriptorsSuffice
      DEF IInv, Types, InHand, Accepted, Held, ChannelFails, SubGoes, tunnel, clients, history
  <2>5. SetIsTheThreads'
    BY <1>3
      DEF IInv, Types, InHand, Accepted, SetIsTheThreads, Starting, Alive, ChannelFails, SubGoes, tunnel, clients, history
  <2> QED
    BY <2>1, <2>2, <2>3, <2>4, <2>5 DEF IInv
<1>4. CASE Shutdown(c)
  <2>1. Types'
    BY <1>4 DEF IInv, Types, Shutdown, SubGoes, tunnel, clients, history
  <2>2. InHand'
    BY <1>4, DescriptorsSuffice
      DEF IInv, Types, InHand, Accepted, Shutdown, SubGoes, tunnel, clients, history
  <2>3. Accepted'
    BY <1>4 DEF IInv, Types, InHand, Accepted, Shutdown, SubGoes, tunnel, clients, history
  <2>4. Held'
    BY <1>4, DescriptorsSuffice
      DEF IInv, Types, InHand, Accepted, Held, Shutdown, SubGoes, tunnel, clients, history
  <2>5. SetIsTheThreads'
    BY <1>4
      DEF IInv, Types, InHand, Accepted, SetIsTheThreads, Starting, Alive, Shutdown, SubGoes, tunnel, clients, history
  <2> QED
    BY <2>1, <2>2, <2>3, <2>4, <2>5 DEF IInv
<1>5. CASE DestroySub(c)
  <2>1. Types'
    BY <1>5 DEF IInv, Types, DestroySub, Erase, tunnel, clients
  <2>2. InHand'
    BY <1>5, DescriptorsSuffice
      DEF IInv, Types, InHand, Accepted, DestroySub, Erase, tunnel, clients
  <2>3. Accepted'
    BY <1>5 DEF IInv, Types, InHand, Accepted, DestroySub, Erase, tunnel, clients
  <2>4. Held'
    BY <1>5, DescriptorsSuffice
      DEF IInv, Types, InHand, Accepted, Held, DestroySub, Erase, tunnel, clients
  <2>5. SetIsTheThreads'
    BY <1>5
      DEF IInv, Types, InHand, Accepted, SetIsTheThreads, Starting, Alive, DestroySub, Erase, tunnel, clients
  <2> QED
    BY <2>1, <2>2, <2>3, <2>4, <2>5 DEF IInv
<1> QED
  BY <1>1, <1>2, <1>3, <1>4, <1>5

\* So every step keeps it, ...
LEMMA StepInv == IInv /\ [Next]_vars => IInv'
<1>1. CASE UNCHANGED vars
  BY <1>1 DEF IInv, Types, InHand, Accepted, Held, SetIsTheThreads, Starting, Alive,
              vars, tunnel, clients, subs, history
<1>2. ASSUME IInv, NEW t \in Tunnels,
             Connect(t) \/ ConnectFails(t) \/ Disconnect(t) \/ CleanupOver(t) \/ Listener(t)
      PROVE  IInv'
  BY <1>2, GuiStep, ListenerStep DEF Listener
<1>3. ASSUME IInv, NEW c \in Conns, Call(c) \/ Hangup(c) \/ SubThread(c)
      PROVE  IInv'
  BY <1>3, ClientStep, SubStep DEF SubThread
<1> QED
  BY <1>1, <1>2, <1>3 DEF Next

\* ... and it is an invariant.
LEMMA Invariance == Spec => []IInv
  BY InitInv, StepInv, PTL DEF Spec

\* Every variable keeps its type, a listener has a connection in hand exactly
\* between its accept and the entry of its socket in the set, and a socket that
\* got no thread is not entered.
THEOREM TunnelTypes == Spec => []TypeOK
<1>1. ASSUME IInv PROVE Starting \cap unstarted = {}
  BY <1>1 DEF IInv, InHand, Starting
<1>2. ASSUME IInv, NEW t \in Tunnels
      PROVE  taken[t] # NoConn <=> listener[t] \in {"start", "insert"}
  BY <1>2, DescriptorsSuffice DEF IInv, InHand
<1>3. IInv => TypeOK
  BY <1>1, <1>2 DEF IInv, Types, Accepted, TypeOK
<1> QED
  BY <1>3, Invariance, PTL

\* For any number of tunnels and connections: every running sub-thread's socket
\* is in the set but in the two cases that the property names, and the set has
\* no other number than those entered late.
THEOREM SetStaysTheThreads == Spec => []SetIsTheThreads
<1>1. IInv => SetIsTheThreads
  BY DEF IInv
<1> QED
  BY <1>1, Invariance, PTL

\* However often a number is closed and used again, a socket is open only as
\* long as its listener or its sub-thread has still to deal with it, unless no
\* thread could be started for it.
THEOREM NothingLeftOpen == Spec => []NoneLeftOpen
<1>1. ASSUME IInv, NEW f \in Fds, holder[f] # NoConn
      PROVE  \/ holder[f] \in Starting \cup unstarted
             \/ sub[holder[f]] \in {"channel", "forward", "shutdown"} /\ m_forwardsock[holder[f]] = f
  BY <1>1 DEF IInv, Held, Starting
<1>2. IInv => NoneLeftOpen
  BY <1>1 DEF NoneLeftOpen
<1> QED
  BY <1>2, Invariance, PTL

-----------------------------------------------------------------------------
(* Nobody waits for somebody who has gone.  That every sub-thread comes to *)
(* its end (EverythingEnds) needs fairness and is left to TLC; here is what*)
(* it rests on: the select of a thread that forwards returns once all      *)
(* clients have hung up.  The number it selects may be another             *)
(* connection's by then, but that connection was accepted, so that its     *)
(* client has called, and hung up as well.                                 *)

NoneWaitsInVain == NoClient => \A c \in Conns : sub[c] = "forward" => Broken(c)

\* The client of the connection that has a number has called.
LEMMA HolderHasCalled ==
    ASSUME IInv, NEW f \in Fds, holder[f] # NoConn
    PROVE  holder[f] \in Conns /\ client[holder[f]] \in {"connected", "closed"}
<1> DEFINE d == holder[f]
<1>1. d \in Conns /\ client[d] \in {"idle", "calling", "connected", "closed"}
  BY DEF IInv, Types
<1>2. CASE \E t \in Tunnels : listener[t] = "start" /\ taken[t] = d
  BY <1>1, <1>2 DEF IInv, InHand
<1>3. CASE d \in unstarted
  <2>1. sub[d] = "gone"
    BY <1>1, <1>3 DEF IInv, Accepted
  <2> QED
    BY <1>1, <2>1 DEF IInv, Accepted
<1>4. CASE sub[d] \in {"channel", "forward", "shutdown"}
  BY <1>1, <1>4 DEF IInv, Accepted
<1> QED
  BY <1>1, <1>2, <1>3, <1>4 DEF IInv, Held

\* When every client has hung up, a sub-thread that forwards sees its number
\* closed, or the end of the connection that has the number now, whatever
\* Cleanup and other threads closed and whichever numbers were used again: it
\* does not wait in select.
THEOREM ForwardingEnds == Spec => []NoneWaitsInVain
<1>1. ASSUME IInv, NoClient, NEW c \in Conns, sub[c] = "forward" PROVE Broken(c)
  <2>1. m_forwardsock[c] \in Fds
    BY <1>1 DEF IInv, Accepted
  <2>2. CASE holder[m_forwardsock[c]] = NoConn
    BY <2>2 DEF Broken
  <2>3. CASE holder[m_forwardsock[c]] # NoConn
    BY <1>1, <2>1, <2>3, HolderHasCalled DEF NoClient, Broken
  <2> QED
    BY <2>2, <2>3
<1>2. IInv => NoneWaitsInVain
  BY <1>1 DEF NoneWaitsInVain
<1> QED
  BY <1>2, Invariance, PTL

=============================================================================
