------------------------------ MODULE SshTunnel ------------------------------
(***************************************************************************)
(* The SSH tunnels of the servers (utils/sshTunnel.cpp, and pgServer's     *)
(* Connect and Disconnect as far as they create and end one).  A tunnel    *)
(* has a listener thread and an SSH session; each connection it accepts    *)
(* gets a sub-thread that carries bytes between the accepted socket and a  *)
(* channel of the session.  The descriptors of these sockets are kept in   *)
(* one set, which all tunnels of the program share; Cleanup closes what is *)
(* in it.  The numbers of descriptors are used again once they are closed. *)
(*                                                                         *)
(* A tunnel here is one attempt to connect a server.  Bytes, host keys,    *)
(* passwords and the steps of the login are left out, and so are the       *)
(* descriptors of other files of the program.                              *)
(***************************************************************************)
EXTENDS Naturals, FiniteSets

CONSTANTS
    Tunnels,    \* attempts to connect a server through a tunnel
    Conns,      \* connections through a tunnel
    Routes,     \* which tunnels they may go through
    Fds,        \* numbers of descriptors
    NoConn,
    NoFd

ASSUME DescriptorsSuffice == IsFiniteSet(Fds) /\ NoFd \notin Fds /\ NoConn \notin Conns
ASSUME RoutesAreRoutes == Routes \subseteq [Conns -> Tunnels]

VARIABLES
    attached,   \* attached[t]: pgServer::tunnelObj points to the tunnel
    listener,   \* where CSSHTunnelThread::Entry is
    taken,      \* the connection it has just accepted
    m_listensock,       \* is the listening socket open
    cleaner,    \* the tunnels that the GUI thread has in Cleanup
    tunnelOf,   \* the tunnel a connection goes through
    client,     \* the client's end of a connection
    sub,        \* where CSubThread::Entry is, for each connection
    m_forwardsock,      \* the descriptor its sub-thread was given
    holder,     \* holder[f]: the connection whose socket has number f
    g_setSocketDescriptor,
    unstarted,  \* history: the connections no thread could be started for
    blind,      \* history: those whose entry another's destructor removed
    late        \* history: those entered after their thread had gone

tunnel == <<attached, listener, taken, m_listensock, cleaner>>
clients == <<tunnelOf, client>>
subs == <<sub, m_forwardsock>>
history == <<unstarted, blind, late>>
vars == <<tunnel, clients, subs, holder, g_setSocketDescriptor, history>>

Init ==
    /\ attached = [t \in Tunnels |-> FALSE]
    /\ listener = [t \in Tunnels |-> "none"]
    /\ taken = [t \in Tunnels |-> NoConn]
    /\ m_listensock = [t \in Tunnels |-> FALSE]
    /\ cleaner = {}
    /\ tunnelOf \in Routes
    /\ client = [c \in Conns |-> "idle"]
    /\ sub = [c \in Conns |-> "none"]
    /\ m_forwardsock = [c \in Conns |-> NoFd]
    /\ holder = [f \in Fds |-> NoConn]
    /\ g_setSocketDescriptor = {}
    /\ unstarted = {}
    /\ blind = {}
    /\ late = {}

Alive(c) == sub[c] \in {"channel", "forward", "shutdown", "closed"}

(***************************************************************************)
(* The destructor of a sub-thread takes its number out of the set.  The    *)
(* number may be another connection's by then.                             *)
(***************************************************************************)
Erase(c) ==
    /\ g_setSocketDescriptor' = g_setSocketDescriptor \ {m_forwardsock[c]}
    /\ blind' = blind \cup {d \in Conns \ {c} :
                    m_forwardsock[d] = m_forwardsock[c]
                        /\ m_forwardsock[c] \in g_setSocketDescriptor}

(***************************************************************************)
(* The first half of Cleanup: every descriptor of the set is closed.       *)
(***************************************************************************)
CloseSockets ==
    holder' = [f \in Fds |-> IF f \in g_setSocketDescriptor THEN NoConn ELSE holder[f]]

-----------------------------------------------------------------------------
(* The GUI thread.  Cleanup sleeps in it: it does nothing else meanwhile.  *)

GuiIdle == cleaner = {}

\* pgServer::Connect with createSSHTunnel: Initialize succeeds, Run starts.
Connect(t) ==
    /\ GuiIdle /\ listener[t] = "none"
    /\ listener' = [listener EXCEPT ![t] = "accept"]
    /\ m_listensock' = [m_listensock EXCEPT ![t] = TRUE]
    /\ attached' = [attached EXCEPT ![t] = TRUE]
    /\ UNCHANGED <<taken, cleaner, clients, subs, holder, g_setSocketDescriptor, history>>

\* Initialize fails once there is a session: the login is refused, say.
\* It cleans up, and what is in the set is closed although it is other tunnels'.
ConnectFails(t) ==
    /\ GuiIdle /\ listener[t] = "none"
    /\ listener' = [listener EXCEPT ![t] = "ended"]
    /\ cleaner' = {t}
    /\ CloseSockets
    /\ UNCHANGED <<attached, taken, m_listensock, clients, subs, g_setSocketDescriptor, history>>

\* pgServer::Disconnect.  A listener that has ended has deleted its object;
\* IsAlive reads what is left of it and may find it alive or not.
Disconnect(t) ==
    /\ GuiIdle /\ attached[t]
    /\ attached' = [attached EXCEPT ![t] = FALSE]
    /\ \/ cleaner' = {t} /\ CloseSockets
       \/ listener[t] = "ended" /\ UNCHANGED <<cleaner, holder>>
    /\ UNCHANGED <<listener, taken, m_listensock, clients, subs, g_setSocketDescriptor, history>>

\* The second half of Cleanup: the session and the listening socket go.
CleanupOver(t) ==
    /\ t \in cleaner
    /\ cleaner' = cleaner \ {t}
    /\ m_listensock' = [m_listensock EXCEPT ![t] = FALSE]
    /\ UNCHANGED <<attached, listener, taken, clients, subs, holder, g_setSocketDescriptor, history>>

\* A connection of the server is opened (by the GUI thread) ...
Call(c) ==
    /\ GuiIdle /\ client[c] = "idle" /\ attached[tunnelOf[c]]
    /\ client' = [client EXCEPT ![c] = "calling"]
    /\ UNCHANGED <<tunnel, tunnelOf, subs, holder, g_setSocketDescriptor, history>>

\* ... and closed, or given up.
Hangup(c) ==
    /\ client[c] \in {"calling", "connected"}
    /\ client' = [client EXCEPT ![c] = "closed"]
    /\ UNCHANGED <<tunnel, tunnelOf, subs, holder, g_setSocketDescriptor, history>>

-----------------------------------------------------------------------------
(* The listener.                                                           *)

\* A closed listening socket does not wake an accept that waits on it, which
\* may take one more connection; the next accept is given descriptor 0.
Listen(t) == IF m_listensock[t] THEN "accept" ELSE "invalid"

Accept(t) == \E c \in Conns, f \in Fds :
    /\ listener[t] = "accept"
    /\ tunnelOf[c] = t /\ client[c] = "calling" /\ holder[f] = NoConn
    /\ client' = [client EXCEPT ![c] = "connected"]
    /\ holder' = [holder EXCEPT ![f] = c]
    /\ m_forwardsock' = [m_forwardsock EXCEPT ![c] = f]
    /\ taken' = [taken EXCEPT ![t] = c]
    /\ listener' = [listener EXCEPT ![t] = "start"]
    /\ UNCHANGED <<attached, m_listensock, cleaner, tunnelOf, sub, g_setSocketDescriptor, history>>

\* EINTR, EBADF and ECONNABORTED end the thread.
AcceptInterrupted(t) ==
    /\ listener[t] = "accept"
    /\ listener' = [listener EXCEPT ![t] = "ended"]
    /\ UNCHANGED <<attached, taken, m_listensock, cleaner, clients, subs, holder, g_setSocketDescriptor, history>>

\* Any other error is logged, and cleaned up after by the listener itself.
AcceptFails(t) ==
    /\ listener[t] \in {"accept", "invalid"}
    /\ CloseSockets
    /\ listener' = [listener EXCEPT ![t] = "cleanup"]
    /\ UNCHANGED <<attached, taken, m_listensock, cleaner, clients, subs, g_setSocketDescriptor, history>>

ListenerCleaned(t) ==
    /\ listener[t] = "cleanup"
    /\ listener' = [listener EXCEPT ![t] = "ended"]
    /\ m_listensock' = [m_listensock EXCEPT ![t] = FALSE]
    /\ UNCHANGED <<attached, taken, cleaner, clients, subs, holder, g_setSocketDescriptor, history>>

StartSub(t) ==
    /\ listener[t] = "start"
    /\ sub' = [sub EXCEPT ![taken[t]] = "channel"]
    /\ listener' = [listener EXCEPT ![t] = "insert"]
    /\ UNCHANGED <<attached, taken, m_listensock, cleaner, clients, m_forwardsock, holder, g_setSocketDescriptor, history>>

\* Create or Run fails: the thread object is deleted, its socket stays open.
SubNotStarted(t) ==
    /\ listener[t] = "start"
    /\ sub' = [sub EXCEPT ![taken[t]] = "gone"]
    /\ Erase(taken[t])
    /\ unstarted' = unstarted \cup {taken[t]}
    /\ taken' = [taken EXCEPT ![t] = NoConn]
    /\ listener' = [listener EXCEPT ![t] = Listen(t)]
    /\ UNCHANGED <<attached, m_listensock, cleaner, clients, m_forwardsock, holder, late>>

\* The thread runs already, and may have ended, when its socket is entered.
InsertSocket(t) ==
    /\ listener[t] = "insert"
    /\ g_setSocketDescriptor' = g_setSocketDescriptor \cup {m_forwardsock[taken[t]]}
    /\ late' = late \cup {c \in {taken[t]} : sub[c] = "gone"}
    /\ taken' = [taken EXCEPT ![t] = NoConn]
    /\ listener' = [listener EXCEPT ![t] = Listen(t)]
    /\ UNCHANGED <<attached, m_listensock, cleaner, clients, subs, holder, unstarted, blind>>

-----------------------------------------------------------------------------
(* A sub-thread.                                                           *)

SubGoes(c, at) ==
    /\ sub' = [sub EXCEPT ![c] = at]
    /\ UNCHANGED <<tunnel, clients, m_forwardsock, g_setSocketDescriptor, history>>

\* The channel is opened, or the session (which may be gone) refuses it.
OpenChannel(c) ==
    /\ sub[c] = "channel"
    /\ \E at \in {"forward", "shutdown"} : SubGoes(c, at)
    /\ UNCHANGED holder

MutBroken(c) ==
    holder[m_forwardsock[c]] \in {d \in Conns : client[d] = "closed"}

\* select fails on a number that is closed; on one that is open it sees the
\* connection that has the number now.
Broken(c) ==
    holder[m_forwardsock[c]] \in {NoConn} \cup {d \in Conns : client[d] = "closed"}

StopForwarding(c) ==
    /\ sub[c] = "forward" /\ Broken(c)
    /\ SubGoes(c, "shutdown")
    /\ UNCHANGED holder

\* The far end closes the channel, or an operation on it fails.
ChannelFails(c) ==
    /\ sub[c] = "forward"
    /\ SubGoes(c, "shutdown")
    /\ UNCHANGED holder

MutShutdown(c) ==
    /\ sub[c] = "shutdown"
    /\ SubGoes(c, "closed")
    /\ UNCHANGED holder

\* The number is closed, whoever has it.
Shutdown(c) ==
    /\ sub[c] = "shutdown"
    /\ holder' = [holder EXCEPT ![m_forwardsock[c]] = NoConn]
    /\ SubGoes(c, "closed")

MutDestroySub(c) ==
    /\ sub[c] = "closed"
    /\ sub' = [sub EXCEPT ![c] = "gone"]
    /\ UNCHANGED <<tunnel, clients, m_forwardsock, holder, g_setSocketDescriptor, history>>

DestroySub(c) ==
    /\ sub[c] = "closed"
    /\ Erase(c)
    /\ sub' = [sub EXCEPT ![c] = "gone"]
    /\ UNCHANGED <<tunnel, clients, m_forwardsock, holder, unstarted, late>>

-----------------------------------------------------------------------------

Listener(t) ==
    \/ Accept(t) \/ AcceptInterrupted(t) \/ AcceptFails(t) \/ ListenerCleaned(t)
    \/ StartSub(t) \/ SubNotStarted(t) \/ InsertSocket(t)

SubThread(c) ==
    OpenChannel(c) \/ StopForwarding(c) \/ ChannelFails(c) \/ Shutdown(c) \/ DestroySub(c)

Next ==
    \/ \E t \in Tunnels : Connect(t) \/ ConnectFails(t) \/ Disconnect(t)
                            \/ CleanupOver(t) \/ Listener(t)
    \/ \E c \in Conns : Call(c) \/ Hangup(c) \/ SubThread(c)

\* The threads run: a step that stays possible is taken.  No accept need
\* succeed, no channel need fail and no client need call or hang up.
Fairness ==
    /\ \A t \in Tunnels : WF_vars(CleanupOver(t)) /\ WF_vars(ListenerCleaned(t))
                            /\ WF_vars(StartSub(t) \/ SubNotStarted(t)) /\ WF_vars(InsertSocket(t))
    /\ \A c \in Conns : WF_vars(OpenChannel(c)) /\ WF_vars(StopForwarding(c))
                            /\ WF_vars(Shutdown(c)) /\ WF_vars(DestroySub(c))

Spec == Init /\ [][Next]_vars /\ Fairness

-----------------------------------------------------------------------------
(* Properties.                                                             *)

Starting == {taken[t] : t \in {u \in Tunnels : listener[u] \in {"start", "insert"}}}

\* Every variable has its type, the listener has a connection in hand exactly
\* between its accept and the entry of its socket, a socket that got no thread
\* is not entered, and only a connection that was accepted has a number.
TypeOK ==
    /\ attached \in [Tunnels -> BOOLEAN]
    /\ listener \in [Tunnels -> {"none", "accept", "invalid", "start", "insert", "cleanup", "ended"}]
    /\ taken \in [Tunnels -> Conns \cup {NoConn}]
    /\ m_listensock \in [Tunnels -> BOOLEAN]
    /\ cleaner \in SUBSET Tunnels
    /\ tunnelOf \in [Conns -> Tunnels]
    /\ client \in [Conns -> {"idle", "calling", "connected", "closed"}]
    /\ sub \in [Conns -> {"none", "channel", "forward", "shutdown", "closed", "gone"}]
    /\ m_forwardsock \in [Conns -> Fds \cup {NoFd}]
    /\ holder \in [Fds -> Conns \cup {NoConn}]
    /\ g_setSocketDescriptor \in SUBSET Fds
    /\ unstarted \in SUBSET Conns /\ blind \in SUBSET Conns /\ late \in SUBSET Conns
    /\ \A t \in Tunnels : taken[t] # NoConn <=> listener[t] \in {"start", "insert"}
    /\ Starting \cap unstarted = {}
    /\ \A c \in Conns : sub[c] # "none" => m_forwardsock[c] \in Fds

\* The set is what Cleanup has to close: the socket of every thread that
\* forwards, unless the listener is about to enter it or the destructor of an
\* earlier owner of the number has taken it out; and no other number, unless
\* one was entered when its thread had gone already.
SetIsTheThreads ==
    /\ \A c \in Conns :
         Alive(c) /\ c \notin Starting \cup blind => m_forwardsock[c] \in g_setSocketDescriptor
    /\ \A f \in g_setSocketDescriptor :
         \E c \in Conns : m_forwardsock[c] = f /\ (Alive(c) \/ c \in late)

\* A socket is not left open by the threads: the one that has it is not yet
\* given to a thread, or its thread has still to close it, or none could be
\* started for it.  (Numbers that are closed twice do not spoil this.)
NoneLeftOpen ==
    \A f \in Fds : LET c == holder[f] IN
        c # NoConn => \/ c \in Starting \cup unstarted
                      \/ sub[c] \in {"channel", "forward", "shutdown"} /\ m_forwardsock[c] = f

NoClient == \A c \in Conns : client[c] \in {"idle", "closed"}

\* When every client has hung up, the sub-threads come to their end (unless a
\* new client calls first), whatever Cleanup has closed meanwhile: none waits
\* for a number that is another's, or nobody's, for ever.
EverythingEnds == NoClient ~> ~NoClient \/ \A c \in Conns : ~Alive(c)
=============================================================================
