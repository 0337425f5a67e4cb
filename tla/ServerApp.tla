------------------------------ MODULE ServerApp ------------------------------
(***************************************************************************)
(* The life of the server process: gologin::app (src/server/app.cpp) from   *)
(* main(args) to the destruction of its members.                            *)
(*                                                                         *)
(* Threads: the process's main thread (main_pc), the application's jthread  *)
(* (thread), and one handler thread per connection (conn).  Of the TCP      *)
(* server only this is kept: start() may fail, a running server accepts     *)
(* connections, ~server returns when the handler threads have ended         *)
(* (TcpServer).                                                            *)
(***************************************************************************)
EXTENDS Naturals

CONSTANTS
  Conn,     \* connections that peers may open
  Sink      \* what logger_sink may be: "console", "file", "other"

ASSUME ServerAppAssumption == Sink \subseteq {"console", "file", "other"}

VARIABLES
  logger_sink,  \* the property of that name in the configuration file
  main_pc,      \* where the main thread is
  thread,       \* where the jthread is
  stop,         \* m_main_thread's stop token
  terminate,    \* a termination request was made
  m_logger,     \* "null", "alive", "destroyed"
  m_tcp_server, \* "null", "created", "up", "failed", "stopping", "destroyed"
  m_auth_provider, \* "null", "alive", "destroyed"
  conn,         \* handler threads: "none", "recv", "handle", "done"
  failed        \* history: an exception was thrown during start-up

appVars == <<logger_sink, m_logger, m_tcp_server, m_auth_provider>>
vars == <<main_pc, thread, stop, terminate, appVars, conn, failed>>

Init ==
  /\ logger_sink \in Sink
  /\ main_pc = "startup"
  /\ thread = "none"
  /\ stop = FALSE
  /\ terminate = FALSE
  /\ m_logger = "null"
  /\ m_tcp_server = "null"
  /\ m_auth_provider = "null"
  /\ conn = [c \in Conn |-> "none"]
  /\ failed = FALSE

Alive == main_pc \notin {"exited", "crashed"}

\* An access to a null logger and an exception that leaves a thread's function
\* end the process.
Crash == main_pc' = "crashed"

\* MUTANT of Log: a null logger is asked for before it is used.
LogIfThere == UNCHANGED main_pc

\* A line of the log.
Log == IF m_logger = "alive" THEN UNCHANGED main_pc ELSE Crash

-----------------------------------------------------------------------------
(* main(args), the main thread.                                             *)

\* startup() and the start of the jthread.
Startup ==
  /\ main_pc = "startup"
  /\ m_logger' = IF logger_sink = "other" THEN "null" ELSE "alive"
  /\ thread' = "begin"
  /\ main_pc' = "wait"
  /\ UNCHANGED <<logger_sink, stop, terminate, m_tcp_server, m_auth_provider, conn,
                 failed>>

\* create_directories or the log file's open throws, before m_logger is set:
\* the catch block logs through a null pointer.
StartupThrows ==
  /\ main_pc = "startup"
  /\ failed' = TRUE
  /\ Log
  /\ UNCHANGED <<thread, stop, terminate, appVars, conn>>

\* waitForTerminationRequest() returns.
Wait ==
  /\ main_pc = "wait"
  /\ terminate
  /\ main_pc' = IF m_logger = "alive" THEN "request" ELSE "crashed"
  /\ UNCHANGED <<thread, stop, terminate, appVars, conn, failed>>

\* MUTANT of RequestStop: the jthread is joined without being asked to stop.
RequestStopNot ==
  /\ main_pc = "request"
  /\ main_pc' = "join"
  /\ UNCHANGED <<thread, stop, terminate, appVars, conn, failed>>

RequestStop ==
  /\ main_pc = "request"
  /\ stop' = TRUE
  /\ main_pc' = "join"
  /\ UNCHANGED <<thread, terminate, appVars, conn, failed>>

\* MUTANT of Join: the jthread is detached.
JoinNot ==
  /\ main_pc = "join"
  /\ main_pc' = "provider"
  /\ UNCHANGED <<thread, stop, terminate, appVars, conn, failed>>

\* m_main_thread.join(); main(args) returns and the application is destroyed,
\* last member first: m_main_thread, which was joined, ...
Join ==
  /\ main_pc = "join"
  /\ thread = "done"
  /\ main_pc' = "provider"
  /\ UNCHANGED <<thread, stop, terminate, appVars, conn, failed>>

\* ... m_auth_provider, ...
DestroyProvider ==
  /\ main_pc = "provider"
  /\ m_auth_provider' = "destroyed"
  /\ main_pc' = "server"
  /\ UNCHANGED <<thread, stop, terminate, logger_sink, m_logger, m_tcp_server,
                 conn, failed>>

\* MUTANT of StopServer: the server is left with a status of its own.
StopServerStatus ==
  /\ main_pc = "server"
  /\ m_tcp_server' = "close"
  /\ main_pc' = "joining"
  /\ UNCHANGED <<thread, stop, terminate, logger_sink, m_logger, m_auth_provider,
                 conn, failed>>

\* ... m_tcp_server: ~server stops accepting ...
StopServer ==
  /\ main_pc = "server"
  /\ m_tcp_server' = "stopping"
  /\ main_pc' = "joining"
  /\ UNCHANGED <<thread, stop, terminate, logger_sink, m_logger, m_auth_provider,
                 conn, failed>>

\* ... and joins the handler threads, ...
JoinHandlers ==
  /\ main_pc = "joining"
  /\ \A c \in Conn : conn[c] \in {"none", "done"}
  /\ m_tcp_server' = "destroyed"
  /\ main_pc' = "logger"
  /\ UNCHANGED <<thread, stop, terminate, logger_sink, m_logger, m_auth_provider,
                 conn, failed>>

\* ... and m_logger.
DestroyLogger ==
  /\ main_pc = "logger"
  /\ m_logger' = "destroyed"
  /\ main_pc' = "exited"
  /\ UNCHANGED <<thread, stop, terminate, logger_sink, m_tcp_server,
                 m_auth_provider, conn, failed>>

Terminate ==
  /\ Alive
  /\ ~terminate
  /\ terminate' = TRUE
  /\ UNCHANGED <<main_pc, thread, stop, appVars, conn, failed>>

-----------------------------------------------------------------------------
(* The jthread: main(), then the wait for the stop token.                   *)

\* MUTANT of ThreadBegin: the provider is created after the server was started.
ThreadBeginBare ==
  /\ Alive
  /\ thread = "begin"
  /\ thread' = "server"
  /\ Log
  /\ UNCHANGED <<stop, terminate, appVars, conn, failed>>

ThreadBegin ==
  /\ Alive
  /\ thread = "begin"
  /\ m_auth_provider' = IF m_logger = "alive" THEN "alive" ELSE m_auth_provider
  /\ thread' = "server"
  /\ Log
  /\ UNCHANGED <<stop, terminate, logger_sink, m_logger, m_tcp_server, conn, failed>>

CreateServer ==
  /\ Alive
  /\ thread = "server"
  /\ m_tcp_server' = "created"
  /\ thread' = "start"
  /\ UNCHANGED <<main_pc, stop, terminate, logger_sink, m_logger,
                 m_auth_provider, conn, failed>>

\* The address does not resolve: nothing on this thread catches it.
CreateServerThrows ==
  /\ Alive
  /\ thread = "server"
  /\ failed' = TRUE
  /\ Crash
  /\ UNCHANGED <<thread, stop, terminate, appVars, conn>>

\* start(), whose result is not looked at.
StartServer(up) ==
  /\ Alive
  /\ thread = "start"
  /\ m_tcp_server' = IF up THEN "up" ELSE "failed"
  /\ thread' = "wait"
  /\ UNCHANGED <<main_pc, stop, terminate, logger_sink, m_logger,
                 m_auth_provider, conn, failed>>

ThreadStops ==
  /\ Alive
  /\ thread = "wait"
  /\ stop
  /\ thread' = "done"
  /\ UNCHANGED <<main_pc, stop, terminate, appVars, conn, failed>>

-----------------------------------------------------------------------------
(* The handler threads.                                                     *)

Accept(c) ==
  /\ Alive
  /\ m_tcp_server = "up"
  /\ conn[c] = "none"
  /\ conn' = [conn EXCEPT ![c] = "recv"]
  /\ UNCHANGED <<main_pc, thread, stop, terminate, appVars, failed>>

\* A packet for one of the application's handlers.
Packet(c) ==
  /\ Alive
  /\ conn[c] = "recv"
  /\ conn' = [conn EXCEPT ![c] = "handle"]
  /\ UNCHANGED <<main_pc, thread, stop, terminate, appVars, failed>>

\* The handler calls m_auth_provider, if that is still there, and returns.
Handled(c) ==
  /\ Alive
  /\ conn[c] = "handle"
  /\ conn' = [conn EXCEPT ![c] = IF m_tcp_server = "up" THEN "recv" ELSE "done"]
  /\ IF m_auth_provider = "destroyed" THEN UNCHANGED main_pc \/ Crash
                                      ELSE UNCHANGED main_pc
  /\ UNCHANGED <<thread, stop, terminate, appVars, failed>>

\* The peer closes its end and the thread is done.
PeerCloses(c) ==
  /\ Alive
  /\ conn[c] = "recv"
  /\ conn' = [conn EXCEPT ![c] = "done"]
  /\ UNCHANGED <<main_pc, thread, stop, terminate, appVars, failed>>

-----------------------------------------------------------------------------
MainThread ==
  \/ Startup
  \/ StartupThrows
  \/ Wait
  \/ RequestStop
  \/ Join
  \/ DestroyProvider
  \/ StopServer
  \/ JoinHandlers
  \/ DestroyLogger

Thread ==
  \/ ThreadBegin
  \/ CreateServer
  \/ CreateServerThrows
  \/ \E up \in BOOLEAN : StartServer(up)
  \/ ThreadStops

Handler(c) == Handled(c) \/ PeerCloses(c)

Next ==
  \/ MainThread
  \/ Thread
  \/ Terminate
  \/ \E c \in Conn : Accept(c) \/ Packet(c) \/ Handler(c)

Spec == Init /\ [][Next]_vars

\* The threads are scheduled, handlers return and each peer closes some day.
FairSpec ==
  /\ Spec
  /\ WF_vars(MainThread)
  /\ WF_vars(Thread)
  /\ \A c \in Conn : WF_vars(Handler(c))

-----------------------------------------------------------------------------
(* Properties.                                                              *)

MainPc == {"startup", "wait", "request", "join", "provider", "server", "joining",
           "logger", "exited", "crashed"}

\* The type invariant.
ServerAppTypeOK ==
  /\ logger_sink \in Sink
  /\ main_pc \in MainPc
  /\ thread \in {"none", "begin", "server", "start", "wait", "done"}
  /\ {stop, terminate, failed} \subseteq BOOLEAN
  /\ m_logger \in {"null", "alive", "destroyed"}
  /\ m_tcp_server \in {"null", "created", "up", "failed", "stopping", "destroyed"}
  /\ m_auth_provider \in {"null", "alive", "destroyed"}
  /\ conn \in [Conn -> {"none", "recv", "handle", "done"}]

\* A process that ends by itself leaves no thread behind: when the logger, the
\* last member but the configuration, is destroyed, the jthread and every
\* handler thread have ended, at whatever moment of the start-up the request to
\* terminate came.
EndsClean ==
  main_pc = "exited" =>
    /\ thread = "done"
    /\ \A c \in Conn : conn[c] \in {"none", "done"}

\* A packet handler finds the auth provider alive, except in one interval: from
\* the provider's destruction to the end of ~server, which is destroyed after
\* it and goes on serving until it has joined its threads.
HandlersSeeProvider ==
  (\E c \in Conn : conn[c] = "handle") =>
    m_auth_provider = "alive" \/ main_pc \in {"server", "joining", "crashed"}

\* A request to terminate ends the process, during the start-up too and with
\* connections open, if peers close.
TerminationEnds == terminate ~> ~Alive

\* After an exception, on either thread, or without a logger the process does
\* not go on waiting for a termination request but ends, though none of the
\* catch blocks of main(args) can be what ends it.  A bind that failed is not
\* meant: nobody looks at what start() returned, and that process waits.
HalfStartedEnds ==
  failed \/ (main_pc = "wait" /\ m_logger = "null") ~> main_pc = "crashed"
=============================================================================
