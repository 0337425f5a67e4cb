--------------------------- MODULE ServerAppProofs ---------------------------
(***************************************************************************)
(* Proofs about ServerApp, for any number of connections.                  *)
(***************************************************************************)
EXTENDS ServerApp, TLAPS

\* The destruction of the members, in its order.
Ending  == {"provider", "server", "joining", "logger", "exited"}

\* It begins when the jthread has ended, so nothing is created any more.
JoinedFirst == main_pc \in Ending => thread = "done"

\* ~server first stops accepting and then waits for its threads.
ServerStopped ==
  /\ main_pc \in {"joining", "logger", "exited"} => m_tcp_server # "up"
  /\ main_pc \in {"logger", "exited"} => \A c \in Conn : conn[c] \in {"none", "done"}

\* The provider is there before the server that calls it, and goes first.
ProviderFirst ==
  /\ thread \notin {"none", "begin"} => m_auth_provider # "null" \/ main_pc = "crashed"
  /\ m_tcp_server = "up" => m_auth_provider # "null"
  /\ \A c \in Conn : conn[c] # "none" => m_auth_provider # "null"
  /\ m_auth_provider = "destroyed" =>
       main_pc \in {"server", "joining", "logger", "exited", "crashed"}

Inv == ServerAppTypeOK /\ JoinedFirst /\ ServerStopped /\ ProviderFirst

\* The invariant is inductive.
LEMMA InvInductive ==
  ASSUME Inv, [Next]_vars
  PROVE  Inv'
<1> USE DEF Inv, ServerAppTypeOK, JoinedFirst, ServerStopped, ProviderFirst, Ending,
        MainPc
<1>1. CASE Startup
  BY <1>1 DEF Startup
<1>2. CASE StartupThrows
  BY <1>2 DEF StartupThrows, Log, Crash, appVars
<1>3. CASE Wait
  BY <1>3 DEF Wait, appVars
<1>4. CASE RequestStop
  BY <1>4 DEF RequestStop, appVars
<1>5. CASE Join
  BY <1>5 DEF Join, appVars
<1>6. CASE DestroyProvider
  BY <1>6 DEF DestroyProvider
<1>7. CASE StopServer
  BY <1>7 DEF StopServer
<1>8. CASE JoinHandlers
  BY <1>8 DEF JoinHandlers
<1>9. CASE DestroyLogger
  BY <1>9 DEF DestroyLogger
<1>10. CASE Terminate
  BY <1>10 DEF Terminate, appVars
<1>11. CASE ThreadBegin
  BY <1>11 DEF ThreadBegin, Log, Crash, Alive
<1>12. CASE CreateServer
  BY <1>12 DEF CreateServer, Alive
<1>13. CASE CreateServerThrows
  BY <1>13 DEF CreateServerThrows, Crash, appVars
<1>14. ASSUME NEW up \in BOOLEAN, StartServer(up) PROVE Inv'
  BY <1>14 DEF StartServer, Alive
<1>15. CASE ThreadStops
  BY <1>15 DEF ThreadStops, Alive, appVars
<1>16. ASSUME NEW c \in Conn, Accept(c) PROVE Inv'
  BY <1>16 DEF Accept, Alive, appVars
<1>17. ASSUME NEW c \in Conn, Packet(c) PROVE Inv'
  BY <1>17 DEF Packet, Alive, appVars
<1>18. ASSUME NEW c \in Conn, Handled(c) PROVE Inv'
  BY <1>18 DEF Handled, Alive, Crash, appVars
<1>19. ASSUME NEW c \in Conn, PeerCloses(c) PROVE Inv'
  BY <1>19 DEF PeerCloses, Alive, appVars
<1>20. CASE UNCHANGED vars
  BY <1>20 DEF vars, appVars
<1> QED
  BY <1>1, <1>2, <1>3, <1>4, <1>5, <1>6, <1>7, <1>8, <1>9, <1>10, <1>11, <1>12,
    <1>13, <1>14, <1>15, <1>16, <1>17, <1>18, <1>19, <1>20
    DEF Next, MainThread, Thread, Handler

\* Every state of the process satisfies the invariant.
LEMMA Invariant == Spec => []Inv
<1>1. Init => Inv
  BY DEF Init, Inv, ServerAppTypeOK, JoinedFirst, ServerStopped, ProviderFirst, Ending,
    MainPc
<1>2. Inv /\ [Next]_vars => Inv'
  BY InvInductive
<1> QED
  BY <1>1, <1>2, PTL DEF Spec

-----------------------------------------------------------------------------
(* The theorems.                                                            *)

\* The process's variables keep their types.
THEOREM ServerTypeCorrect == Spec => []ServerAppTypeOK
<1>1. Inv => ServerAppTypeOK
  BY DEF Inv
<1> QED
  BY <1>1, Invariant, PTL

\* The process leaves no thread behind when it ends by itself: main(args) joins
\* the jthread before anything is destroyed, and ~server joins the handler
\* threads before the logger goes.
THEOREM ProcessEndsClean == Spec => []EndsClean
<1>1. Inv => EndsClean
  BY DEF Inv, JoinedFirst, ServerStopped, Ending, EndsClean
<1> QED
  BY <1>1, Invariant, PTL

\* A handler meets a destroyed provider in one interval only, inside the
\* destruction of the application.
THEOREM HandlersHaveProvider == Spec => []HandlersSeeProvider
<1>1. Inv => HandlersSeeProvider
  BY DEF Inv, ServerAppTypeOK, ServerStopped, ProviderFirst, HandlersSeeProvider
<1> QED
  BY <1>1, Invariant, PTL
=============================================================================
