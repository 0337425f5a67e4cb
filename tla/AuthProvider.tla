----------------------------- MODULE AuthProvider -----------------------------
(***************************************************************************)
(* gologin::auth::provider (src/auth/provider/provider.cpp).  Each of its   *)
(* operations is one step: it runs under m_clients_mutex.  Every entry has  *)
(* the status "accepted", the only one add_client stores, so the status is  *)
(* left out; the session argument of status_client and rem_client is never  *)
(* read by them.                                                            *)
(***************************************************************************)
EXTENDS Naturals

CONSTANTS
  ClientId,  \* the ids clients choose
  Cookie,    \* client_cookies_t: the server's id of a connection
  Session    \* the sessions add_client can generate, numbers

VARIABLES
  m_clients,  \* the registered clients, a function from their ids
  issued      \* the sessions generated so far: 32 random letters never recur

AuthClient == [id : ClientId, cookie : Cookie, session : Session]

AuthInit == m_clients = << >> /\ issued = {}

Registered(id) == id \in DOMAIN m_clients

status_client(id) == IF Registered(id) THEN "accepted" ELSE "not_found"

get_clients == {m_clients[id] : id \in DOMAIN m_clients}

\* What add_client returns; "removed" is its answer to an id that is there.
AddStatus(id, valid) ==
  CASE ~valid                     -> "rejected"
    [] valid /\ Registered(id)    -> "removed"
    [] valid /\ ~Registered(id)   -> "accepted"

\* A session not generated before; sessions are numbered as they are drawn.
Fresh(s) == s \notin issued /\ \A t \in Session : t < s => t \in issued

\* MUTANT of AddClient: insert_or_assign instead of find and emplace.
AddClientOverwrites(id, cookie, valid, s) ==
  /\ IF valid
     THEN /\ Fresh(s)
          /\ m_clients' = [x \in DOMAIN m_clients \cup {id} |->
                             IF x = id
                             THEN [id |-> id, cookie |-> cookie, session |-> s]
                             ELSE m_clients[x]]
          /\ issued' = issued \cup {s}
     ELSE UNCHANGED <<m_clients, issued>>

\* s is the session generated if the client is accepted.
AddClient(id, cookie, valid, s) ==
  /\ IF AddStatus(id, valid) = "accepted"
     THEN /\ Fresh(s)
          /\ m_clients' = [x \in DOMAIN m_clients \cup {id} |->
                             IF x = id
                             THEN [id |-> id, cookie |-> cookie, session |-> s]
                             ELSE m_clients[x]]
          /\ issued' = issued \cup {s}
     ELSE UNCHANGED <<m_clients, issued>>

RemClient(id) ==
  /\ m_clients' = [x \in DOMAIN m_clients \ {id} |-> m_clients[x]]
  /\ UNCHANGED issued
=============================================================================
