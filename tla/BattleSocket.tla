---------------------------- MODULE BattleSocket ----------------------------
(***************************************************************************)
(* Admission and heartbeat of the battle WebSocket (battle-websocket.mjs). *)
(* A connection counts against the limits from its upgrade until its close *)
(* event, also while it is being torn down and when its client is long     *)
(* gone; the heartbeat finds out.  The client, its network and the close   *)
(* events of the socket library are the environment.                       *)
(***************************************************************************)
EXTENDS Integers, FiniteSets

CONSTANTS Places,            \* names for connections, enough for MaximumConnections
          Bearers, Holder,   \* sessions and the user of each
          MaximumConnections, MaximumConnectionsPerUser,
          NoEntry

ASSUME HolderAssumption == DOMAIN Holder = Bearers
ASSUME PlacesAssumption == /\ MaximumConnections \in Nat \ {0} /\ MaximumConnectionsPerUser \in Nat \ {0}
                           /\ IsFiniteSet(Places) /\ MaximumConnections <= Cardinality(Places)

VARIABLES clients,   \* the Map of connections
          authentic, \* the sessions that authenticate still accepts
          listening  \* the upgrade handler is installed, the heartbeat runs
socketVars == <<clients, authentic, listening>>

Open == {c \in Places : clients[c] # NoEntry}
Of(user) == {c \in Open : Holder[clients[c].session] = user}

SocketInit == /\ clients = [c \in Places |-> NoEntry] /\ authentic = Bearers /\ listening = TRUE

NewConnection(session) == [session |-> session, alive |-> TRUE, quiet |-> TRUE, torn |-> FALSE, gone |-> FALSE]

\* upgrade: the session is checked and the places are counted; handleUpgrade
\* answers in the same turn of the event loop.
Upgrade(c, session) ==
  /\ listening /\ clients[c] = NoEntry /\ session \in authentic
  /\ Cardinality(Open) < MaximumConnections
  /\ Cardinality(Of(Holder[session])) < MaximumConnectionsPerUser
  /\ clients' = [clients EXCEPT ![c] = NewConnection(session)]
  /\ UNCHANGED <<authentic, listening>>

\* The client.
Speaks(c) == /\ c \in Open /\ ~clients[c].gone /\ ~clients[c].torn
             /\ clients' = [clients EXCEPT ![c].quiet = FALSE]
             /\ UNCHANGED <<authentic, listening>>
Pong(c) == /\ c \in Open /\ ~clients[c].gone /\ ~clients[c].torn
           /\ clients' = [clients EXCEPT ![c].alive = TRUE]
           /\ UNCHANGED <<authentic, listening>>
Vanishes(c) == /\ c \in Open
               /\ clients' = [clients EXCEPT ![c].gone = TRUE]
               /\ UNCHANGED <<authentic, listening>>
Leaves(c) == /\ c \in Open /\ ~clients[c].gone
             /\ clients' = [clients EXCEPT ![c].torn = TRUE]
             /\ UNCHANGED <<authentic, listening>>
Revoked(session) == /\ authentic' = authentic \ {session} /\ UNCHANGED <<clients, listening>>

\* The first command did not come within loginTimeoutMs.
FirstCommandTimeout(c) ==
  /\ c \in Open /\ clients[c].quiet
  /\ clients' = [clients EXCEPT ![c].torn = TRUE]
  /\ UNCHANGED <<authentic, listening>>
\* A write finds more than maximumBacklogBytes waiting, or the service ends it.
Destroy(c) == /\ c \in Open
              /\ clients' = [clients EXCEPT ![c].torn = TRUE]
              /\ UNCHANGED <<authentic, listening>>

Silent(c, failing) == ~clients[c].alive \/ clients[c].session \notin authentic \ failing
\* Mutant: the sign of life is asked for, but not noted as missing.
BeatenAlive(c, failing) ==
  IF Silent(c, failing) THEN [clients[c] EXCEPT !.torn = TRUE] ELSE clients[c]
\* An authentication that fails counts as a refusal.
Beaten(c, failing) ==
  IF Silent(c, failing) THEN [clients[c] EXCEPT !.torn = TRUE] ELSE [clients[c] EXCEPT !.alive = FALSE]
Heartbeat(failing) ==
  /\ listening
  /\ clients' = [c \in Places |-> IF c \in Open THEN Beaten(c, failing) ELSE NoEntry]
  /\ UNCHANGED <<authentic, listening>>

Beats == \E failing \in SUBSET Bearers : Heartbeat(failing)

\* The close event of a connection that was torn down.
CloseEvent(c) == /\ c \in Open /\ clients[c].torn
                 /\ clients' = [clients EXCEPT ![c] = NoEntry]
                 /\ UNCHANGED <<authentic, listening>>

Close == /\ listening /\ listening' = FALSE
         /\ clients' = [c \in Places |-> IF c \in Open THEN [clients[c] EXCEPT !.torn = TRUE] ELSE NoEntry]
         /\ UNCHANGED authentic

SocketNext ==
  \/ \E c \in Places, session \in Bearers : Upgrade(c, session)
  \/ \E c \in Places : \/ Speaks(c) \/ Pong(c) \/ Vanishes(c) \/ Leaves(c)
                       \/ FirstCommandTimeout(c) \/ Destroy(c) \/ CloseEvent(c)
  \/ \E session \in Bearers : Revoked(session)
  \/ Beats
  \/ Close

\* The heartbeat is an interval, the close event follows the end of the
\* connection's socket; nothing is assumed of the client.
SocketSpec == /\ SocketInit /\ [][SocketNext]_socketVars
              /\ WF_socketVars(Beats) /\ \A c \in Places : WF_socketVars(CloseEvent(c))

-----------------------------------------------------------------------------
\* A connection whose client is gone, or whose session is refused, gives its
\* place among the few of its user back, whatever the other connections do, and
\* so does every connection when the server closes.
PlacesAreGivenBack ==
  \A c \in Places :
    c \in Open /\ (clients[c].gone \/ clients[c].session \notin authentic \/ ~listening)
      ~> c \notin Open
=============================================================================
