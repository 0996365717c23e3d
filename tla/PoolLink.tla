------------------------------ MODULE PoolLink ------------------------------
(***************************************************************************)
(* What one IClient promises its IClientListener (interfaces IClient,      *)
(* IClientListener): the life of one connection to a pool as the owner     *)
(* sees it, without sockets, timers or messages.  StratumClient implements *)
(* it; PoolStrategy runs one per configured pool.                          *)
(*                                                                         *)
(* phase: "off" nothing under way, "lookup" the host is being resolved,    *)
(* "trying" there is a socket but no login yet, "up" logged in, "closing"  *)
(* the socket is being closed, "waiting" for the next attempt.  fails is   *)
(* BaseClient::m_failures: -1 when the owner wants no connection, else the *)
(* attempts that failed since the last login (MaxFails stands for more).   *)
(* "astray": another attempt was begun while there was a socket, by the    *)
(* owner's connect() or by the pool's client.reconnect.  Of such a client  *)
(* nothing is promised any more.                                           *)
(***************************************************************************)
EXTENDS Integers

CONSTANT MaxFails  \* bound of the count of failures

MaxFailsAssumption == MaxFails \in Nat \ {0}

VARIABLE link

Phases == {"off", "lookup", "trying", "up", "closing", "waiting", "astray"}
Links  == [phase : Phases, fails : -1 .. MaxFails]
NewLink == [phase |-> "off", fails |-> 0]
Idle    == [phase |-> "off", fails |-> -1]
Astray  == [phase |-> "astray", fails |-> 0]

Bump(n) == IF n < MaxFails THEN n + 1 ELSE n

HasSocket(l) == l.phase \in {"trying", "up", "closing"}

(* connect().                                                              *)
Started(l) == IF HasSocket(l) \/ l = Astray THEN Astray
              ELSE [phase |-> "lookup", fails |-> IF l.fails = -1 THEN 0 ELSE l.fails]

(* disconnect(): an open socket starts to close, a lookup goes on.         *)
Disconnected(l) ==
    IF l = Astray THEN Astray ELSE
    [phase |-> CASE HasSocket(l)         -> "closing"
                 [] l.phase = "lookup"   -> "lookup"
                 [] OTHER                -> "off",
     fails |-> -1]

LoggedIn(l) == [phase |-> IF l.phase = "closing" THEN "closing" ELSE "up", fails |-> 0]

(* The attempt or the connection is over: the owner is told onClose with   *)
(* the new count of failures.                                              *)
Lost(l) == IF l.fails = -1 THEN Idle
           ELSE [phase |-> "waiting", fails |-> Bump(l.fails)]

Start      == link' = Started(link)
Found      == link.phase = "lookup" /\ link' = [link EXCEPT !.phase = "trying"]
NotFound   == link.phase = "lookup" /\ link' = Lost(link)
Login      == link.phase \in {"trying", "closing"} /\ link' = LoggedIn(link)
Shut       == link.phase \in {"trying", "up"} /\ link' = [link EXCEPT !.phase = "closing"]
Closed     == link.phase = "closing" /\ link' = Lost(link)
Redirect   == HasSocket(link) /\ link' = Astray
Disconnect == link' = Disconnected(link)

Drop       == link' = IF HasSocket(link) \/ link = Astray THEN Disconnected(link) ELSE Idle

Init == link = NewLink
Next == \/ Found \/ NotFound \/ Login \/ Shut \/ Closed \/ Redirect   \* the client
        \/ Start \/ Disconnect \/ Drop        \* its owner, and a deadline of the client
Spec == Init /\ [][Next]_link
=============================================================================
