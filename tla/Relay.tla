------------------------------- MODULE Relay -------------------------------
(***************************************************************************)
(* What tun2socks.c promises for one connection, without its buffers,      *)
(* callbacks and jobs: a relay between the application and the SOCKS       *)
(* server with a bounded number of bytes under way in each direction.      *)
(* Bytes are dropped only when the end they are meant for is gone, and an  *)
(* end that is left alone is closed once it has been given everything.     *)
(***************************************************************************)
EXTENDS Integers

CONSTANTS
    UP_ROOM,    \* bytes the relay holds for the SOCKS server at most
    DOWN_ROOM   \* bytes the relay holds for the application at most

VARIABLES
    up,         \* bytes from the application, not yet taken by the SOCKS server
    down,       \* bytes from the SOCKS server, not yet acknowledged by the application
    app,        \* the application's connection: "open", "closed" or "aborted"
    socks       \* the connection to the SOCKS server: "open" or "gone"

vars == <<up, down, app, socks>>

Init == up = 0 /\ down = 0 /\ app = "open" /\ socks = "open"

AppSends(n) ==
    /\ app = "open" /\ socks = "open"
    /\ n \in 1..(UP_ROOM - up)
    /\ up' = up + n
    /\ UNCHANGED <<down, app, socks>>

(* Taking the last byte of an application that is gone ends the relay.      *)
SocksTakes(n) ==
    /\ socks = "open"
    /\ n \in 1..up
    /\ up' = up - n
    /\ socks' = IF app # "open" /\ up' = 0 THEN "gone" ELSE "open"
    /\ UNCHANGED <<down, app>>

SocksSends(n) ==
    /\ app = "open" /\ socks = "open"
    /\ n \in 1..(DOWN_ROOM - down)
    /\ down' = down + n
    /\ UNCHANGED <<up, app, socks>>

(* Once the server is gone, the last acknowledgement closes the             *)
(* application's connection in order.                                       *)
AppAcks(n) ==
    /\ app = "open"
    /\ n \in 1..down
    /\ down' = down - n
    /\ app' = IF socks = "gone" /\ down' = 0 THEN "closed" ELSE "open"
    /\ UNCHANGED <<up, socks>>

(* The application finishes or fails: what it had sent is still delivered.  *)
AppEnds ==
    /\ app = "open"
    /\ app' \in {"closed", "aborted"}
    /\ down' = 0
    /\ socks' = IF up = 0 THEN "gone" ELSE socks
    /\ UNCHANGED up

(* The server finishes or fails: what it had sent is still delivered, and   *)
(* with nothing left to deliver the application's connection is closed.     *)
SocksEnds ==
    /\ socks = "open"
    /\ socks' = "gone"
    /\ up' = 0
    /\ app' = IF app = "open" /\ down = 0 THEN "closed" ELSE app
    /\ UNCHANGED down

(* tun2socks is told to stop.                                               *)
Stops ==
    /\ app = "open" \/ socks = "open"
    /\ up' = 0 /\ down' = 0
    /\ app' = IF app = "open" THEN "aborted" ELSE app
    /\ socks' = "gone"

Next ==
    \/ \E n \in 1..UP_ROOM : AppSends(n) \/ SocksTakes(n)
    \/ \E n \in 1..DOWN_ROOM : SocksSends(n) \/ AppAcks(n)
    \/ AppEnds
    \/ SocksEnds
    \/ Stops

Safety == Init /\ [][Next]_vars

(* Every step that ends, or brings nearer the end of, an end left alone.    *)
Drains ==
    \/ app # "open" /\ (SocksEnds \/ \E n \in 1..UP_ROOM : SocksTakes(n))
    \/ socks = "gone" /\ (AppEnds \/ \E n \in 1..DOWN_ROOM : AppAcks(n))

Spec == Safety /\ WF_vars(Drains)
=============================================================================
