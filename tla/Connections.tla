----------------------------- MODULE Connections -----------------------------
(* The server's side of the dashboards' sockets: ConnectionManager and the    *)
(* /ws endpoint.  Every reconnect of a client is a new socket.  A broadcast is *)
(* work of the task that calls it: it sends to the sockets that were           *)
(* registered when it began, one await after the other, in any order.          *)
EXTENDS Naturals, Sequences

CONSTANTS
    Clients,     \* open dashboards
    MaxSockets,  \* bound: sockets of one dashboard
    Tasks        \* tasks of the server that broadcast

ASSUME SocketsAssumption == MaxSockets \in Nat

VARIABLES
    link,        \* each socket's transport
    endpoint,    \* where websocket_endpoint is for each socket
    registered,  \* ConnectionManager._connections
    inbox,       \* each client's messages, received and not yet dispatched
    sending      \* the broadcast each task is in

connectionVars == <<link, endpoint, registered, inbox, sending>>

Sockets == Clients \X (1..MaxSockets)

Silent == [msg |-> <<>>, to |-> {}, dead |-> {}]

Idle(t) == sending[t].to = {}

ConnectionsInit ==
    /\ link = [k \in Sockets |-> "unused"]
    /\ endpoint = [k \in Sockets |-> "none"]
    /\ registered = {}
    /\ inbox = [c \in Clients |-> <<>>]
    /\ sending = [t \in Tasks |-> Silent]

(* The message is one more for the socket's client. *)
Push(k, m) == inbox' = [inbox EXCEPT ![k[1]] = Append(@, m)]

(* broadcast begins: it sends to a copy of the registry. *)
Broadcast(t, m) ==
    sending' = [sending EXCEPT ![t] =
        IF registered = {} THEN Silent ELSE [msg |-> m, to |-> registered, dead |-> {}]]

(* The broadcast has no more to do with k; after the last send the sockets   *)
(* that refused leave the registry.                                          *)
SentTo(t, k, refused) ==
    LET b == [sending[t] EXCEPT !.to = @ \ {k}, !.dead = @ \union refused] IN
    IF b.to = {}
    THEN sending' = [sending EXCEPT ![t] = Silent] /\ registered' = registered \ b.dead
    ELSE sending' = [sending EXCEPT ![t] = b] /\ UNCHANGED registered

SendArrives(t, k) ==
    /\ k \in sending[t].to /\ link[k] = "up"
    /\ Push(k, sending[t].msg)
    /\ SentTo(t, k, {})
    /\ UNCHANGED <<link, endpoint>>

(* The peer is gone, but the transport still takes the message. *)
SendLost(t, k) ==
    /\ k \in sending[t].to /\ link[k] = "cut"
    /\ SentTo(t, k, {})
    /\ UNCHANGED <<link, endpoint, inbox>>

(* Variant: the first send that raises ends the broadcast. *)
SendRefused_Raises(t, k) ==
    /\ k \in sending[t].to /\ link[k] = "cut"
    /\ sending' = [sending EXCEPT ![t] = Silent]
    /\ registered' = registered \ {k}
    /\ UNCHANGED <<link, endpoint, inbox>>

(* The send raises; the other sockets get the message just the same. *)
SendRefused(t, k) ==
    /\ k \in sending[t].to /\ link[k] = "cut"
    /\ SentTo(t, k, {k})
    /\ UNCHANGED <<link, endpoint, inbox>>

Send(t, k) == SendArrives(t, k) \/ SendLost(t, k) \/ SendRefused(t, k)

(* manager.connect: accepted, and registered before anything is sent. *)
Accept(k) ==
    /\ link[k] = "unused"
    /\ link' = [link EXCEPT ![k] = "up"]
    /\ endpoint' = [endpoint EXCEPT ![k] = "greet"]
    /\ registered' = registered \union {k}
    /\ UNCHANGED <<inbox, sending>>

(* The endpoint sends the status as it is by now. *)
Greet(k, m) ==
    /\ endpoint[k] = "greet" /\ link[k] = "up"
    /\ Push(k, m)
    /\ endpoint' = [endpoint EXCEPT ![k] = "drain"]
    /\ UNCHANGED <<link, registered, sending>>

(* That send raises: the endpoint ends, and leaves the socket registered. *)
GreetFails(k) ==
    /\ endpoint[k] = "greet" /\ link[k] = "cut"
    /\ endpoint' = [endpoint EXCEPT ![k] = "gone"]
    /\ UNCHANGED <<link, registered, inbox, sending>>

(* receive_text raises WebSocketDisconnect. *)
Leave(k) ==
    /\ endpoint[k] = "drain" /\ link[k] = "cut"
    /\ endpoint' = [endpoint EXCEPT ![k] = "gone"]
    /\ registered' = registered \ {k}
    /\ UNCHANGED <<link, inbox, sending>>

(* The transport ends, with what was in it. *)
CutLink(k) ==
    /\ link[k] = "up"
    /\ link' = [link EXCEPT ![k] = "cut"]
    /\ inbox' = [inbox EXCEPT ![k[1]] = <<>>]
    /\ UNCHANGED <<endpoint, registered, sending>>

(* The server process ends: every link with it. *)
CutAll ==
    /\ link' = [k \in Sockets |-> IF link[k] = "up" THEN "cut" ELSE link[k]]
    /\ endpoint' = [k \in Sockets |-> IF endpoint[k] = "none" THEN "none" ELSE "gone"]
    /\ registered' = {}
    /\ inbox' = [c \in Clients |-> <<>>]
    /\ sending' = [t \in Tasks |-> Silent]
=============================================================================
