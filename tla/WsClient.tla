------------------------------ MODULE WsClient ------------------------------
(***************************************************************************)
(* A websocket client of Bybit: run_forever, one connection after another, *)
(* each with a reader task, a ping task and a handshake.  The public and   *)
(* the private client differ in the authentication only; a behaviour is    *)
(* that of one of them.  What the messages are, and what the handler does  *)
(* with them, belongs to the module that composes this one.                *)
(*                                                                         *)
(* The server and the network (external): a link may be closed in order,   *)
(* may break, or may go silent, and then breaks once something is sent     *)
(* over it.  Lengths of time are left out, and so is the delay between two *)
(* attempts: it doubles up to 30 s and, as _run_once returns normally only *)
(* when the client stops, never shrinks again.                             *)
(***************************************************************************)
EXTENDS Naturals, Sequences

VARIABLES
    private,    \* the private client, or the public one
    phase,      \* where run_forever is
    stop,       \* _stop_event
    link,       \* the websocket of the current _run_once
    kept,       \* _connection is not None
    subscribed, \* the server sends the topics over this link
    inbox,      \* messages the link has received and the reader not
    reader,     \* the task of _read_loop
    ping,       \* the task of _ping_loop
    health      \* the connection state last emitted

clientVars == <<private, phase, stop, link, kept, subscribed, inbox, reader, ping, health>>

ClientTypeOK(Message) ==
    /\ private \in BOOLEAN /\ stop \in BOOLEAN /\ kept \in BOOLEAN
    /\ subscribed \in BOOLEAN /\ health \in BOOLEAN
    /\ phase \in {"connect", "auth", "subscribe", "stream", "backoff", "ended"}
    /\ link \in {"none", "open", "silent", "closed", "broken"}
    /\ inbox \in Seq(Message)
    /\ reader \in {"none", "running", "returned", "raised"}
    /\ ping \in {"none", "running", "returned", "raised"}

ClientInit ==
    /\ private \in BOOLEAN
    /\ phase = "connect"
    /\ stop = FALSE
    /\ link = "none"
    /\ kept = FALSE
    /\ subscribed = FALSE
    /\ inbox = <<>>
    /\ reader = "none"
    /\ ping = "none"
    /\ health = FALSE

Up == link \in {"open", "silent"}

-----------------------------------------------------------------------------
(***************************************************************************)
(* Connecting and the handshake, up to asyncio.wait of _run_once.          *)
(***************************************************************************)

\* The reader of a failed handshake is not cancelled and nothing waits for it.
\* Assumption: it has come to its end when the backoff of a second or more is
\* over; its link was closed before, and it has only to read what came over it.
Connect ==
    /\ phase = "connect"
    /\ reader # "running"
    /\ link' = "open"
    /\ kept' = TRUE
    /\ reader' = "running"
    /\ ping' = "none"
    /\ phase' = IF private THEN "auth" ELSE "subscribe"
    /\ UNCHANGED <<private, stop, subscribed, inbox, health>>

ConnectFails ==
    /\ phase = "connect"
    /\ phase' = "backoff"
    /\ UNCHANGED <<private, stop, link, kept, subscribed, inbox, reader, ping, health>>

\* The reader hands the answer to _authenticate.
AuthAcked ==
    /\ phase = "auth"
    /\ link = "open" /\ reader = "running"
    /\ phase' = "subscribe"
    /\ UNCHANGED <<private, stop, link, kept, subscribed, inbox, reader, ping, health>>

\* External: the server takes the subscription and its answer is on the way.
ServerSubscribes ==
    /\ phase = "subscribe"
    /\ link = "open"
    /\ ~subscribed
    /\ subscribed' = TRUE
    /\ UNCHANGED <<private, phase, stop, link, kept, inbox, reader, ping, health>>

SubscribeAcked ==
    /\ phase = "subscribe"
    /\ subscribed /\ reader = "running"
    /\ phase' = "stream"
    /\ ping' = "running"
    /\ health' = TRUE
    /\ UNCHANGED <<private, stop, link, kept, subscribed, inbox, reader>>

\* Authentication or subscription: no answer in time, a refusal, or a link
\* that fails under it.  Leaving the connection closes the link; the state
\* behind asyncio.wait is not reached, and a running reader is left to itself.
HandshakeFails ==
    /\ phase \in {"auth", "subscribe"}
    /\ phase' = "backoff"
    /\ link' = IF Up THEN "closed" ELSE link
    /\ subscribed' = FALSE
    /\ inbox' = IF reader = "running" THEN inbox ELSE <<>>
    /\ UNCHANGED <<private, stop, kept, reader, ping, health>>

-----------------------------------------------------------------------------
(***************************************************************************)
(* The two tasks of a connection.                                          *)
(***************************************************************************)

\* External: messages reach the client.
Receive(messages) ==
    /\ link = "open" /\ subscribed
    /\ inbox' = inbox \o messages
    /\ UNCHANGED <<private, phase, stop, link, kept, subscribed, reader, ping, health>>

\* The reader awaits the handler; what it has received it reads to the end
\* even after the link is closed.
Handle(message) ==
    /\ reader = "running"
    /\ inbox # <<>>
    /\ message = Head(inbox)
    /\ inbox' = Tail(inbox)
    /\ UNCHANGED <<private, phase, stop, link, kept, subscribed, reader, ping, health>>

\* A link closed in order ends the iteration, a broken one raises.
ReaderEnds ==
    /\ reader = "running"
    /\ inbox = <<>>
    /\ link \in {"closed", "broken"}
    /\ reader' = IF link = "closed" THEN "returned" ELSE "raised"
    /\ UNCHANGED <<private, phase, stop, link, kept, subscribed, inbox, ping, health>>

\* The normalizer or the handler raises on what comes over the link.
HandlerRaises ==
    /\ reader = "running"
    /\ link = "open" /\ subscribed
    /\ reader' = "raised"
    /\ UNCHANGED <<private, phase, stop, link, kept, subscribed, inbox, ping, health>>

\* Mutant of PingFails: a link closed in order is left to the reader.
PingFailsIfBroken ==
    /\ ping = "running"
    /\ link = "broken"
    /\ ping' = "raised"
    /\ UNCHANGED <<private, phase, stop, link, kept, subscribed, inbox, reader, health>>

\* The next send finds the link closed or broken.
PingFails ==
    /\ ping = "running"
    /\ link \in {"closed", "broken"}
    /\ ping' = "raised"
    /\ UNCHANGED <<private, phase, stop, link, kept, subscribed, inbox, reader, health>>

\* The stop event is seen between a send and the next sleep.
PingReturns ==
    /\ ping = "running"
    /\ Up /\ stop
    /\ ping' = "returned"
    /\ UNCHANGED <<private, phase, stop, link, kept, subscribed, inbox, reader, health>>

Raised == "raised" \in {reader, ping}

Cancelled(task) == IF task = "running" THEN "none" ELSE task

\* asyncio.wait returns with the first exception, which _run_once raises
\* again before it resets _connection and reports the disconnect.
ConnectionFails ==
    /\ phase = "stream"
    /\ Raised
    /\ phase' = "backoff"
    /\ link' = IF Up THEN "closed" ELSE link
    /\ subscribed' = FALSE
    /\ reader' = Cancelled(reader)
    /\ ping' = Cancelled(ping)
    /\ inbox' = <<>>
    /\ UNCHANGED <<private, stop, kept, health>>

\* Both tasks have returned: the only way to the code behind the wait.
ConnectionEnds ==
    /\ phase = "stream"
    /\ reader = "returned" /\ ping = "returned"
    /\ phase' = IF stop THEN "ended" ELSE "connect"
    /\ link' = "none"
    /\ subscribed' = FALSE
    /\ kept' = FALSE
    /\ health' = FALSE
    /\ UNCHANGED <<private, stop, inbox, reader, ping>>

BackoffOver ==
    /\ phase = "backoff"
    /\ phase' = IF stop THEN "ended" ELSE "connect"
    /\ UNCHANGED <<private, stop, link, kept, subscribed, inbox, reader, ping, health>>

-----------------------------------------------------------------------------
(***************************************************************************)
(* The network and the shutdown of the runtime.                            *)
(***************************************************************************)

ServerCloses ==
    /\ Up
    /\ link' = "closed"
    /\ subscribed' = FALSE
    /\ UNCHANGED <<private, phase, stop, kept, inbox, reader, ping, health>>

LinkBreaks ==
    /\ link = "open"
    /\ link' = "broken"
    /\ subscribed' = FALSE
    /\ UNCHANGED <<private, phase, stop, kept, inbox, reader, ping, health>>

GoesSilent ==
    /\ link = "open"
    /\ link' = "silent"
    /\ UNCHANGED <<private, phase, stop, kept, subscribed, inbox, reader, ping, health>>

\* What the ping sends is not acknowledged, and the system gives the link up.
SilentBreaks ==
    /\ link = "silent" /\ ping = "running"
    /\ link' = "broken"
    /\ subscribed' = FALSE
    /\ UNCHANGED <<private, phase, stop, kept, inbox, reader, ping, health>>

\* close(): the connection it knows is closed, which may be a past one.
Close ==
    /\ ~stop
    /\ stop' = TRUE
    /\ link' = IF kept /\ Up THEN "closed" ELSE link
    /\ UNCHANGED <<private, phase, kept, subscribed, inbox, reader, ping, health>>

\* The runtime cancels the task of run_forever: a link is closed on the way
\* out, the reader and the ping are left to find that.
CancelClient ==
    /\ stop
    /\ phase # "ended"
    /\ phase' = "ended"
    /\ link' = IF Up THEN "closed" ELSE link
    /\ subscribed' = FALSE
    /\ UNCHANGED <<private, stop, kept, inbox, reader, ping, health>>

-----------------------------------------------------------------------------
Handshake == Connect \/ ConnectFails \/ AuthAcked \/ SubscribeAcked \/ HandshakeFails

Network == ServerSubscribes \/ ServerCloses \/ LinkBreaks \/ GoesSilent \/ SilentBreaks

Tasks == ReaderEnds \/ HandlerRaises \/ PingFails \/ PingReturns

Shutdown == Close \/ CancelClient

\* Every step of the client but the receipt and the handling of a message.
ClientStep ==
    Handshake \/ Network \/ Tasks \/ ConnectionFails \/ ConnectionEnds \/ BackoffOver
        \/ Shutdown

Live == phase = "stream" /\ link = "open" /\ subscribed

=============================================================================
