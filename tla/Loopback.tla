-------------------------------- MODULE Loopback --------------------------------
(***************************************************************************)
(* examples/udp_loopback.rs: a client thread and a server thread, each     *)
(* with an endpoint and a UDP socket.  The client sends one ping per round *)
(* and waits for a reply or its read timeout; the server echoes whatever   *)
(* its socket holds and stops when the client clears a shared flag.        *)
(*                                                                         *)
(* A step of a thread is the code between two of its accesses to what the  *)
(* threads share: the sockets, the flag and the join.  The server sends    *)
(* one echo per step; the client's queue never holds more than the one     *)
(* datagram of its ping.  Time is counted in rounds.  A socket keeps the   *)
(* order of its datagrams, as loopback does, and may lose any of them.     *)
(***************************************************************************)
EXTENDS Statistics

CONSTANTS
    Rounds,     \* NUM_ROUNDS: 100
    MaxLost,    \* bound: datagrams lost on the way to a socket
    MaxErrors   \* bound: failures of recv other than the read timeout

ASSUME LoopbackAssumption ==
    /\ Rounds \in Nat \ {0} /\ {MaxLost, MaxErrors} \subseteq Nat
    /\ IncomingSize >= Rounds /\ OutgoingSize >= Rounds     \* the default queues hold 256
    /\ 1 <= FragmentAbove                                   \* a ping is not fragmented
    /\ Rounds <= Half - ReceivedSize

VARIABLES
    client, server,     \* the endpoints
    cpc, spc,           \* where the threads are
    round,              \* the client's loop counter
    reply,              \* got_reply: NoReply, or the ping the reply echoes
    rtts,               \* one entry per round with a reply: [round, ping]
    timeouts,           \* rounds that ran into the read timeout
    echo_payloads,      \* the server's scratch storage, less what it has echoed
    echoes,             \* history: the pings echoed, in order; its length is echo_count
    running,            \* the flag as the client stored it
    visible,            \* the flag as the server's relaxed loads see it
    toServer, toClient, \* the datagrams each socket holds
    lost, errors        \* how often the bounds were used

clientVars == <<client, cpc, round, reply, rtts, timeouts>>
serverVars == <<server, spc, echo_payloads, echoes>>
vars == <<clientVars, serverVars, running, visible, toServer, toClient, lost, errors>>

PingLen == 1

NoReply == -1

PingOf(payload) == payload[1].id

Init ==
    /\ client = NewEndpoint /\ server = NewEndpoint
    /\ cpc = "send" /\ spc = "load"
    /\ round = 0 /\ reply = NoReply /\ rtts = << >> /\ timeouts = 0
    /\ echo_payloads = << >> /\ echoes = << >>
    /\ running = TRUE /\ visible = TRUE
    /\ toServer = << >> /\ toClient = << >>
    /\ lost = 0 /\ errors = 0

\* send_to() of the datagrams: the socket gets some of them, in order.
SendTo(socket, datagrams) ==
    \E through \in SUBSET (DOMAIN datagrams) :
        LET n == Len(datagrams) - Cardinality(through)
        IN  /\ lost + n <= MaxLost
            /\ lost' = lost + n
            /\ socket' = socket \o [i \in 1 .. Cardinality(through) |->
                                        datagrams[Ascending(through)[i]]]

--------------------------------------------------------------------------------
(* The client thread *)

ClientSend ==
    /\ cpc = "send"
    /\ \E c \in {SendPacket(client, round, PingLen)} :
           client' = DrainOutgoing(c) /\ SendTo(toServer, c.outgoing)
    /\ reply' = NoReply
    /\ cpc' = "wait"
    /\ UNCHANGED <<round, rtts, timeouts, serverVars, running, visible, toClient, errors>>

\* Bug: the payload is looked at and left in the queue.
ClientRecvKeepsPayload ==
    /\ cpc = "wait" /\ toClient # << >>
    /\ \E c \in {ReceivePacket(client, Head(toClient))} :
           /\ client' = DrainOutgoing(c)
           /\ SendTo(toServer, c.outgoing)
           /\ reply' = IF c.incoming = << >> THEN NoReply
                       ELSE echoes[PingOf(c.incoming[1].payload) + 1]
           /\ cpc' = IF c.incoming = << >> THEN "wait" ELSE "end"
    /\ toClient' = Tail(toClient)
    /\ UNCHANGED <<round, rtts, timeouts, serverVars, running, visible, errors>>

\* Any payload ends the wait, whichever ping it echoes.  The outgoing queue is
\* drained again.
ClientRecv ==
    /\ cpc = "wait" /\ toClient # << >>
    /\ \E c \in {ReceivePacket(client, Head(toClient))} :
           /\ client' = DrainOutgoing(DrainIncoming(c))
           /\ SendTo(toServer, c.outgoing)
           /\ reply' = IF c.incoming = << >> THEN NoReply
                       ELSE echoes[PingOf(c.incoming[1].payload) + 1]
           /\ cpc' = IF c.incoming = << >> THEN "wait" ELSE "end"
    /\ toClient' = Tail(toClient)
    /\ UNCHANGED <<round, rtts, timeouts, serverVars, running, visible, errors>>

\* The read timeout: nothing came for 50 ms.
ClientTimeout ==
    /\ cpc = "wait" /\ toClient = << >>
    /\ timeouts' = timeouts + 1
    /\ cpc' = "end"
    /\ UNCHANGED <<client, round, reply, rtts, serverVars, running, visible,
                   toServer, toClient, lost, errors>>

\* Another error of recv also ends the round.
ClientError ==
    /\ cpc = "wait"
    /\ errors < MaxErrors /\ errors' = errors + 1
    /\ cpc' = "end"
    /\ UNCHANGED <<client, round, reply, rtts, timeouts, serverVars, running, visible,
                   toServer, toClient, lost>>

\* Bug: a round too many.
ClientEndRoundLate ==
    /\ cpc = "end"
    /\ rtts' = IF reply = NoReply THEN rtts
               ELSE Append(rtts, [round |-> round, ping |-> reply])
    /\ \E c \in {ClearAcks(client)} : client' = UpdateEndpoint(c, round)
    /\ round' = round + 1
    /\ cpc' = IF round < Rounds THEN "send" ELSE "stop"
    /\ UNCHANGED <<reply, timeouts, serverVars, running, visible,
                   toServer, toClient, lost, errors>>

\* The reply is counted; clear_acks(), update() with the time the round started,
\* and the next round.
ClientEndRound ==
    /\ cpc = "end"
    /\ rtts' = IF reply = NoReply THEN rtts
               ELSE Append(rtts, [round |-> round, ping |-> reply])
    /\ \E c \in {ClearAcks(client)} : client' = UpdateEndpoint(c, round)
    /\ round' = round + 1
    /\ cpc' = IF round + 1 < Rounds THEN "send" ELSE "stop"
    /\ UNCHANGED <<reply, timeouts, serverVars, running, visible,
                   toServer, toClient, lost, errors>>

ClientStop ==
    /\ cpc = "stop"
    /\ running' = FALSE
    /\ cpc' = "join"
    /\ UNCHANGED <<client, round, reply, rtts, timeouts, serverVars, visible,
                   toServer, toClient, lost, errors>>

\* server_handle.join()
ClientJoin ==
    /\ cpc = "join" /\ spc = "stopped"
    /\ cpc' = "done"
    /\ UNCHANGED <<client, round, reply, rtts, timeouts, serverVars, running, visible,
                   toServer, toClient, lost, errors>>

ClientStep ==
    \/ ClientSend \/ ClientRecv \/ ClientTimeout \/ ClientError
    \/ ClientEndRound \/ ClientStop \/ ClientJoin

--------------------------------------------------------------------------------
(* The server thread *)

\* Bug: the flag is not looked at.
ServerLoadIgnoresFlag ==
    /\ spc = "load"
    /\ spc' = "recv"
    /\ UNCHANGED <<clientVars, server, echo_payloads, echoes, running, visible,
                   toServer, toClient, lost, errors>>

ServerLoad ==
    /\ spc = "load"
    /\ spc' = IF visible THEN "recv" ELSE "stopped"
    /\ UNCHANGED <<clientVars, server, echo_payloads, echoes, running, visible,
                   toServer, toClient, lost, errors>>

ServerRecv ==
    /\ spc = "recv" /\ toServer # << >>
    /\ server' = ReceivePacket(server, Head(toServer))
    /\ toServer' = Tail(toServer)
    /\ UNCHANGED <<clientVars, spc, echo_payloads, echoes, running, visible,
                   toClient, lost, errors>>

\* The read timeout: nothing came for 2 ms.
ServerTimeout ==
    /\ spc = "recv" /\ toServer = << >>
    /\ spc' = "collect"
    /\ UNCHANGED <<clientVars, server, echo_payloads, echoes, running, visible,
                   toServer, toClient, lost, errors>>

\* Bug: an error ends the thread and not just the inner loop.
ServerErrorReturns ==
    /\ spc = "recv"
    /\ errors < MaxErrors /\ errors' = errors + 1
    /\ spc' = "stopped"
    /\ UNCHANGED <<clientVars, server, echo_payloads, echoes, running, visible,
                   toServer, toClient, lost>>

ServerError ==
    /\ spc = "recv"
    /\ errors < MaxErrors /\ errors' = errors + 1
    /\ spc' = "collect"
    /\ UNCHANGED <<clientVars, server, echo_payloads, echoes, running, visible,
                   toServer, toClient, lost>>

\* drain_incoming() into the scratch storage.
ServerCollect ==
    /\ spc = "collect"
    /\ echo_payloads' =
           [i \in DOMAIN server.incoming |-> PingOf(server.incoming[i].payload)]
    /\ server' = DrainIncoming(server)
    /\ spc' = "echo"
    /\ UNCHANGED <<clientVars, echoes, running, visible, toServer, toClient, lost, errors>>

\* send_packet() of the next payload.
ServerEcho ==
    /\ spc = "echo" /\ echo_payloads # << >>
    /\ server' = SendPacket(server, Len(echoes), PingLen)
    /\ echoes' = Append(echoes, Head(echo_payloads))
    /\ echo_payloads' = Tail(echo_payloads)
    /\ UNCHANGED <<clientVars, spc, running, visible, toServer, toClient, lost, errors>>

\* drain_outgoing(), one datagram: a call of the closure, which does a send_to().
\* The client runs on between two of them.
ServerSend ==
    /\ spc = "echo" /\ echo_payloads = << >>
    /\ server.outgoing # << >>
    /\ SendTo(toClient, <<Head(server.outgoing)>>)
    /\ server' = [server EXCEPT !.outgoing = Tail(@)]
    /\ UNCHANGED <<clientVars, spc, echo_payloads, echoes, running, visible,
                   toServer, errors>>

\* clear_acks() and update().
ServerEndPass ==
    /\ spc = "echo" /\ echo_payloads = << >>
    /\ server.outgoing = << >>
    /\ \E s \in {ClearAcks(server)} : server' = UpdateEndpoint(s, round)
    /\ spc' = "load"
    /\ UNCHANGED <<clientVars, echo_payloads, echoes, running, visible,
                   toServer, toClient, lost, errors>>

ServerStep ==
    \/ ServerLoad \/ ServerRecv \/ ServerTimeout \/ ServerError
    \/ ServerCollect \/ ServerEcho \/ ServerSend \/ ServerEndPass

\* The relaxed store reaches the server.
FlagVisible ==
    /\ visible # running
    /\ visible' = running
    /\ UNCHANGED <<clientVars, serverVars, running, toServer, toClient, lost, errors>>

Finished == cpc = "done" /\ UNCHANGED vars

Next == ClientStep \/ ServerStep \/ FlagVisible \/ Finished

\* ENABLED ClientStep and ENABLED ServerStep, written out.
ClientReady == cpc \in {"send", "wait", "end", "stop"} \/ (cpc = "join" /\ spc = "stopped")

ServerReady == spc # "stopped"

\* Both threads keep being scheduled: weak fairness of their steps.  A relaxed
\* store becomes visible in finite time.  There is no fairness towards the
\* network or about errors.
Fairness ==
    /\ []<>~ClientReady \/ []<><<ClientStep>>_vars
    /\ []<>~ServerReady \/ []<><<ServerStep>>_vars
    /\ WF_vars(FlagVisible)

Spec == Init /\ [][Next]_vars /\ Fairness

--------------------------------------------------------------------------------

TypeOK ==
    /\ cpc \in {"send", "wait", "end", "stop", "join", "done"}
    /\ spc \in {"load", "recv", "collect", "echo", "stopped"}
    /\ round \in 0 .. Rounds /\ timeouts \in 0 .. Rounds
    /\ reply \in {NoReply} \cup 0 .. (Rounds - 1)
    /\ running \in BOOLEAN /\ visible \in BOOLEAN
    /\ ToSet(echo_payloads) \cup ToSet(echoes) \subseteq 0 .. (Rounds - 1)

\* udp_loopback.rs:17 and 138, "Wait for the echoed reply" and "measures RTT": a
\* round that got a reply measured the echo of its own ping.  (The code does not
\* keep this: LateReply.cfg.)
ReplyIsOwn == \A i \in DOMAIN rtts : rtts[i].ping = rtts[i].round

\* How wrong a measured reply can be: a reply lags by no more rounds than went
\* unanswered before it, so that as long as no round timed out or failed each
\* measures its own ping, and no ping is measured twice or before its round.
ReplyLagBounded ==
    \A i \in DOMAIN rtts :
        LET unanswered == rtts[i].round - (i - 1)
        IN  /\ rtts[i].ping \in (rtts[i].round - unanswered) .. rtts[i].round
            /\ \A j \in 1 .. (i - 1) : rtts[j].ping < rtts[i].ping

\* A ping the client's endpoint counts as acknowledged was read and echoed by
\* the server's application, although the endpoint records it, and could
\* acknowledge it, before the application sees it: the server sends nothing
\* between reading its socket and draining its incoming queue.
AckedWasEchoed ==
    \A i \in Sent!Slots : LET entry == client.sent.entries[i] IN
        entry # NoEntry /\ entry.data.acked => entry.data.id \in ToSet(echoes)

\* Whatever is lost, late or fails, no round waits for ever, and the server sees
\* the flag and ends, so that join() returns.
Terminates == <>(cpc = "done")

\* A ping the server takes from its socket is echoed: whatever fails and
\* whenever the flag is cleared, the pass that took it is finished.
PingEchoed ==
    \A n \in 0 .. (Rounds - 1) :
        (\E i \in DOMAIN server.incoming : PingOf(server.incoming[i].payload) = n)
            ~> n \in ToSet(echoes)

================================================================================
