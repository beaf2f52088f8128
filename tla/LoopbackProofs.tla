---------------------------- MODULE LoopbackProofs ----------------------------
(***************************************************************************)
(* The two-thread loopback example, for every number of rounds, of losses  *)
(* and of errors and every configuration that its assumptions allow.       *)
(*                                                                         *)
(* The invariant follows the pings through two pipelines.  Upstream they   *)
(* are in the server's socket, then waiting in the server, then echoed;    *)
(* downstream an echo is in the outgoing queue, then in the client's       *)
(* socket, then answers a round.  In each, the numbers climb from the      *)
(* first stage to the last (Line): what is ahead was sent before.  What    *)
(* the server's endpoint has recorded is echoed or waiting, and nothing    *)
(* waits when the socket gets a datagram; so a header that travels vouches *)
(* for echoed pings only.                                                  *)
(***************************************************************************)
EXTENDS Loopback, EndpointLemmas

--------------------------------------------------------------------------------
(* Climbing sequences *)

\* The numbers of s climb, the i-th being at least n + i - 1.
Climbs(s, n) ==
    /\ s \in Seq(Nat)
    /\ \A i \in 1 .. Len(s) : n + i <= s[i] + 1
    /\ \A i, j \in 1 .. Len(s) : i < j => s[i] < s[j]

\* The numbers of s are below those of t.
Below(s, t) == \A i \in 1 .. Len(s), j \in 1 .. Len(t) : s[i] < t[j]

\* The numbers of s are below n.
Under(s, n) == \A i \in 1 .. Len(s) : s[i] < n

\* Of the numbers below n some are in s, then some in t, then some in u.
Line(s, t, u, n) ==
    /\ Climbs(s, 0) /\ Climbs(t, Len(s)) /\ Climbs(u, Len(s) + Len(t))
    /\ Below(s, t) /\ Below(s, u) /\ Below(t, u)
    /\ Under(s, n) /\ Under(t, n) /\ Under(u, n)
    /\ Len(s) + Len(t) + Len(u) <= n

\* q is what is left of u when some of it is lost.
Passes(u, q) ==
    /\ Len(q) <= Len(u)
    /\ \E f \in [1 .. Len(q) -> 1 .. Len(u)] :
           /\ \A i \in 1 .. Len(q) : q[i] = u[f[i]] /\ i <= f[i]
           /\ \A i, j \in 1 .. Len(q) : i < j => f[i] < f[j]

\* The elements of a sequence with one more.
LEMMA AppendElements ==
    ASSUME NEW T, NEW s \in Seq(T), NEW x \in T
    PROVE  /\ Append(s, x) \in Seq(T) /\ Len(s) \in Nat /\ Len(Append(s, x)) = Len(s) + 1
           /\ Append(s, x)[Len(s) + 1] = x
           /\ \A i \in 1 .. Len(s) : Append(s, x)[i] = s[i]
           /\ \A i \in 1 .. Len(Append(s, x)) :
                  \/ i = Len(s) + 1 /\ Append(s, x)[i] = x
                  \/ i \in 1 .. Len(s) /\ Append(s, x)[i] = s[i]
<1>1. /\ Append(s, x) \in Seq(T) /\ Len(s) \in Nat /\ Len(Append(s, x)) = Len(s) + 1
      /\ Append(s, x)[Len(s) + 1] = x
      /\ \A i \in 1 .. Len(s) : Append(s, x)[i] = s[i]
  OBVIOUS
<1>2. ASSUME NEW i \in 1 .. (Len(s) + 1) PROVE i = Len(s) + 1 \/ i \in 1 .. Len(s)
  BY <1>1
<1> QED BY <1>1, <1>2, Zenon

\* What is in a sequence with one more, and in one without the first.
LEMMA ElementsAppend ==
    ASSUME NEW T, NEW s \in Seq(T), NEW x \in T
    PROVE  ToSet(Append(s, x)) = ToSet(s) \cup {x}
<1> DEFINE a == Append(s, x)
<1>1. /\ Len(s) \in Nat /\ DOMAIN s = 1 .. Len(s) /\ DOMAIN a = 1 .. (Len(s) + 1)
      /\ a[Len(s) + 1] = x
      /\ \A i \in 1 .. Len(s) : a[i] = s[i]
      /\ \A i \in 1 .. (Len(s) + 1) : a[i] = x \/ (i \in 1 .. Len(s) /\ a[i] = s[i])
  BY AppendElements, LenProperties
<1> HIDE DEF a
<1>2. Len(s) + 1 \in DOMAIN a /\ 1 .. Len(s) \subseteq DOMAIN a
  BY <1>1
<1>3. ToSet(a) \subseteq ToSet(s) \cup {x}
  BY <1>1 DEF ToSet
<1>4. ToSet(s) \cup {x} \subseteq ToSet(a)
  BY <1>1, <1>2 DEF ToSet
<1> QED BY <1>3, <1>4 DEF a

LEMMA ElementsTail ==
    ASSUME NEW T, NEW s \in Seq(T), s # << >>
    PROVE  ToSet(s) = {Head(s)} \cup ToSet(Tail(s))
<1> DEFINE a == Tail(s)
<1>1. /\ Len(s) \in Nat \ {0} /\ DOMAIN s = 1 .. Len(s) /\ Head(s) = s[1]
      /\ DOMAIN a = 1 .. (Len(s) - 1) /\ \A i \in 1 .. (Len(s) - 1) : a[i] = s[i + 1]
  BY EmptySeq, HeadTailProperties, LenProperties
<1> HIDE DEF a
<1>2. 1 \in DOMAIN s /\ \A i \in DOMAIN a : i + 1 \in DOMAIN s /\ a[i] = s[i + 1]
  BY <1>1
<1>3. {s[1]} \cup ToSet(a) \subseteq ToSet(s)
  BY <1>2 DEF ToSet
<1>4. ASSUME NEW i \in DOMAIN s PROVE s[i] \in {s[1]} \cup ToSet(a)
  <2>1. CASE i = 1
    BY <2>1
  <2>2. CASE i # 1
    <3>1. i - 1 \in DOMAIN a /\ a[i - 1] = s[i]
      BY <1>1, <2>2
    <3> QED BY <3>1 DEF ToSet
  <2> QED BY <2>1, <2>2
<1> QED BY <1>1, <1>3, <1>4 DEF ToSet, a

\* A greater number at the end.
LEMMA ClimbsAppend ==
    ASSUME NEW s, NEW n \in Nat, Climbs(s, n), NEW x \in Nat, n + Len(s) <= x, Under(s, x)
    PROVE  /\ Append(s, x) \in Seq(Nat)
           /\ Len(Append(s, x)) = Len(s) + 1
           /\ Climbs(Append(s, x), n)
<1> DEFINE a == Append(s, x)
<1>1. /\ s \in Seq(Nat) /\ Len(s) \in Nat
      /\ \A i \in 1 .. Len(s) : s[i] \in Nat
  BY DEF Climbs
<1>2. /\ a \in Seq(Nat) /\ Len(a) = Len(s) + 1 /\ a[Len(s) + 1] = x
      /\ \A i \in 1 .. Len(s) : a[i] = s[i]
  BY <1>1, AppendElements
<1> HIDE DEF a
<1>3. ASSUME NEW i \in 1 .. Len(a) PROVE n + i <= a[i] + 1
  <2>1. CASE i \in 1 .. Len(s)
    <3>1. a[i] = s[i] /\ n + i <= s[i] + 1
      BY <1>2, <2>1 DEF Climbs
    <3> QED BY <3>1
  <2>2. CASE i = Len(s) + 1
    BY <1>1, <1>2, <2>2
  <2> QED BY <1>1, <1>2, <2>1, <2>2
<1>4. ASSUME NEW i \in 1 .. Len(a), NEW j \in 1 .. Len(a), i < j PROVE a[i] < a[j]
  <2>1. i \in 1 .. Len(s)
    BY <1>1, <1>2, <1>4
  <2>2. CASE j \in 1 .. Len(s)
    BY <1>2, <1>4, <2>1, <2>2 DEF Climbs
  <2>3. CASE j = Len(s) + 1
    BY <1>2, <2>1, <2>3 DEF Under
  <2> QED BY <1>1, <1>2, <2>2, <2>3
<1> QED BY <1>2, <1>3, <1>4 DEF Climbs, a

\* The rest of a climbing sequence.
LEMMA ClimbsTail ==
    ASSUME NEW s, NEW n \in Nat, Climbs(s, n), s # << >>
    PROVE  /\ Tail(s) \in Seq(Nat) /\ Len(Tail(s)) = Len(s) - 1 /\ Len(s) \in Nat \ {0}
           /\ \A i \in 1 .. Len(Tail(s)) : Tail(s)[i] = s[i + 1]
           /\ Climbs(Tail(s), n + 1)
           /\ Climbs(Tail(s), n)
           /\ Head(s) = s[1] /\ Head(s) \in Nat /\ n <= Head(s)
           /\ \A i \in 1 .. Len(Tail(s)) : Head(s) < Tail(s)[i]
<1> DEFINE a == Tail(s)
<1>1. /\ s \in Seq(Nat) /\ Len(s) \in Nat \ {0} /\ Head(s) = s[1]
      /\ \A i \in 1 .. Len(s) : s[i] \in Nat
  BY DEF Climbs
<1>2. /\ a \in Seq(Nat) /\ Len(a) = Len(s) - 1
      /\ \A i \in 1 .. Len(a) : a[i] = s[i + 1] /\ i + 1 \in 1 .. Len(s)
  BY <1>1
<1> HIDE DEF a
<1>3. 1 \in 1 .. Len(s) /\ n + 1 <= s[1] + 1
  BY <1>1 DEF Climbs
<1>4. ASSUME NEW i \in 1 .. Len(a) PROVE (n + 1) + i <= a[i] + 1 /\ s[1] < a[i]
  <2>1. a[i] = s[i + 1] /\ i + 1 \in 1 .. Len(s) /\ 1 < i + 1
    BY <1>2
  <2>2. n + (i + 1) <= s[i + 1] + 1 /\ s[1] < s[i + 1]
    BY <1>3, <2>1 DEF Climbs
  <2> QED BY <1>1, <2>1, <2>2
<1>5. ASSUME NEW i \in 1 .. Len(a), NEW j \in 1 .. Len(a), i < j PROVE a[i] < a[j]
  <2>1. i + 1 \in 1 .. Len(s) /\ j + 1 \in 1 .. Len(s) /\ i + 1 < j + 1
    BY <1>2, <1>5
  <2> QED BY <1>2, <2>1 DEF Climbs
<1>6. \A i \in 1 .. Len(a) : a[i] \in Nat
  BY <1>1, <1>2
<1> QED BY <1>1, <1>2, <1>3, <1>4, <1>5, <1>6 DEF Climbs, a

\* One more number at the end of the line.
LEMMA LineSend ==
    ASSUME NEW n \in Nat, NEW s, NEW t, NEW u, Line(s, t, u, n)
    PROVE  Line(s, t, u, n + 1) /\ Line(s, t, Append(u, n), n + 1)
<1>1. /\ s \in Seq(Nat) /\ t \in Seq(Nat) /\ u \in Seq(Nat)
      /\ Len(s) \in Nat /\ Len(t) \in Nat /\ Len(u) \in Nat
      /\ \A i \in 1 .. Len(s) : s[i] \in Nat /\ s[i] < n
      /\ \A i \in 1 .. Len(t) : t[i] \in Nat /\ t[i] < n
      /\ \A i \in 1 .. Len(u) : u[i] \in Nat /\ u[i] < n
  BY SMTT(30) DEF Line, Climbs, Under
<1>2. Line(s, t, u, n + 1)
  BY <1>1 DEF Line, Under
<1> DEFINE v == Append(u, n)
<1>3. /\ Len(v) = Len(u) + 1 /\ Climbs(v, Len(s) + Len(t))
  <2>1. Climbs(u, Len(s) + Len(t)) /\ Under(u, n) /\ (Len(s) + Len(t)) + Len(u) <= n
        /\ Len(s) + Len(t) \in Nat
    BY <1>1 DEF Line
  <2> QED BY <2>1, ClimbsAppend
<1>4. \A i \in 1 .. Len(v) : v[i] = n \/ (i \in 1 .. Len(u) /\ v[i] = u[i])
  BY <1>1, AppendElements
<1> HIDE DEF v
<1>5. Below(s, v) /\ Below(t, v)
  BY <1>1, <1>4 DEF Line, Below
<1>6. Under(v, n + 1)
  <2> SUFFICES ASSUME NEW i \in 1 .. Len(v) PROVE v[i] < n + 1
    BY DEF Under
  <2>1. CASE v[i] = n
    BY <2>1
  <2>2. CASE i \in 1 .. Len(u) /\ v[i] = u[i]
    BY <1>1, <2>2
  <2> QED BY <1>4, <2>1, <2>2
<1> QED BY <1>1, <1>2, <1>3, <1>5, <1>6 DEF Line, v

\* The first number of the last stage moves up, or gets lost.
LEMMA LineTake ==
    ASSUME NEW n \in Nat, NEW s, NEW t, NEW u, Line(s, t, u, n), u # << >>
    PROVE  Line(s, t, Tail(u), n) /\ Line(s, Append(t, Head(u)), Tail(u), n)
<1> DEFINE x == Head(u)
           v == Tail(u)
           w == Append(t, x)
<1>1. /\ s \in Seq(Nat) /\ t \in Seq(Nat) /\ u \in Seq(Nat)
      /\ Len(s) \in Nat /\ Len(t) \in Nat /\ Len(u) \in Nat
      /\ \A i \in 1 .. Len(s) : s[i] \in Nat /\ s[i] < n
      /\ \A i \in 1 .. Len(t) : t[i] \in Nat /\ t[i] < n
      /\ \A i \in 1 .. Len(u) : u[i] \in Nat /\ u[i] < n
  BY SMTT(30) DEF Line, Climbs, Under
<1>2. Climbs(u, Len(s) + Len(t)) /\ Len(s) + Len(t) \in Nat
  BY <1>1 DEF Line
<1>3. /\ v \in Seq(Nat) /\ Len(v) = Len(u) - 1 /\ Len(u) \in Nat \ {0}
      /\ \A i \in 1 .. Len(v) : v[i] = u[i + 1]
      /\ Climbs(v, Len(s) + Len(t) + 1) /\ Climbs(v, Len(s) + Len(t))
      /\ x = u[1] /\ x \in Nat /\ Len(s) + Len(t) <= x
      /\ \A i \in 1 .. Len(v) : x < v[i]
  BY <1>2, ClimbsTail
<1> HIDE DEF x, v
<1>4. /\ 1 \in 1 .. Len(u) /\ \A i \in 1 .. Len(v) : i + 1 \in 1 .. Len(u)
  BY <1>3
<1>5. Below(s, v) /\ Below(t, v) /\ Under(v, n) /\ Under(s, x) /\ Under(t, x) /\ x < n
  BY <1>1, <1>3, <1>4 DEF Line, Below, Under
<1>6. Line(s, t, v, n)
  BY <1>1, <1>3, <1>5 DEF Line
<1>7. w \in Seq(Nat) /\ Len(w) = Len(t) + 1 /\ Climbs(w, Len(s))
  BY <1>1, <1>3, <1>5, ClimbsAppend DEF Line
<1>8. \A i \in 1 .. Len(w) : w[i] = x \/ (i \in 1 .. Len(t) /\ w[i] = t[i])
  BY <1>1, <1>3, AppendElements
<1> HIDE DEF w
<1>9. Below(s, w) /\ Below(w, v) /\ Under(w, n)
  BY <1>1, <1>3, <1>5, <1>8 DEF Line, Below, Under
<1>10. Len(s) + Len(w) = Len(s) + Len(t) + 1
  BY <1>1, <1>7
<1> QED BY <1>1, <1>3, <1>5, <1>6, <1>7, <1>9, <1>10 DEF Line, w, v, x

\* The first number of the middle stage moves up, or gets lost.
LEMMA LineShift ==
    ASSUME NEW n \in Nat, NEW s, NEW t, NEW u, Line(s, t, u, n), t # << >>
    PROVE  Line(s, Tail(t), u, n) /\ Line(Append(s, Head(t)), Tail(t), u, n)
<1> DEFINE x == Head(t)
           v == Tail(t)
           w == Append(s, x)
<1>1. /\ s \in Seq(Nat) /\ t \in Seq(Nat) /\ u \in Seq(Nat)
      /\ Len(s) \in Nat /\ Len(t) \in Nat /\ Len(u) \in Nat
      /\ \A i \in 1 .. Len(s) : s[i] \in Nat /\ s[i] < n
      /\ \A i \in 1 .. Len(t) : t[i] \in Nat /\ t[i] < n
      /\ \A i \in 1 .. Len(u) : u[i] \in Nat /\ u[i] < n
  BY SMTT(30) DEF Line, Climbs, Under
<1>2. Climbs(t, Len(s))
  BY DEF Line
<1>3. /\ v \in Seq(Nat) /\ Len(v) = Len(t) - 1 /\ Len(t) \in Nat \ {0}
      /\ \A i \in 1 .. Len(v) : v[i] = t[i + 1]
      /\ Climbs(v, Len(s) + 1) /\ Climbs(v, Len(s))
      /\ x = t[1] /\ x \in Nat /\ Len(s) <= x
      /\ \A i \in 1 .. Len(v) : x < v[i]
  BY <1>1, <1>2, ClimbsTail
<1> HIDE DEF x, v
<1>4. /\ 1 \in 1 .. Len(t) /\ \A i \in 1 .. Len(v) : i + 1 \in 1 .. Len(t)
  BY <1>3
<1>5. /\ Below(s, v) /\ Below(v, u) /\ Under(v, n) /\ Under(s, x) /\ x < n
      /\ \A i \in 1 .. Len(u) : x < u[i]
  BY <1>1, <1>3, <1>4 DEF Line, Below, Under
<1>6. Climbs(u, Len(s) + Len(v))
  BY <1>1, <1>3, SMTT(30) DEF Line, Climbs
<1>7. Line(s, v, u, n)
  BY <1>1, <1>3, <1>5, <1>6 DEF Line
<1>8. w \in Seq(Nat) /\ Len(w) = Len(s) + 1 /\ Climbs(w, 0)
  BY <1>1, <1>3, <1>5, ClimbsAppend DEF Line
<1>9. \A i \in 1 .. Len(w) : w[i] = x \/ (i \in 1 .. Len(s) /\ w[i] = s[i])
  BY <1>1, <1>3, AppendElements
<1> HIDE DEF w
<1>10. Below(w, v) /\ Below(w, u) /\ Under(w, n)
  BY <1>1, <1>3, <1>5, <1>9 DEF Line, Below, Under
<1>11. Len(w) + Len(v) = Len(s) + Len(t)
  BY <1>1, <1>3, <1>8
<1> QED BY <1>1, <1>3, <1>5, <1>7, <1>8, <1>10, <1>11 DEF Line, w, v, x

--------------------------------------------------------------------------------
(* The invariant *)

\* The numbers of the packets in q.
Ids(q) == [i \in 1 .. Len(q) |-> q[i].id]

\* The pings in an incoming queue.
Pings(q) == [i \in 1 .. Len(q) |-> PingOf(q[i].payload)]

\* The pings sent.
Pinged == IF cpc \in {"wait", "end"} THEN round + 1 ELSE round

\* The pings that the server has read and not yet echoed.
Waiting == IF spc = "echo" THEN echo_payloads ELSE Pings(server.incoming)

\* The pings that the server has read.
Known == ToSet(echoes) \cup ToSet(Waiting)

\* The pings that the replies of the rounds so far echo.
Measures(r) == [i \in 1 .. Len(r) |-> r[i].ping]

Answers ==
    IF cpc = "end" /\ reply # NoReply THEN Append(Measures(rtts), reply) ELSE Measures(rtts)

\* d is one of the pings, or of the echoes, below n; it acknowledges packets in V.
Letter(d, n, V) ==
    /\ d \in Packets
    /\ Genuine(d)
    /\ d.payload = Payload(d.id, PingLen)
    /\ d.id < n
    /\ Vouches(d.header, V)

Letters(q, n, V) == q \in Seq(Packets) /\ \A i \in 1 .. Len(q) : Letter(q[i], n, V)

\* Received packets b are of those in W, all below n.
Recording(b, n, W) ==
    \E A \in SUBSET W, t \in 0 .. n :
        Top(0, A, t) /\ Remembers(b, t, A, Recent(0, n))

\* Where the threads are and what they keep there.
Control ==
    /\ cpc \in {"send", "wait", "end", "stop", "join", "done"}
    /\ spc \in {"load", "recv", "collect", "echo", "stopped"}
    /\ round \in 0 .. Rounds
    /\ cpc \in {"send", "wait", "end"} => round < Rounds
    /\ timeouts \in Nat
    /\ timeouts <= IF cpc = "end" THEN round + 1 ELSE round
    /\ reply \in {NoReply} \cup 0 .. (Rounds - 1)
    /\ cpc = "wait" => reply = NoReply
    /\ cpc = "end" => reply <= round
    /\ running \in BOOLEAN /\ visible \in BOOLEAN

\* What the queues of the endpoints hold between two steps.
Queues ==
    /\ client.incoming = << >> /\ client.outgoing = << >>
    /\ spc = "echo" => server.incoming = << >>
    /\ spc # "echo" => echo_payloads = << >> /\ server.outgoing = << >>

\* The pings climb from the echoes to the server's socket.
Upstream == Line(echoes, Waiting, Ids(toServer), Pinged)

\* The echoes climb from those that answered a round to the outgoing queue.
Downstream ==
    \E s \in [1 .. Len(Answers) -> 0 .. (Len(echoes) - 1)] :
        /\ Line(s, Ids(toClient), Ids(server.outgoing), Len(echoes))
        /\ \A i \in 1 .. Len(s) : Answers[i] = echoes[s[i] + 1]

\* A round is over when its reply is counted.
Replies ==
    /\ rtts \in Seq([round : Nat, ping : Nat])
    /\ \A i \in 1 .. Len(rtts) : rtts[i].ping <= rtts[i].round

\* The client's endpoint counts only echoed pings as acknowledged.
ClientTracks ==
    /\ Sound(client)
    /\ client.sequence = Pinged % SeqSpace
    /\ Tracks(client.sent, 0, Pinged, ToSet(echoes))
    /\ Recording(client.received, Len(echoes), 0 .. (Len(echoes) - 1))

\* The server's endpoint has recorded only pings that are echoed or wait.
ServerTracks ==
    /\ Sound(server)
    /\ server.sequence = Len(echoes) % SeqSpace
    /\ Tracks(server.sent, 0, Len(echoes), Nat)
    /\ Recording(server.received, Pinged, Known)

\* What travels is whole, and vouches for what its sender may vouch for.
Travelling ==
    /\ Letters(toServer, Pinged, 0 .. (Len(echoes) - 1))
    /\ Letters(toClient, Len(echoes), ToSet(echoes))
    /\ Letters(server.outgoing, Len(echoes), Known)

Inv ==
    /\ Control /\ Queues /\ Upstream /\ Downstream /\ Replies
    /\ ClientTracks /\ ServerTracks /\ Travelling

--------------------------------------------------------------------------------
(* Sequences of packets, of items and of replies, by their numbers *)

\* The numbers of a sequence of packets.
LEMMA IdsFacts ==
    ASSUME NEW q \in Seq(Packets)
    PROVE  /\ Len(q) \in Nat
           /\ Ids(q) \in Seq(Nat) /\ Len(Ids(q)) = Len(q)
           /\ \A i \in 1 .. Len(q) : q[i] \in Packets /\ q[i].id \in Nat /\ Ids(q)[i] = q[i].id
<1>1. Len(q) \in Nat /\ \A i \in 1 .. Len(q) : q[i] \in Packets
  OBVIOUS
<1>2. \A i \in 1 .. Len(q) : q[i].id \in Nat
  BY <1>1 DEF Packets
<1> QED BY <1>1, <1>2 DEF Ids

\* The numbers of a sequence with one more packet.
LEMMA IdsAppend ==
    ASSUME NEW q \in Seq(Packets), NEW d \in Packets
    PROVE  Append(q, d) \in Seq(Packets) /\ Ids(Append(q, d)) = Append(Ids(q), d.id)
<1> DEFINE r == Append(q, d)
           s == Append(Ids(q), d.id)
<1>1. d.id \in Nat
  BY DEF Packets
<1>2. /\ r \in Seq(Packets) /\ Len(r) = Len(q) + 1 /\ r[Len(q) + 1] = d
      /\ \A i \in 1 .. Len(q) : r[i] = q[i]
  BY AppendElements
<1>3. /\ s \in Seq(Nat) /\ Len(s) = Len(q) + 1 /\ s[Len(q) + 1] = d.id
      /\ \A i \in 1 .. Len(q) : s[i] = q[i].id
  BY <1>1, IdsFacts, AppendElements
<1> HIDE DEF r, s
<1>4. /\ Ids(r) \in Seq(Nat) /\ Len(Ids(r)) = Len(s)
      /\ \A i \in 1 .. Len(r) : Ids(r)[i] = r[i].id
  BY <1>2, <1>3, IdsFacts
<1>5. ASSUME NEW i \in 1 .. Len(s) PROVE Ids(r)[i] = s[i]
  <2>1. CASE i = Len(q) + 1
    BY <1>2, <1>3, <1>4, <2>1
  <2>2. CASE i \in 1 .. Len(q)
    BY <1>2, <1>3, <1>4, <2>2
  <2> QED BY <1>3, <2>1, <2>2, IdsFacts
<1>6. Ids(r) = s
  BY <1>3, <1>4, <1>5, SeqEqual
<1> QED BY <1>2, <1>6 DEF r, s

\* The numbers of a sequence without its first packet.
LEMMA IdsTail ==
    ASSUME NEW q \in Seq(Packets), q # << >>
    PROVE  /\ Tail(q) \in Seq(Packets) /\ Ids(Tail(q)) = Tail(Ids(q))
           /\ Len(Tail(q)) = Len(q) - 1 /\ 1 \in 1 .. Len(q)
           /\ \A i \in 1 .. Len(Tail(q)) : i + 1 \in 1 .. Len(q) /\ Tail(q)[i] = q[i + 1]
           /\ Ids(q) # << >> /\ Head(q) = q[1] /\ Head(Ids(q)) = q[1].id
<1> DEFINE r == Tail(q)
           s == Ids(q)
<1>1. Len(q) \in Nat \ {0} /\ Head(q) = q[1] /\ 1 \in 1 .. Len(q)
  BY EmptySeq
<1>2. /\ s \in Seq(Nat) /\ Len(s) = Len(q)
      /\ \A i \in 1 .. Len(q) : s[i] = q[i].id
  BY IdsFacts
<1>3. /\ r \in Seq(Packets) /\ Len(r) = Len(q) - 1
      /\ \A i \in 1 .. Len(r) : r[i] = q[i + 1]
  BY HeadTailProperties
<1> HIDE DEF r, s
<1>4. s # << >> /\ Head(s) = s[1]
  <2>1. Len(s) # 0
    BY <1>1, <1>2
  <2>2. s # << >>
    BY <2>1, EmptySeq
  <2> QED BY <2>2
<1>5. /\ Tail(s) \in Seq(Nat) /\ Len(Tail(s)) = Len(s) - 1
      /\ \A i \in 1 .. Len(Tail(s)) : Tail(s)[i] = s[i + 1]
  BY <1>2, <1>4, HeadTailProperties
<1>6. /\ Ids(r) \in Seq(Nat) /\ Len(Ids(r)) = Len(r)
      /\ \A i \in 1 .. Len(r) : Ids(r)[i] = r[i].id /\ i + 1 \in 1 .. Len(q)
  BY <1>1, <1>3, IdsFacts
<1>7. Len(Ids(r)) = Len(Tail(s)) /\ \A i \in 1 .. Len(Ids(r)) : Ids(r)[i] = Tail(s)[i]
  BY <1>1, <1>2, <1>3, <1>5, <1>6
<1>8. Ids(r) = Tail(s)
  BY ONLY <1>5, <1>6, <1>7, SeqEqual
<1> QED BY <1>1, <1>2, <1>3, <1>4, <1>6, <1>8 DEF r, s

\* The pings of an incoming queue with one more item.
LEMMA PingsAppend ==
    ASSUME NEW T, NEW q \in Seq(T), Pings(q) \in Seq(Nat), NEW x \in T,
           PingOf(x.payload) \in Nat
    PROVE  Pings(Append(q, x)) = Append(Pings(q), PingOf(x.payload))
<1> DEFINE r == Append(q, x)
           s == Append(Pings(q), PingOf(x.payload))
<1>1. Len(q) \in Nat /\ Len(Pings(q)) = Len(q)
      /\ \A i \in 1 .. Len(q) : Pings(q)[i] = PingOf(q[i].payload) /\ Pings(q)[i] \in Nat
  <2>1. Len(q) \in Nat /\ DOMAIN Pings(q) = 1 .. Len(q)
    BY DEF Pings
  <2>2. Len(Pings(q)) = Len(q)
    BY <2>1, LenProperties
  <2>3. \A i \in 1 .. Len(q) : Pings(q)[i] = PingOf(q[i].payload)
    BY DEF Pings
  <2> HIDE DEF r
  <2> QED BY <2>1, <2>2, <2>3, ElementOfSeq
<1>2. /\ r \in Seq(T) /\ Len(r) = Len(q) + 1 /\ r[Len(q) + 1] = x
      /\ \A i \in 1 .. Len(q) : r[i] = q[i]
  BY AppendElements
<1>3. /\ s \in Seq(Nat) /\ Len(s) = Len(q) + 1 /\ s[Len(q) + 1] = PingOf(x.payload)
      /\ \A i \in 1 .. Len(q) : s[i] = PingOf(q[i].payload)
  BY <1>1, AppendElements
<1> HIDE DEF r, s
<1>4. ASSUME NEW i \in 1 .. Len(r) PROVE PingOf(r[i].payload) = s[i]
  <2>1. CASE i = Len(q) + 1
    BY <1>2, <1>3, <2>1
  <2>2. CASE i \in 1 .. Len(q)
    BY <1>2, <1>3, <2>2
  <2> QED BY <1>1, <1>2, <2>1, <2>2
<1>5. \A i \in 1 .. Len(r) : Pings(r)[i] = s[i]
  BY <1>4 DEF Pings
<1>6. s \in [1 .. Len(r) -> Nat] /\ Pings(r) = [i \in 1 .. Len(r) |-> Pings(r)[i]]
  BY <1>2, <1>3, LenProperties DEF Pings
<1>7. Pings(r) = s
  BY <1>5, <1>6
<1> QED BY <1>7 DEF r, s

\* The replies with one more.
LEMMA MeasuresAppend ==
    ASSUME NEW T, NEW q \in Seq(T), Measures(q) \in Seq(Nat), NEW x \in T, x.ping \in Nat
    PROVE  Measures(Append(q, x)) = Append(Measures(q), x.ping)
<1> DEFINE r == Append(q, x)
           s == Append(Measures(q), x.ping)
<1>1. Len(q) \in Nat /\ Len(Measures(q)) = Len(q)
      /\ \A i \in 1 .. Len(q) : Measures(q)[i] = q[i].ping
  <2>1. Len(q) \in Nat /\ DOMAIN Measures(q) = 1 .. Len(q)
    BY DEF Measures
  <2>2. Len(Measures(q)) = Len(q)
    BY <2>1, LenProperties
  <2> QED BY <2>1, <2>2 DEF Measures
<1>2. /\ r \in Seq(T) /\ Len(r) = Len(q) + 1 /\ r[Len(q) + 1] = x
      /\ \A i \in 1 .. Len(q) : r[i] = q[i]
  BY AppendElements
<1>3. /\ s \in Seq(Nat) /\ Len(s) = Len(q) + 1 /\ s[Len(q) + 1] = x.ping
      /\ \A i \in 1 .. Len(q) : s[i] = q[i].ping
  BY <1>1, AppendElements
<1> HIDE DEF r, s
<1>4. ASSUME NEW i \in 1 .. Len(r) PROVE r[i].ping = s[i]
  <2>1. CASE i = Len(q) + 1
    BY <1>2, <1>3, <2>1
  <2>2. CASE i \in 1 .. Len(q)
    BY <1>2, <1>3, <2>2
  <2> QED BY <1>1, <1>2, <2>1, <2>2
<1>5. \A i \in 1 .. Len(r) : Measures(r)[i] = s[i]
  BY <1>4 DEF Measures
<1>6. s \in [1 .. Len(r) -> Nat] /\ Measures(r) = [i \in 1 .. Len(r) |-> Measures(r)[i]]
  BY <1>2, <1>3, LenProperties DEF Measures
<1>7. Measures(r) = s
  BY <1>5, <1>6
<1> QED BY <1>7 DEF r, s

--------------------------------------------------------------------------------
(* The sockets *)

\* What send_to() lets through is in the order it was sent in.
LEMMA ThroughPasses ==
    ASSUME NEW T, NEW u \in Seq(T), NEW through \in SUBSET (DOMAIN u)
    PROVE  LET q == [i \in 1 .. Cardinality(through) |-> u[Ascending(through)[i]]]
           IN  q \in Seq(T) /\ Passes(u, q)
<1> DEFINE m == Cardinality(through)
           f == Ascending(through)
           q == [i \in 1 .. m |-> u[f[i]]]
           upto(k) == {j \in through : j <= k}
<1>1. Len(u) \in Nat /\ DOMAIN u = 1 .. Len(u) /\ \A i \in 1 .. Len(u) : u[i] \in T
  BY LenProperties, ElementOfSeq
<1>2. IsFiniteSet(1 .. Len(u)) /\ Cardinality(1 .. Len(u)) = Len(u)
  BY <1>1, FS_Interval
<1>3. through \subseteq Int /\ IsFiniteSet(through) /\ m <= Len(u)
  BY <1>1, <1>2, FS_Subset
<1>4. /\ m \in Nat /\ f \in [1 .. m -> through]
      /\ \A j \in 1 .. m : Cardinality(upto(f[j])) = j
  BY <1>3, AscendingRanks
<1>5. f \in [1 .. m -> 1 .. Len(u)]
  BY <1>1, <1>4
<1> HIDE DEF f, m
<1>6. ASSUME NEW k \in 1 .. Len(u)
      PROVE  /\ IsFiniteSet(upto(k)) /\ Cardinality(upto(k)) <= k
             /\ \A j \in 1 .. Len(u) : j <= k => Cardinality(upto(j)) <= Cardinality(upto(k))
  <2>1. upto(k) \in SUBSET (1 .. k) /\ upto(k) \in SUBSET through
    BY <1>1
  <2>2. \A j \in 1 .. Len(u) : j <= k => upto(j) \in SUBSET upto(k)
    BY <1>3
  <2>3. IsFiniteSet(1 .. k) /\ Cardinality(1 .. k) = k
    BY FS_Interval
  <2> HIDE DEF upto
  <2>4. IsFiniteSet(upto(k))
    BY <1>3, <2>1, FS_Subset
  <2> QED BY <2>1, <2>2, <2>3, <2>4, FS_Subset
<1> HIDE DEF upto
<1>7. \A i \in 1 .. m : f[i] \in 1 .. Len(u) /\ i <= f[i]
  BY <1>4, <1>5, <1>6
<1>8. ASSUME NEW i \in 1 .. m, NEW j \in 1 .. m, i < j PROVE f[i] < f[j]
  <2>1. SUFFICES ASSUME f[j] <= f[i] PROVE FALSE
    BY <1>7
  <2>2. Cardinality(upto(f[j])) <= Cardinality(upto(f[i]))
    BY <1>6, <1>7, <2>1
  <2> QED BY <1>4, <1>8, <2>2
<1>9. q \in Seq(T) /\ Len(q) = m /\ \A i \in 1 .. m : q[i] = u[f[i]]
  BY <1>1, <1>4, <1>7
<1> HIDE DEF q
<1>10. Passes(u, q)
  BY <1>3, <1>5, <1>7, <1>8, <1>9 DEF Passes
<1> QED BY <1>9, <1>10 DEF q, m, f

\* One datagram or none goes through or does not.
LEMMA PassesFew ==
    ASSUME NEW T, NEW u, NEW q \in Seq(T), Passes(u, q)
    PROVE  /\ u = << >> => q = << >>
           /\ \A d : u = <<d>> => (q = << >> \/ q = <<d>>)
<1>1. Len(q) \in Nat /\ q \in [1 .. Len(q) -> T]
  BY LenProperties
<1>2. ASSUME Len(q) = 0 PROVE q = << >>
  BY <1>2, EmptySeq
<1>3. ASSUME NEW d, u = <<d>>, Len(q) = 1 PROVE q = <<d>>
  <2>1. PICK f \in [1 .. Len(q) -> 1 .. Len(u)] : \A i \in 1 .. Len(q) : q[i] = u[f[i]]
    BY DEF Passes
  <2>2. Len(u) = 1 /\ u[1] = d /\ 1 \in 1 .. Len(q) /\ f[1] \in 1 .. Len(u)
    BY <1>3, <2>1
  <2>3. q[1] = d
    BY <2>1, <2>2
  <2> QED BY <1>1, <1>3, <2>3
<1>4. Len(q) <= Len(u)
  BY DEF Passes
<1>5. u = << >> => q = << >>
  BY <1>1, <1>2, <1>4
<1>6. ASSUME NEW d, u = <<d>> PROVE q = << >> \/ q = <<d>>
  <2>1. Len(u) = 1
    BY <1>6
  <2> QED BY <1>1, <1>2, <1>3, <1>4, <1>6, <2>1
<1> QED BY <1>5, <1>6

--------------------------------------------------------------------------------
(* The endpoints *)

\* c1 is c but for its time and its statistics.
Updated(c, c1) ==
    /\ EndpointRecord(c1)
    /\ c1.sequence = c.sequence /\ c1.sent = c.sent /\ c1.received = c.received
    /\ c1.reassembly = c.reassembly /\ c1.outgoing = c.outgoing
    /\ c1.incoming = c.incoming /\ c1.ack_buf = c.ack_buf /\ c1.counters = c.counters

\* update() takes the time and changes nothing else but the statistics.
LEMMA UpdateFields ==
    ASSUME NEW c, EndpointRecord(c), NEW time
    PROVE  Updated(c, UpdateEndpoint(c, time)) /\ UpdateEndpoint(c, time).time = time
<1> DEFINE c1 == [c EXCEPT !.time = time]
           c2 == UpdatePacketLoss(c1)
           c3 == UpdateBandwidth(c2)
<1>1. EndpointRecord(c1) /\ Updated(c, c1) /\ c1.time = time
  BY DEF EndpointRecord, Endpoint, Updated
<1> HIDE DEF c1
<1>2. EndpointRecord(c2) /\ Updated(c1, c2) /\ c2.time = c1.time
  <2> DEFINE loss == SmoothValue(c1.packet_loss, NumDropped(c1.sent), LossFactor)
             d == [c1 EXCEPT !.packet_loss = loss]
  <2>1. c2 = c1 \/ c2 = d
    BY DEF UpdatePacketLoss
  <2> HIDE DEF loss
  <2>2. EndpointRecord(d) /\ Updated(c1, d) /\ d.time = c1.time
    BY <1>1 DEF EndpointRecord, Endpoint, Updated
  <2>3. Updated(c1, c1)
    BY <1>1 DEF Updated
  <2> HIDE DEF c2, d
  <2> QED BY <1>1, <2>1, <2>2, <2>3
<1> HIDE DEF c2
<1>3. EndpointRecord(c3) /\ Updated(c2, c3) /\ c3.time = c2.time
  <2>1. \E x, y, z : c3 = [c2 EXCEPT !.sent_bandwidth = x, !.received_bandwidth = y,
                                     !.acked_bandwidth = z]
    BY Zenon DEF UpdateBandwidth
  <2>2. PICK x, y, z : c3 = [c2 EXCEPT !.sent_bandwidth = x, !.received_bandwidth = y,
                                       !.acked_bandwidth = z]
    BY <2>1
  <2> HIDE DEF c3
  <2> QED BY <1>2, <2>2 DEF EndpointRecord, Endpoint, Updated
<1>4. UpdateEndpoint(c, time) = c3
  BY Zenon DEF UpdateEndpoint, c1, c2, c3
<1> HIDE DEF c3
<1> QED BY <1>1, <1>2, <1>3, <1>4 DEF Updated

\* update() leaves an endpoint sound.
LEMMA UpdateSound ==
    ASSUME NEW c, Sound(c), NEW time \in Nat
    PROVE  LET c1 == UpdateEndpoint(c, time)
           IN  /\ Sound(c1)
               /\ c1.sequence = c.sequence /\ c1.sent = c.sent /\ c1.received = c.received
               /\ c1.outgoing = c.outgoing /\ c1.incoming = c.incoming
<1> DEFINE c1 == UpdateEndpoint(c, time)
<1>1. Updated(c, c1) /\ c1.time \in Nat
  BY UpdateFields DEF Sound
<1> HIDE DEF c1
<1>2. Sound(c1)
  BY <1>1 DEF Updated, Sound
<1> QED BY <1>1, <1>2 DEF Updated, c1

\* All numbers below n are told apart.
LEMMA RecentAll ==
    ASSUME NEW n \in Nat, n <= Rounds
    PROVE  Recent(0, n) = 0 .. (n - 1)
<1>1. n <= SeqSpace
  BY LoopbackAssumption, Sizes
<1>2. ASSUME NEW m \in 0 .. (n - 1) PROVE 0 <= m /\ n - m <= SeqSpace
  BY <1>1, Sizes
<1> QED BY <1>2 DEF Recent

\* Recording while more pings are sent or read.
LEMMA RecordingGrows ==
    ASSUME NEW b, NEW n \in Nat, NEW m \in Nat, n <= m, m <= Rounds, NEW V, NEW W,
           V \subseteq W, Recording(b, n, V)
    PROVE  Recording(b, m, W)
<1>1. PICK A \in SUBSET V, t \in 0 .. n : Top(0, A, t) /\ Remembers(b, t, A, Recent(0, n))
  BY DEF Recording
<1>2. Recent(0, n) \subseteq Recent(0, m)
  <2>1. n <= Rounds
    BY LoopbackAssumption
  <2>2. 0 .. (n - 1) \subseteq 0 .. (m - 1)
    OBVIOUS
  <2> QED BY <2>1, <2>2, RecentAll
<1>3. A \in SUBSET W /\ t \in 0 .. m /\ Remembers(b, t, A, Recent(0, m))
  BY <1>1, <1>2 DEF Remembers
<1> QED BY <1>1, <1>3 DEF Recording

\* An endpoint sends packet n: it is tracked, and it is queued as a letter or gets
\* no room.
LEMMA SendLetter ==
    ASSUME NEW c, Sound(c), NEW n \in Nat, n < Rounds, c.sequence = n % SeqSpace,
           NEW A, Tracks(c.sent, 0, n, A), NEW m \in Nat, m <= Rounds, NEW W,
           Recording(c.received, m, W), c.outgoing \in Seq(Packets)
    PROVE  LET c1 == SendPacket(c, n, PingLen)
           IN  /\ Sound(c1)
               /\ c1.sequence = (n + 1) % SeqSpace
               /\ Tracks(c1.sent, 0, n + 1, A)
               /\ c1.received = c.received
               /\ c1.incoming = c.incoming
               /\ \/ c1.outgoing = c.outgoing
                  \/ \E d \in Packets :
                         /\ c1.outgoing = Append(c.outgoing, d)
                         /\ d.id = n
                         /\ Letter(d, n + 1, W \cap 0 .. (m - 1))
<1> DEFINE c1 == SendPacket(c, n, PingLen)
           a == AckHeader(c)
           d == RegularPacket(c.sequence, a, n, PingLen)
           x == Tracked(c, n, PingLen)
<1>1. PingLen = 1 /\ PingLen \in Nat /\ PingLen <= FragmentAbove /\ PingLen <= MaxPacketSize
  BY LoopbackAssumption, ConfigAssumption, LimitAssumption DEF PingLen, Validate
<1>2. Sends(c, n, PingLen, c1)
  BY <1>1, SendFields DEF Sound
<1> HIDE DEF c1
<1>3. x \in SentData /\ x.id = n /\ ~x.acked
  BY <1>1 DEF Tracked, SentData, Sound
<1>4. c1.sent \in Sent!Buffers(SentData) /\ Tracks(c1.sent, 0, n + 1, A)
  <2>1. c1.sent = Sent!Insert(c.sent, n % SeqSpace, x) /\ c.sent \in Sent!Buffers(SentData)
    BY <1>2 DEF Sends, Sound
  <2> HIDE DEF x
  <2> QED BY <1>3, <2>1, TracksSend
<1>5. PICK B \in SUBSET W, t \in 0 .. m :
          Top(0, B, t) /\ Remembers(c.received, t, B, Recent(0, m))
  BY DEF Recording
<1>6. a \in Headers /\ Vouches(a, W \cap 0 .. (m - 1))
  <2>1. /\ a \in Headers /\ a.ids \subseteq IdsIn(c.received) /\ Backed(a)
    <3>1. c.received \in Received!Buffers(ReceivedData) /\ t \in Int
          /\ ReceivedL!InOrder(c.received, t)
      BY <1>5 DEF Sound, Remembers
    <3> QED BY <3>1, AckHeaderFacts
  <2>2. IdsIn(c.received) \subseteq B \cap 0 .. (m - 1)
    BY <1>5, RecentAll DEF Remembers
  <2> HIDE DEF a
  <2> QED BY <2>1, <2>2 DEF Vouches
<1> HIDE DEF a
<1>7. Travels(d, 0, n + 1, n, W \cap 0 .. (m - 1))
  <2>1. n - n < Half - ReceivedSize
    BY Sizes
  <2> QED BY <1>1, <1>6, <2>1, RegularTravels
<1>8. d \in Packets /\ d.id = n /\ d.header = a /\ d.payload = Payload(n, PingLen)
  <2>1. n % SeqSpace \in SeqNums /\ Payload(n, PingLen) \in Seq(Chunks)
    BY <1>1, DivMod, Sizes, PayloadFacts DEF SeqNums
  <2> QED BY <1>6, <2>1 DEF RegularPacket, Packets
<1>9. Letter(d, n + 1, W \cap 0 .. (m - 1))
  BY <1>6, <1>7, <1>8 DEF Letter, Travels
<1>10. Datagrams(c, n, PingLen) = <<d>>
  <2>1. ~(PingLen > FragmentAbove)
    BY <1>1, LimitAssumption
  <2> HIDE DEF d
  <2> QED BY <2>1, Zenon DEF Datagrams, d, a
<1> HIDE DEF d
<1>11. Sound(c1)
  <2>1. <<d>> \in Seq(Packets \cup Fragments)
    BY <1>8
  <2> QED BY <1>1, <1>2, <1>4, <1>10, <2>1, SendSound
<1>12. c1.outgoing = c.outgoing \/ c1.outgoing = Append(c.outgoing, d)
  <2>1. \/ c1.outgoing = c.outgoing
        \/ c1.outgoing = WriteAll(c.outgoing, OutgoingSize, <<d>>)
    BY <1>2, <1>10 DEF Sends
  <2>2. OutgoingSize \in Nat /\ Len(c.outgoing) <= OutgoingSize
    BY LimitAssumption DEF Sound
  <2> QED BY <2>1, <2>2, WriteOne
<1>13. c1.sequence = (n + 1) % SeqSpace
  BY <1>2, NextSequence DEF Sends
<1>14. c1.received = c.received /\ c1.incoming = c.incoming
  BY <1>2 DEF Sends
<1> QED BY <1>4, <1>8, <1>9, <1>11, <1>12, <1>13, <1>14 DEF c1

\* An endpoint that tracks packets below m and recorded some of those below n, all
\* in W, with room for an item, and letter d that vouches for packets in V.
Hears(c, d, n, W, m, A, V) ==
    /\ Sound(c) /\ Letter(d, n, V)
    /\ n \in Nat /\ n <= Rounds /\ m \in Nat /\ m <= Rounds
    /\ W \subseteq Nat /\ Recording(c.received, n, W)
    /\ Tracks(c.sent, 0, m, A) /\ V \subseteq A \cap 0 .. (m - 1)
    /\ Len(c.incoming) < IncomingSize

\* c1 is c after letter d was recorded and delivered, or neither.
Heard(c, d, n, W, m, A, c1) ==
    /\ Sound(c1)
    /\ c1.sequence = c.sequence
    /\ c1.outgoing = c.outgoing
    /\ Tracks(c1.sent, 0, m, A)
    /\ \/ c1.incoming = c.incoming /\ Recording(c1.received, n, W)
       \/ \E x \in Items :
              /\ c1.incoming = Append(c.incoming, x)
              /\ PingOf(x.payload) = d.id
              /\ Recording(c1.received, n, W \cup {d.id})

\* An endpoint with room for an item receives letter d: it is recorded and
\* delivered, or neither.
LEMMA ReceiveLetter ==
    ASSUME NEW c, NEW d, NEW n, NEW W, NEW m, NEW A, NEW V, Hears(c, d, n, W, m, A, V)
    PROVE  Heard(c, d, n, W, m, A, ReceivePacket(c, d))
<1> USE DEF Hears
<1> DEFINE c1 == ReceivePacket(c, d)
<1>1. /\ d \in Packets /\ d \in Packets \cup Fragments /\ Genuine(d) /\ d.id \in Nat
      /\ d.header \in Headers /\ d.sequence \in SeqNums /\ d.kind = "packet"
      /\ d.payload = Payload(d.id, PingLen) /\ d.id < n
  BY DEF Letter, Packets
<1>2. Receives(c, d, c1)
  BY ReceiveFields DEF Sound
<1> HIDE DEF c1
<1>3. Vouches(d.header, A \cap Recent(0, m))
  BY RecentAll DEF Letter, Vouches
<1>4. c1.sent \in Sent!Buffers(SentData) /\ Tracks(c1.sent, 0, m, A)
  BY <1>1, <1>2, <1>3, ReceiveTracks
<1>5. PICK B \in SUBSET W, t \in 0 .. n :
          Top(0, B, t) /\ Remembers(c.received, t, B, Recent(0, n))
  BY DEF Recording
<1>6. t \in Nat /\ t <= n /\ B \subseteq Nat
  BY <1>5
<1>7. Travels(d, 0, n, t, V)
  <2>1. n - d.id < Half + ReceivedSize /\ d.id - t < Half - ReceivedSize /\ 0 <= d.id
    BY <1>1, <1>6, LoopbackAssumption, Sizes
  <2> QED BY <1>1, <2>1 DEF Travels, Letter
<1> DEFINE R == IF Records(c, d) THEN B \cup {d.id} ELSE B
<1>8. /\ c1.received \in Received!Buffers(ReceivedData)
      /\ Advances(c1.received, 0, n, t, R)
  <2>1. Admitted(c, d, B, R)
    BY DEF Admitted
  <2> HIDE DEF R
  <2> QED BY <1>2, <1>5, <1>6, <1>7, <2>1, ReceiveRemembers
<1>9. ASSUME NEW X, R \subseteq X PROVE Recording(c1.received, n, X)
  <2> HIDE DEF R
  <2>1. PICK u \in Nat : /\ u <= n /\ Top(0, R, u)
                         /\ Remembers(c1.received, u, R, Recent(0, n))
    BY <1>8 DEF Advances
  <2>2. u \in 0 .. n /\ R \in SUBSET X
    BY <1>9, <2>1
  <2> QED BY <2>1, <2>2 DEF Recording
<1>10. Sound(c1)
  BY <1>1, <1>2, <1>4, <1>8, ReceiveSound
<1>11. c1.sequence = c.sequence /\ c1.outgoing = c.outgoing
  BY <1>2 DEF Receives
<1>12. CASE Records(c, d)
  <2> DEFINE x == Item(c, d)
  <2>1. ~IsFragment(d)
    BY <1>1 DEF IsFragment
  <2>2. /\ d.payload \in Seq(Chunks) /\ Len(d.payload) = 1
        /\ d.payload[1] = Chunk(d.id, 0, 1)
    <3>1. /\ Payload(d.id, 1) \in Seq(Chunks) /\ Len(Payload(d.id, 1)) = 1
          /\ \A k \in 1 .. 1 : Payload(d.id, 1)[k] = Chunk(d.id, k - 1, 1)
      BY <1>1, PayloadFacts
    <3>2. 1 \in 1 .. 1 /\ 1 - 1 = 0
      OBVIOUS
    <3>3. Payload(d.id, 1)[1] = Chunk(d.id, 0, 1)
      BY <3>1, <3>2
    <3> QED BY <1>1, <3>1, <3>3 DEF PingLen
  <2>3. d.payload # << >>
    BY <2>2
  <2>4. c1.incoming = Append(c.incoming, x)
    BY <1>2, <1>12, <2>3 DEF Receives, Delivers
  <2>5. x.payload = d.payload /\ x = [sequence |-> d.sequence, payload |-> d.payload]
    BY <2>1 DEF Item, PayloadMade
  <2>6. x \in Items
    BY <1>1, <2>2, <2>5 DEF Items
  <2>7. PingOf(x.payload) = d.id
    BY <2>2, <2>5 DEF PingOf, Chunk
  <2>8. R \subseteq W \cup {d.id}
    BY <1>5
  <2> HIDE DEF x, R
  <2>9. Recording(c1.received, n, W \cup {d.id})
    BY <1>9, <2>8
  <2> QED BY <1>4, <1>10, <1>11, <2>4, <2>6, <2>7, <2>9 DEF Heard, c1
<1>13. CASE ~Records(c, d)
  <2>1. c1.incoming = c.incoming
    BY <1>2, <1>13 DEF Receives, Delivers
  <2>2. R \subseteq W
    BY <1>5, <1>13
  <2> HIDE DEF R
  <2>3. Recording(c1.received, n, W)
    BY <1>9, <2>2
  <2> QED BY <1>4, <1>10, <1>11, <2>1, <2>3 DEF Heard, c1
<1> QED BY <1>12, <1>13

\* Letters while more packets are sent, or more may be vouched for.
LEMMA LettersGrow ==
    ASSUME NEW n \in Nat, NEW m \in Nat, n <= m, NEW V, NEW W, V \subseteq W
    PROVE  /\ \A d : Letter(d, n, V) => Letter(d, m, W)
           /\ \A q : Letters(q, n, V) => Letters(q, m, W)
<1>1. ASSUME NEW d, Letter(d, n, V) PROVE Letter(d, m, W)
  <2>1. d.id \in Nat /\ d.id < n
    BY <1>1 DEF Letter, Packets
  <2>2. d.id < m
    BY <2>1
  <2>3. Vouches(d.header, W)
    BY <1>1 DEF Letter, Vouches
  <2> QED BY <1>1, <2>2, <2>3 DEF Letter
<1> QED BY <1>1 DEF Letters

\* Letters with one more, and without the first.
LEMMA LettersMove ==
    ASSUME NEW n, NEW V, NEW q, Letters(q, n, V)
    PROVE  /\ \A d : Letter(d, n, V) => Letters(Append(q, d), n, V)
           /\ q # << >> => Letters(Tail(q), n, V) /\ Letter(Head(q), n, V)
<1>1. q \in Seq(Packets) /\ Len(q) \in Nat /\ \A i \in 1 .. Len(q) : Letter(q[i], n, V)
  BY DEF Letters
<1>2. ASSUME NEW d, Letter(d, n, V) PROVE Letters(Append(q, d), n, V)
  <2>1. d \in Packets
    BY <1>2 DEF Letter
  <2>2. /\ Append(q, d) \in Seq(Packets)
        /\ \A i \in 1 .. Len(Append(q, d)) :
               \/ i = Len(q) + 1 /\ Append(q, d)[i] = d
               \/ i \in 1 .. Len(q) /\ Append(q, d)[i] = q[i]
    BY <1>1, <2>1, AppendElements
  <2> QED BY ONLY <1>1, <1>2, <2>2 DEF Letters
<1>3. ASSUME q # << >> PROVE Letters(Tail(q), n, V) /\ Letter(Head(q), n, V)
  BY <1>1, <1>3, IdsTail DEF Letters
<1> QED BY <1>2, <1>3

--------------------------------------------------------------------------------
(* The steps *)

\* What the pipelines say of the numbers of pings and echoes.
LEMMA InvNumbers ==
    ASSUME Inv
    PROVE  /\ Pinged \in Nat /\ Pinged <= Rounds /\ Rounds \in Nat
           /\ echoes \in Seq(Nat) /\ Len(echoes) \in Nat
           /\ Waiting \in Seq(Nat) /\ Len(Waiting) \in Nat
           /\ toServer \in Seq(Packets) /\ Len(toServer) \in Nat
           /\ toClient \in Seq(Packets) /\ server.outgoing \in Seq(Packets)
           /\ Len(echoes) + Len(Waiting) + Len(toServer) <= Pinged
           /\ Known \subseteq Nat
<1>1. Rounds \in Nat /\ round \in Nat /\ round <= Rounds
      /\ (cpc \in {"send", "wait", "end"} => round < Rounds)
  BY LoopbackAssumption DEF Inv, Control
<1>2. Pinged \in Nat /\ Pinged <= Rounds
  BY <1>1 DEF Pinged
<1>3. /\ toServer \in Seq(Packets) /\ toClient \in Seq(Packets)
      /\ server.outgoing \in Seq(Packets)
  BY DEF Inv, Travelling, Letters
<1>4. /\ echoes \in Seq(Nat) /\ Waiting \in Seq(Nat)
      /\ Len(echoes) + Len(Waiting) + Len(Ids(toServer)) <= Pinged
  BY DEF Inv, Upstream, Line, Climbs
<1>5. Len(Ids(toServer)) = Len(toServer) /\ Len(toServer) \in Nat
  BY <1>3, IdsFacts
<1>6. ToSet(echoes) \subseteq Nat /\ ToSet(Waiting) \subseteq Nat
  BY <1>4, LenProperties DEF ToSet
<1> QED BY <1>1, <1>2, <1>3, <1>4, <1>5, <1>6 DEF Known

\* A step that leaves the pipelines and the endpoints alone.
LEMMA QuietStep ==
    ASSUME Inv, Control', Pinged' = Pinged, Waiting' = Waiting, Answers' = Answers,
           spc' = "echo" <=> spc = "echo", rtts' = rtts,
           UNCHANGED <<client, server, echo_payloads, echoes, toServer, toClient>>
    PROVE  Inv'
<1>1. Known' = Known
  BY DEF Known
<1>2. Queues'
  BY DEF Inv, Queues
<1>3. Upstream'
  BY DEF Inv, Upstream
<1>4. Downstream'
  BY DEF Inv, Downstream
<1>5. Replies'
  BY DEF Inv, Replies
<1>6. ClientTracks'
  BY DEF Inv, ClientTracks
<1>7. ServerTracks'
  BY <1>1 DEF Inv, ServerTracks
<1>8. Travelling'
  BY <1>1 DEF Inv, Travelling
<1> QED BY <1>2, <1>3, <1>4, <1>5, <1>6, <1>7, <1>8 DEF Inv

\* The steps that only move a thread or the flag.
LEMMA QuietActions ==
    ASSUME Inv,
           \/ ClientTimeout \/ ClientError \/ ClientStop \/ ClientJoin
           \/ ServerLoad \/ ServerTimeout \/ ServerError
           \/ FlagVisible \/ Finished \/ UNCHANGED vars
    PROVE  Inv'
<1> USE DEF clientVars, serverVars
<1>1. Control /\ round \in Nat /\ timeouts \in Nat
  BY LoopbackAssumption DEF Inv, Control
<1>2. CASE ClientTimeout
  <2>1. Control'
    BY <1>1, <1>2, LoopbackAssumption DEF Control, ClientTimeout, NoReply
  <2>2. Pinged' = Pinged /\ Waiting' = Waiting /\ Answers' = Answers
    BY <1>1, <1>2 DEF Control, ClientTimeout, Pinged, Waiting, Answers
  <2> QED BY <1>2, <2>1, <2>2, QuietStep DEF ClientTimeout
<1>3. CASE ClientError
  <2>1. Control'
    BY <1>1, <1>3, LoopbackAssumption DEF Control, ClientError, NoReply
  <2>2. Pinged' = Pinged /\ Waiting' = Waiting /\ Answers' = Answers
    BY <1>1, <1>3 DEF Control, ClientError, Pinged, Waiting, Answers
  <2> QED BY <1>3, <2>1, <2>2, QuietStep DEF ClientError
<1>4. CASE ClientStop
  <2>1. Control'
    BY <1>1, <1>4 DEF Control, ClientStop
  <2>2. Pinged' = Pinged /\ Waiting' = Waiting /\ Answers' = Answers
    BY <1>4 DEF ClientStop, Pinged, Waiting, Answers
  <2> QED BY <1>4, <2>1, <2>2, QuietStep DEF ClientStop
<1>5. CASE ClientJoin
  <2>1. Control'
    BY <1>1, <1>5 DEF Control, ClientJoin
  <2>2. Pinged' = Pinged /\ Waiting' = Waiting /\ Answers' = Answers
    BY <1>5 DEF ClientJoin, Pinged, Waiting, Answers
  <2> QED BY <1>5, <2>1, <2>2, QuietStep DEF ClientJoin
<1>6. CASE ServerLoad
  <2>1. Control'
    BY <1>1, <1>6 DEF Control, ServerLoad
  <2>2. Pinged' = Pinged /\ Waiting' = Waiting /\ Answers' = Answers
    BY <1>6 DEF ServerLoad, Pinged, Waiting, Answers
  <2> QED BY <1>6, <2>1, <2>2, QuietStep DEF ServerLoad
<1>7. CASE ServerTimeout
  <2>1. Control'
    BY <1>1, <1>7 DEF Control, ServerTimeout
  <2>2. Pinged' = Pinged /\ Waiting' = Waiting /\ Answers' = Answers
    BY <1>7 DEF ServerTimeout, Pinged, Waiting, Answers
  <2> QED BY <1>7, <2>1, <2>2, QuietStep DEF ServerTimeout
<1>8. CASE ServerError
  <2>1. Control'
    BY <1>1, <1>8 DEF Control, ServerError
  <2>2. Pinged' = Pinged /\ Waiting' = Waiting /\ Answers' = Answers
    BY <1>8 DEF ServerError, Pinged, Waiting, Answers
  <2> QED BY <1>8, <2>1, <2>2, QuietStep DEF ServerError
<1>9. CASE FlagVisible
  <2>1. Control'
    BY <1>1, <1>9 DEF Control, FlagVisible
  <2>2. Pinged' = Pinged /\ Waiting' = Waiting /\ Answers' = Answers
    BY <1>9 DEF FlagVisible, Pinged, Waiting, Answers
  <2> QED BY <1>9, <2>1, <2>2, QuietStep DEF FlagVisible
<1>10. CASE Finished \/ UNCHANGED vars
  <2>1. Control'
    BY <1>1, <1>10 DEF Control, Finished, vars
  <2>2. Pinged' = Pinged /\ Waiting' = Waiting /\ Answers' = Answers
    BY <1>10 DEF Finished, vars, Pinged, Waiting, Answers
  <2> QED BY <1>10, <2>1, <2>2, QuietStep DEF Finished, vars
<1> QED BY <1>2, <1>3, <1>4, <1>5, <1>6, <1>7, <1>8, <1>9, <1>10

\* c1 is a sound endpoint that tracks and has recorded what c has.
Keeps(c, c1) ==
    Sound(c1) /\ c1.sequence = c.sequence /\ c1.sent = c.sent /\ c1.received = c.received

\* Draining and clear_acks() empty a queue and keep the rest.
LEMMA DrainKeeps ==
    ASSUME NEW c, Sound(c)
    PROVE  /\ Keeps(c, DrainOutgoing(c)) /\ DrainOutgoing(c).outgoing = << >>
           /\ DrainOutgoing(c).incoming = c.incoming
           /\ Keeps(c, DrainIncoming(c)) /\ DrainIncoming(c).incoming = << >>
           /\ DrainIncoming(c).outgoing = c.outgoing
           /\ Keeps(c, ClearAcks(c)) /\ ClearAcks(c).incoming = c.incoming
           /\ ClearAcks(c).outgoing = c.outgoing
<1>1. EndpointRecord(c) /\ c.counters \in Counters
  BY DEF Sound
<1>2. Quieted(c, DrainOutgoing(c)) /\ DrainOutgoing(c).outgoing = << >>
      /\ DrainOutgoing(c).incoming = c.incoming
  BY <1>1, DrainOutgoingFields, EndpointFields DEF Quieted
<1>3. Quieted(c, DrainIncoming(c)) /\ DrainIncoming(c).incoming = << >>
      /\ DrainIncoming(c).outgoing = c.outgoing
  BY <1>1, DrainIncomingFields, EndpointFields DEF Quieted
<1>4. Quieted(c, ClearAcks(c)) /\ ClearAcks(c).incoming = c.incoming
      /\ ClearAcks(c).outgoing = c.outgoing
  BY <1>1, ClearAcksFields, EndpointFields DEF Quieted
<1>5. \A c1 : Quieted(c, c1) => Keeps(c, c1)
  BY SoundQuiet DEF Quieted, Keeps
<1> QED BY <1>2, <1>3, <1>4, <1>5

\* A datagram sent reaches the socket or gets lost.
LEMMA OneDatagram ==
    ASSUME NEW v \in Seq(Packets), NEW q \in Seq(Packets), NEW through \in SUBSET (DOMAIN q)
    PROVE  LET w == v \o [i \in 1 .. Cardinality(through) |-> q[Ascending(through)[i]]]
           IN  /\ q = << >> => w = v
               /\ \A d \in Packets : q = <<d>> => w = v \/ w = Append(v, d)
<1> DEFINE r == [i \in 1 .. Cardinality(through) |-> q[Ascending(through)[i]]]
<1>1. r \in Seq(Packets) /\ Passes(q, r)
  BY ThroughPasses
<1> HIDE DEF r
<1>2. /\ q = << >> => r = << >>
      /\ \A d \in Packets : q = <<d>> => r = << >> \/ r = <<d>>
  BY <1>1, PassesFew
<1>3. /\ v \o << >> = v
      /\ \A d \in Packets : v \o <<d>> = Append(v, d)
  OBVIOUS
<1> QED BY <1>2, <1>3 DEF r

\* What the client sends.
LEMMA ClientDatagram ==
    ASSUME NEW q \in Seq(Packets), toServer \in Seq(Packets), SendTo(toServer, q)
    PROVE  /\ q = << >> => toServer' = toServer
           /\ \A d \in Packets :
                  q = <<d>> => toServer' = toServer \/ toServer' = Append(toServer, d)
<1>1. PICK through \in SUBSET (DOMAIN q) :
          toServer' = toServer \o [i \in 1 .. Cardinality(through) |-> q[Ascending(through)[i]]]
  BY DEF SendTo
<1> QED BY <1>1, OneDatagram

\* What the server sends.
LEMMA ServerDatagram ==
    ASSUME NEW d \in Packets, toClient \in Seq(Packets), SendTo(toClient, <<d>>)
    PROVE  toClient' = toClient \/ toClient' = Append(toClient, d)
<1> DEFINE q == <<d>>
<1>1. q \in Seq(Packets)
  OBVIOUS
<1>2. PICK through \in SUBSET (DOMAIN q) :
          toClient' = toClient \o [i \in 1 .. Cardinality(through) |-> q[Ascending(through)[i]]]
  BY DEF SendTo
<1> QED BY <1>1, <1>2, OneDatagram

\* The client sends the ping of the round.
LEMMA ClientSendStep ==
    ASSUME Inv, ClientSend
    PROVE  Inv'
<1> DEFINE c == SendPacket(client, round, PingLen)
           m == Len(echoes)
           W == 0 .. (m - 1)
<1>1. /\ cpc = "send" /\ client' = DrainOutgoing(c) /\ SendTo(toServer, c.outgoing)
      /\ reply' = NoReply /\ cpc' = "wait" /\ round' = round /\ rtts' = rtts
      /\ timeouts' = timeouts /\ server' = server /\ spc' = spc
      /\ echo_payloads' = echo_payloads /\ echoes' = echoes
      /\ running' = running /\ visible' = visible /\ toClient' = toClient
  BY DEF ClientSend, serverVars
<1>2. /\ round \in Nat /\ round < Rounds /\ Rounds \in Nat /\ m \in Nat /\ m <= Rounds
      /\ Pinged = round /\ Pinged' = round + 1
      /\ toServer \in Seq(Packets)
  BY <1>1, InvNumbers DEF Inv, Control, Pinged
<1>3. /\ Waiting' = Waiting /\ Known' = Known /\ Answers' = Answers
  BY <1>1 DEF Waiting, Known, Answers
<1>4. /\ Sound(client) /\ client.sequence = round % SeqSpace
      /\ Tracks(client.sent, 0, round, ToSet(echoes)) /\ Recording(client.received, m, W)
      /\ client.outgoing = << >> /\ client.incoming = << >> /\ << >> \in Seq(Packets)
  BY <1>2 DEF Inv, ClientTracks, Queues
<1>5. /\ Sound(c) /\ c.sequence = (round + 1) % SeqSpace
      /\ Tracks(c.sent, 0, round + 1, ToSet(echoes))
      /\ c.received = client.received /\ c.incoming = << >>
      /\ \/ c.outgoing = << >>
         \/ \E d \in Packets : /\ c.outgoing = Append(<< >>, d) /\ d.id = round
                               /\ Letter(d, round + 1, W \cap W)
  <2>1. client.outgoing \in Seq(Packets)
    BY <1>4
  <2> HIDE DEF W
  <2>2. /\ Sound(c) /\ c.sequence = (round + 1) % SeqSpace
        /\ Tracks(c.sent, 0, round + 1, ToSet(echoes))
        /\ c.received = client.received /\ c.incoming = client.incoming
        /\ \/ c.outgoing = client.outgoing
           \/ \E d \in Packets : /\ c.outgoing = Append(client.outgoing, d)
                                 /\ d.id = round
                                 /\ Letter(d, round + 1, W \cap 0 .. (m - 1))
    BY <1>2, <1>4, <2>1, SendLetter
  <2> HIDE DEF c
  <2> QED BY <1>4, <2>2 DEF W
<1> HIDE DEF c
<1>6. /\ Keeps(c, client') /\ client'.outgoing = << >> /\ client'.incoming = << >>
  BY <1>1, <1>5, DrainKeeps
<1>7. \/ toServer' = toServer
      \/ \E d \in Packets : /\ toServer' = Append(toServer, d) /\ d.id = round
                            /\ Letter(d, round + 1, W)
  <2>1. CASE c.outgoing = << >>
    BY <1>1, <1>2, <1>4, <2>1, ClientDatagram
  <2>2. ASSUME NEW d \in Packets, c.outgoing = Append(<< >>, d), d.id = round,
               Letter(d, round + 1, W \cap W)
        PROVE  \/ toServer' = toServer
               \/ toServer' = Append(toServer, d) /\ d.id = round /\ Letter(d, round + 1, W)
    <3>1. Append(<< >>, d) = <<d>> /\ W \cap W = W
      OBVIOUS
    <3> HIDE DEF W
    <3>2. c.outgoing = <<d>> /\ Letter(d, round + 1, W)
      BY <2>2, <3>1
    <3>3. <<d>> \in Seq(Packets)
      OBVIOUS
    <3> QED BY <1>1, <1>2, <2>2, <3>2, <3>3, ClientDatagram
  <2> QED BY <1>5, <2>1, <2>2
<1>8. Control'
  BY <1>1, <1>2 DEF Inv, Control
<1>9. Queues'
  BY <1>1, <1>6 DEF Inv, Queues
<1>10. Upstream'
  <2>1. /\ Line(echoes, Waiting, Ids(toServer), round + 1)
        /\ Line(echoes, Waiting, Append(Ids(toServer), round), round + 1)
    BY <1>2, LineSend DEF Inv, Upstream
  <2>2. Ids(toServer') = Ids(toServer) \/ Ids(toServer') = Append(Ids(toServer), round)
    BY <1>2, <1>7, IdsAppend
  <2>3. Line(echoes, Waiting, Ids(toServer'), round + 1)
    BY <2>1, <2>2
  <2>4. Ids(toServer)' = Ids(toServer')
    BY DEF Ids
  <2> QED BY <1>1, <1>2, <1>3, <2>3, <2>4 DEF Upstream
<1>11. Downstream'
  BY <1>1, <1>3 DEF Inv, Downstream
<1>12. Replies'
  BY <1>1 DEF Inv, Replies
<1>13. ClientTracks'
  BY <1>1, <1>2, <1>4, <1>5, <1>6 DEF ClientTracks, Keeps, W
<1>14. ServerTracks'
  <2>1. Recording(server.received, round + 1, Known)
    <3>1. Recording(server.received, round, Known) /\ round + 1 <= Rounds /\ round + 1 \in Nat
          /\ round <= round + 1
      BY <1>2 DEF Inv, ServerTracks
    <3> QED BY <1>2, <3>1, RecordingGrows
  <2> QED BY <1>1, <1>2, <1>3, <2>1 DEF Inv, ServerTracks
<1>15. Travelling'
  <2>1. Letters(toServer, round + 1, W)
    <3>1. Letters(toServer, round, W) /\ round + 1 \in Nat /\ round <= round + 1
      BY <1>2 DEF Inv, Travelling
    <3> QED BY <1>2, <3>1, LettersGrow
  <2>2. Letters(toServer', round + 1, W)
    <3> HIDE DEF W
    <3> QED BY <1>7, <2>1, LettersMove
  <2> QED BY <1>1, <1>2, <1>3, <2>2 DEF Inv, Travelling
<1> QED BY <1>8, <1>9, <1>10, <1>11, <1>12, <1>13, <1>14, <1>15 DEF Inv

\* The replies, as the pings that they echo.
LEMMA MeasuresType ==
    ASSUME Replies
    PROVE  /\ Measures(rtts) \in Seq(Nat) /\ Len(rtts) \in Nat
           /\ Len(Measures(rtts)) = Len(rtts)
           /\ \A i \in 1 .. Len(rtts) : Measures(rtts)[i] = rtts[i].ping
<1>1. Len(rtts) \in Nat /\ \A i \in 1 .. Len(rtts) : rtts[i] \in [round : Nat, ping : Nat]
  <2> DEFINE T == [round : Nat, ping : Nat]
  <2>1. rtts \in Seq(T)
    BY DEF Replies
  <2> HIDE DEF T
  <2>2. Len(rtts) \in Nat /\ \A i \in 1 .. Len(rtts) : rtts[i] \in T
    BY <2>1
  <2> QED BY <2>2 DEF T
<1>2. \A i \in 1 .. Len(rtts) : rtts[i].ping \in Nat
  BY <1>1
<1> QED BY <1>1, <1>2 DEF Measures

\* The client receives a datagram, which ends the round if it holds a payload.
LEMMA ClientRecvStep ==
    ASSUME Inv, ClientRecv
    PROVE  Inv'
<1> DEFINE d == Head(toClient)
           c == ReceivePacket(client, d)
           m == Len(echoes)
           W == 0 .. (m - 1)
           E == ToSet(echoes)
<1>1. /\ cpc = "wait" /\ toClient # << >>
      /\ client' = DrainOutgoing(DrainIncoming(c)) /\ SendTo(toServer, c.outgoing)
      /\ reply' = IF c.incoming = << >> THEN NoReply
                  ELSE echoes[PingOf(c.incoming[1].payload) + 1]
      /\ cpc' = IF c.incoming = << >> THEN "wait" ELSE "end"
      /\ toClient' = Tail(toClient)
      /\ round' = round /\ rtts' = rtts
      /\ timeouts' = timeouts /\ server' = server /\ spc' = spc
      /\ echo_payloads' = echo_payloads /\ echoes' = echoes
      /\ running' = running /\ visible' = visible
  BY DEF ClientRecv, serverVars
<1>2. /\ round \in Nat /\ round < Rounds /\ Rounds \in Nat /\ m \in Nat /\ m <= Rounds
      /\ Pinged = round + 1 /\ Pinged' = round + 1 /\ reply = NoReply
      /\ toServer \in Seq(Packets) /\ toClient \in Seq(Packets) /\ echoes \in Seq(Nat)
  BY <1>1, InvNumbers DEF Inv, Control, Pinged
<1>3. /\ Waiting' = Waiting /\ Known' = Known /\ Answers = Measures(rtts)
  BY <1>1 DEF Waiting, Known, Answers
<1>4. /\ Sound(client) /\ client.sequence = (round + 1) % SeqSpace
      /\ Tracks(client.sent, 0, round + 1, E) /\ Recording(client.received, m, W)
      /\ client.outgoing = << >> /\ client.incoming = << >> /\ Len(<< >>) = 0
  BY <1>2 DEF Inv, ClientTracks, Queues
<1>5. Letter(d, m, E) /\ Letters(Tail(toClient), m, E)
  BY <1>1, LettersMove DEF Inv, Travelling
<1>6. /\ E \subseteq E \cap 0 .. ((round + 1) - 1) /\ W \subseteq Nat
      /\ \A i \in 1 .. m : echoes[i] \in 0 .. round
  <2>1. Under(echoes, round + 1)
    BY <1>2 DEF Inv, Upstream, Line
  <2>2. \A i \in 1 .. m : echoes[i] \in Nat /\ echoes[i] < round + 1
    BY <1>2, <2>1 DEF Under
  <2>3. \A x \in E : \E i \in 1 .. m : x = echoes[i]
    BY <1>2, LenProperties DEF ToSet
  <2> HIDE DEF E
  <2> QED BY <1>2, <2>2, <2>3
<1>7. /\ Sound(c) /\ c.sequence = client.sequence /\ c.outgoing = << >>
      /\ Tracks(c.sent, 0, round + 1, E)
      /\ \/ c.incoming = << >> /\ Recording(c.received, m, W)
         \/ \E x \in Items : /\ c.incoming = Append(<< >>, x)
                             /\ PingOf(x.payload) = d.id
                             /\ Recording(c.received, m, W \cup {d.id})
  <2> HIDE DEF d, W, E
  <2>1. Len(client.incoming) < IncomingSize /\ round + 1 \in Nat /\ round + 1 <= Rounds
    BY <1>2, <1>4, LoopbackAssumption, LimitAssumption, SMTT(30)
  <2>2. Hears(client, d, m, W, round + 1, E, E)
    BY <1>2, <1>4, <1>5, <1>6, <2>1 DEF Hears
  <2>3. Heard(client, d, m, W, round + 1, E, c)
    BY <2>2, ReceiveLetter
  <2> HIDE DEF c
  <2> QED BY <1>4, <2>3 DEF Heard
<1>8. d.id \in 0 .. (m - 1) /\ W \cup {d.id} = W
  BY <1>2, <1>5 DEF Letter, Packets
<1> HIDE DEF c, W
<1>9. \/ c.incoming = << >>
      \/ c.incoming # << >> /\ PingOf(c.incoming[1].payload) = d.id
  <2> SUFFICES ASSUME NEW x \in Items, c.incoming = Append(<< >>, x), PingOf(x.payload) = d.id
               PROVE  c.incoming # << >> /\ PingOf(c.incoming[1].payload) = d.id
    BY <1>7
  <2>1. Append(<< >>, x) # << >> /\ Append(<< >>, x)[1] = x
    OBVIOUS
  <2> QED BY <2>1
<1>10. Recording(c.received, m, W)
  BY <1>7, <1>8
<1>11. Keeps(c, client') /\ client'.outgoing = << >> /\ client'.incoming = << >>
  <2>1. Keeps(c, DrainIncoming(c)) /\ DrainIncoming(c).incoming = << >>
    BY <1>7, DrainKeeps
  <2>2. Sound(DrainIncoming(c))
    BY <2>1 DEF Keeps
  <2>3. /\ Keeps(DrainIncoming(c), client') /\ client'.outgoing = << >>
        /\ client'.incoming = DrainIncoming(c).incoming
    BY <1>1, <2>2, DrainKeeps
  <2> QED BY <2>1, <2>3 DEF Keeps
<1>12. toServer' = toServer
  <2>1. << >> \in Seq(Packets)
    OBVIOUS
  <2> QED BY <1>1, <1>2, <1>7, <2>1, ClientDatagram
<1>13. \/ cpc' = "wait" /\ reply' = NoReply
       \/ cpc' = "end" /\ reply' = echoes[d.id + 1] /\ reply' \in 0 .. round
  <2>1. CASE c.incoming = << >>
    BY <1>1, <2>1
  <2>2. CASE c.incoming # << >>
    <3>1. cpc' = "end" /\ reply' = echoes[d.id + 1]
      BY <1>1, <1>9, <2>2
    <3>2. d.id + 1 \in 1 .. m
      BY <1>2, <1>8
    <3> QED BY <1>6, <3>1, <3>2
  <2> QED BY <2>1, <2>2
<1> HIDE DEF d
<1>14. Control'
  <2>1. reply' \in {NoReply} \cup 0 .. (Rounds - 1)
    BY <1>2, <1>13
  <2>2. timeouts \in Nat /\ timeouts <= round
    BY <1>1 DEF Inv, Control
  <2>3. timeouts <= IF cpc' = "end" THEN round + 1 ELSE round
    BY <1>2, <2>2
  <2> QED BY <1>1, <1>2, <1>13, <2>1, <2>2, <2>3 DEF Inv, Control
<1>15. Queues'
  BY <1>1, <1>11 DEF Inv, Queues
<1>16. Upstream'
  BY <1>1, <1>2, <1>3, <1>12 DEF Inv, Upstream
<1>17. Downstream'
  <2>1. PICK s \in [1 .. Len(Answers) -> 0 .. (m - 1)] :
            /\ Line(s, Ids(toClient), Ids(server.outgoing), m)
            /\ \A i \in 1 .. Len(s) : Answers[i] = echoes[s[i] + 1]
    BY DEF Inv, Downstream
  <2>2. /\ Ids(toClient) # << >> /\ Head(Ids(toClient)) = d.id
        /\ Ids(Tail(toClient)) = Tail(Ids(toClient))
    BY <1>1, <1>2, IdsTail DEF d
  <2>3. /\ Line(s, Ids(Tail(toClient)), Ids(server.outgoing), m)
        /\ Line(Append(s, d.id), Ids(Tail(toClient)), Ids(server.outgoing), m)
    BY <1>2, <2>1, <2>2, LineShift
  <2>4. s \in Seq(Nat) /\ Len(s) \in Nat /\ Measures(rtts) \in Seq(Nat)
        /\ Len(Answers) \in Nat /\ Len(s) = Len(Answers)
    <3>1. s \in Seq(Nat) /\ Len(s) \in Nat
      BY <2>1 DEF Line, Climbs
    <3>2. Measures(rtts) \in Seq(Nat)
      BY MeasuresType DEF Inv
    <3>3. DOMAIN s = 1 .. Len(s) /\ DOMAIN s = 1 .. Len(Answers) /\ Len(Answers) \in Nat
      BY <1>3, <2>1, <3>1, <3>2, LenProperties
    <3> QED BY <3>1, <3>2, <3>3
  <2>5. CASE cpc' = "wait" /\ reply' = NoReply
    <3>1. Answers' = Answers
      BY <1>1, <1>3, <2>5 DEF Answers
    <3> QED BY <1>1, <2>1, <2>3, <3>1 DEF Downstream
  <2>6. CASE cpc' = "end" /\ reply' = echoes[d.id + 1] /\ reply' \in 0 .. round
    <3> DEFINE w == Append(s, d.id)
               a == Append(Answers, reply')
    <3>1. Answers' = a
      <4>1. reply' # NoReply
        BY <1>2, <2>6 DEF NoReply
      <4> QED BY <1>1, <1>3, <2>6, <4>1 DEF Answers
    <3>2. /\ w \in Seq(0 .. (m - 1)) /\ Len(w) = Len(s) + 1 /\ w[Len(s) + 1] = d.id
          /\ \A i \in 1 .. Len(s) : w[i] = s[i]
      <4>1. s \in Seq(0 .. (m - 1))
        BY <2>1, <2>4, SMTT(30)
      <4> QED BY <1>8, <4>1, AppendElements
    <3>3. /\ a \in Seq(Nat) /\ Len(a) = Len(s) + 1 /\ a[Len(s) + 1] = reply'
          /\ \A i \in 1 .. Len(s) : a[i] = Answers[i]
      <4>1. reply' \in Nat /\ Answers \in Seq(Nat)
        BY <1>2, <1>3, <2>4, <2>6
      <4> QED BY <2>4, <4>1, AppendElements
    <3> HIDE DEF w, a
    <3>4. w \in [1 .. Len(a) -> 0 .. (m - 1)]
      BY <3>2, <3>3, LenProperties
    <3>5. ASSUME NEW i \in 1 .. Len(w) PROVE a[i] = echoes[w[i] + 1]
      <4>1. CASE i = Len(s) + 1
        BY <2>6, <3>2, <3>3, <4>1
      <4>2. CASE i \in 1 .. Len(s)
        BY <2>1, <3>2, <3>3, <4>2
      <4> QED BY <2>4, <3>2, <4>1, <4>2
    <3>6. Line(w, Ids(Tail(toClient)), Ids(server.outgoing), m)
      BY <2>3 DEF w
    <3> QED BY <1>1, <3>1, <3>4, <3>5, <3>6 DEF Downstream
  <2> QED BY <1>13, <2>5, <2>6
<1>18. Replies'
  BY <1>1 DEF Inv, Replies
<1>19. ClientTracks'
  BY <1>1, <1>2, <1>4, <1>7, <1>10, <1>11 DEF ClientTracks, Keeps, W
<1>20. ServerTracks'
  BY <1>1, <1>2, <1>3 DEF Inv, ServerTracks
<1>21. Travelling'
  BY <1>1, <1>2, <1>3, <1>5, <1>12 DEF Inv, Travelling
<1> QED BY <1>14, <1>15, <1>16, <1>17, <1>18, <1>19, <1>20, <1>21 DEF Inv

\* The round ends: its reply is counted, and clear_acks() and update() follow.
LEMMA ClientEndRoundStep ==
    ASSUME Inv, ClientEndRound
    PROVE  Inv'
<1>1. /\ cpc = "end"
      /\ rtts' = IF reply = NoReply THEN rtts
                 ELSE Append(rtts, [round |-> round, ping |-> reply])
      /\ client' = UpdateEndpoint(ClearAcks(client), round)
      /\ round' = round + 1 /\ cpc' = IF round + 1 < Rounds THEN "send" ELSE "stop"
      /\ reply' = reply /\ timeouts' = timeouts /\ server' = server /\ spc' = spc
      /\ echo_payloads' = echo_payloads /\ echoes' = echoes
      /\ running' = running /\ visible' = visible
      /\ toServer' = toServer /\ toClient' = toClient
  BY DEF ClientEndRound, serverVars
<1>2. /\ round \in Nat /\ round < Rounds /\ Rounds \in Nat
      /\ Pinged = round + 1 /\ Pinged' = round + 1
      /\ reply \in {NoReply} \cup Nat /\ reply <= round
  <2>1. round \in Nat /\ round < Rounds /\ Rounds \in Nat
        /\ reply \in {NoReply} \cup Nat /\ reply <= round
    BY <1>1, InvNumbers DEF Inv, Control
  <2> QED BY <1>1, <2>1 DEF Pinged
<1>3. Waiting' = Waiting /\ Known' = Known
  BY <1>1 DEF Waiting, Known
<1>4. Keeps(client, client') /\ client'.incoming = << >> /\ client'.outgoing = << >>
  <2> DEFINE c == ClearAcks(client)
  <2>1. Sound(client) /\ client.incoming = << >> /\ client.outgoing = << >>
    BY DEF Inv, ClientTracks, Queues
  <2>2. Keeps(client, c) /\ c.incoming = << >> /\ c.outgoing = << >>
    BY <2>1, DrainKeeps
  <2> HIDE DEF c
  <2>3. Sound(c)
    BY <2>2 DEF Keeps
  <2>4. Keeps(c, client') /\ client'.incoming = c.incoming /\ client'.outgoing = c.outgoing
    BY <1>1, <1>2, <2>3, UpdateSound DEF Keeps, c
  <2> QED BY <2>2, <2>4 DEF Keeps
<1>5. Replies' /\ Answers' = Answers
  <2> DEFINE T == [round : Nat, ping : Nat]
             x == [round |-> round, ping |-> reply]
  <2>1. CASE reply = NoReply
    <3>1. rtts' = rtts
      BY <1>1, <2>1
    <3> QED BY <1>1, <2>1, <3>1 DEF Inv, Replies, Answers
  <2>2. CASE reply # NoReply
    <3>1. /\ reply \in Nat /\ x \in T /\ x.ping = reply /\ x.round = round
          /\ rtts' = Append(rtts, x)
      BY <1>1, <1>2, <2>2
    <3>2. /\ rtts \in Seq(T) /\ Measures(rtts) \in Seq(Nat)
          /\ \A i \in 1 .. Len(rtts) : rtts[i].ping <= rtts[i].round
      BY MeasuresType DEF Inv, Replies
    <3> HIDE DEF T, x
    <3>3. /\ rtts' \in Seq(T)
          /\ \A i \in 1 .. Len(rtts') : \/ i = Len(rtts) + 1 /\ rtts'[i] = x
                                        \/ i \in 1 .. Len(rtts) /\ rtts'[i] = rtts[i]
      BY <3>1, <3>2, AppendElements
    <3>4. ASSUME NEW i \in 1 .. Len(rtts') PROVE rtts'[i].ping <= rtts'[i].round
      <4>1. CASE rtts'[i] = x
        BY <1>2, <3>1, <4>1
      <4>2. CASE i \in 1 .. Len(rtts) /\ rtts'[i] = rtts[i]
        BY <3>2, <4>2
      <4> QED BY <3>3, <4>1, <4>2
    <3>5. Replies'
      BY <3>3, <3>4 DEF Replies, T
    <3>6. Measures(rtts') = Append(Measures(rtts), reply)
      <4>1. x.ping \in Nat
        BY <3>1
      <4>2. Measures(Append(rtts, x)) = Append(Measures(rtts), x.ping)
        BY <3>1, <3>2, <4>1, MeasuresAppend
      <4> QED BY <3>1, <4>2
    <3>7. Measures(rtts)' = Measures(rtts')
      BY DEF Measures
    <3>8. Answers' = Measures(rtts)' /\ Answers = Append(Measures(rtts), reply)
      BY <1>1, <2>2 DEF Answers
    <3> QED BY <3>5, <3>6, <3>7, <3>8
  <2> QED BY <2>1, <2>2
<1>6. Control'
  <2>1. timeouts \in Nat /\ timeouts <= round + 1
    BY <1>1 DEF Inv, Control
  <2> QED BY <1>1, <1>2, <2>1 DEF Inv, Control
<1>7. Queues'
  BY <1>1, <1>4 DEF Inv, Queues
<1>8. Upstream'
  BY <1>1, <1>2, <1>3 DEF Inv, Upstream
<1>9. Downstream'
  BY <1>1, <1>5 DEF Inv, Downstream
<1>10. ClientTracks'
  BY <1>1, <1>2, <1>4 DEF Inv, ClientTracks, Keeps
<1>11. ServerTracks'
  BY <1>1, <1>2, <1>3 DEF Inv, ServerTracks
<1>12. Travelling'
  BY <1>1, <1>2, <1>3 DEF Inv, Travelling
<1> QED BY <1>5, <1>6, <1>7, <1>8, <1>9, <1>10, <1>11, <1>12 DEF Inv

\* The server receives a datagram, and may read a ping.
LEMMA ServerRecvStep ==
    ASSUME Inv, ServerRecv
    PROVE  Inv'
<1> DEFINE d == Head(toServer)
           c == ReceivePacket(server, d)
           m == Len(echoes)
           V == 0 .. (m - 1)
<1>1. /\ spc = "recv" /\ toServer # << >> /\ server' = c /\ toServer' = Tail(toServer)
      /\ client' = client /\ cpc' = cpc /\ round' = round /\ reply' = reply
      /\ rtts' = rtts /\ timeouts' = timeouts /\ spc' = spc
      /\ echo_payloads' = echo_payloads /\ echoes' = echoes
      /\ running' = running /\ visible' = visible /\ toClient' = toClient
  BY DEF ServerRecv, clientVars
<1>2. /\ Pinged \in Nat /\ Pinged <= Rounds /\ Rounds \in Nat /\ m \in Nat /\ m <= Rounds
      /\ Known \subseteq Nat /\ toServer \in Seq(Packets) /\ Waiting \in Seq(Nat)
      /\ m + Len(Waiting) + Len(toServer) <= Pinged /\ Len(Waiting) \in Nat
  BY InvNumbers
<1>3. Pinged' = Pinged /\ Answers' = Answers /\ Waiting = Pings(server.incoming)
      /\ Waiting' = Pings(server'.incoming)
  BY <1>1 DEF Pinged, Answers, Waiting, Pings
<1>4. /\ Sound(server) /\ server.sequence = m % SeqSpace
      /\ Tracks(server.sent, 0, m, Nat) /\ Recording(server.received, Pinged, Known)
      /\ server.outgoing = << >> /\ server.incoming \in Seq(Items)
  BY <1>1 DEF Inv, ServerTracks, Queues, Sound
<1>5. Letter(d, Pinged, V) /\ Letters(Tail(toServer), Pinged, V)
  BY <1>1, LettersMove DEF Inv, Travelling
<1>6. d.id \in Nat
  BY <1>5 DEF Letter, Packets
<1>7. Len(server.incoming) < IncomingSize
  <2>1. Len(server.incoming) = Len(Waiting)
    <3>1. Len(server.incoming) \in Nat /\ DOMAIN Waiting = 1 .. Len(server.incoming)
      BY <1>3, <1>4 DEF Pings
    <3> QED BY <1>2, <3>1, LenProperties
  <2>2. Len(toServer) \in Nat \ {0}
    BY <1>1, <1>2, EmptySeq
  <2> QED BY <1>2, <2>1, <2>2, LoopbackAssumption, LimitAssumption, SMTT(30)
<1>8. Heard(server, d, Pinged, Known, m, Nat, c)
  <2>1. V \subseteq Nat \cap 0 .. (m - 1)
    BY <1>2
  <2> HIDE DEF d, c, V
  <2>2. Hears(server, d, Pinged, Known, m, Nat, V)
    BY <1>2, <1>4, <1>5, <1>7, <2>1 DEF Hears
  <2> QED BY <2>2, ReceiveLetter DEF c
<1> HIDE DEF c
<1>9. /\ Ids(toServer) # << >> /\ Head(Ids(toServer)) = d.id
      /\ Ids(Tail(toServer)) = Tail(Ids(toServer))
  BY <1>1, <1>2, IdsTail
<1> HIDE DEF d
<1>10. /\ Line(echoes, Waiting, Ids(Tail(toServer)), Pinged)
       /\ Line(echoes, Append(Waiting, d.id), Ids(Tail(toServer)), Pinged)
  BY <1>2, <1>9, LineTake DEF Inv, Upstream
<1>11. \/ Waiting' = Waiting /\ Recording(c.received, Pinged, Known)
       \/ Waiting' = Append(Waiting, d.id) /\ Recording(c.received, Pinged, Known \cup {d.id})
  <2>1. CASE c.incoming = server.incoming /\ Recording(c.received, Pinged, Known)
    BY <1>1, <1>3, <2>1
  <2>2. ASSUME NEW x \in Items, c.incoming = Append(server.incoming, x),
               PingOf(x.payload) = d.id, Recording(c.received, Pinged, Known \cup {d.id})
        PROVE  Waiting' = Append(Waiting, d.id)
    <3>1. PingOf(x.payload) \in Nat /\ Pings(server.incoming) \in Seq(Nat)
      BY <1>2, <1>3, <1>6, <2>2
    <3>2. Pings(Append(server.incoming, x)) = Append(Pings(server.incoming), PingOf(x.payload))
      BY <1>4, <3>1, PingsAppend
    <3> QED BY <1>1, <1>3, <2>2, <3>2
  <2> QED BY <1>8, <2>1, <2>2 DEF Heard
<1>12. \/ Known' = Known /\ Waiting' = Waiting
       \/ Known' = Known \cup {d.id} /\ Waiting' = Append(Waiting, d.id)
  <2>1. CASE Waiting' = Waiting
    BY <1>1, <2>1 DEF Known
  <2>2. CASE Waiting' = Append(Waiting, d.id)
    <3>1. ToSet(Append(Waiting, d.id)) = ToSet(Waiting) \cup {d.id}
      BY <1>2, <1>6, ElementsAppend
    <3> QED BY <1>1, <2>2, <3>1 DEF Known
  <2> QED BY <1>11, <2>1, <2>2
<1>13. Recording(c.received, Pinged, Known')
  <2>1. Known \subseteq Known \cup {d.id} /\ Pinged <= Pinged
    BY <1>2
  <2>2. ASSUME Recording(c.received, Pinged, Known)
        PROVE  Recording(c.received, Pinged, Known \cup {d.id})
    BY <1>2, <2>1, <2>2, RecordingGrows
  <2>3. CASE Waiting' = Append(Waiting, d.id) /\ Known' = Known \cup {d.id}
    BY <1>11, <2>2, <2>3
  <2>4. CASE Waiting' = Waiting /\ Known' = Known
    <3>1. Waiting # Append(Waiting, d.id)
      <4>1. Len(Append(Waiting, d.id)) = Len(Waiting) + 1
        BY <1>2, <1>6, AppendElements
      <4> QED BY <1>2, <4>1
    <3> QED BY <1>11, <2>4, <3>1
  <2> QED BY <1>12, <2>3, <2>4
<1>14. Control'
  BY <1>1 DEF Inv, Control
<1>15. Queues'
  BY <1>1, <1>4, <1>8 DEF Inv, Queues, Heard
<1>16. Upstream'
  <2>1. Ids(toServer)' = Ids(Tail(toServer))
    BY <1>1 DEF Ids
  <2> QED BY <1>1, <1>3, <1>10, <1>11, <2>1 DEF Upstream
<1>17. Downstream'
  <2>1. server'.outgoing = server.outgoing
    BY <1>1, <1>8 DEF Heard
  <2> QED BY <1>1, <1>3, <2>1 DEF Inv, Downstream, Ids
<1>18. Replies'
  BY <1>1 DEF Inv, Replies
<1>19. ClientTracks'
  BY <1>1, <1>3 DEF Inv, ClientTracks
<1>20. ServerTracks'
  BY <1>1, <1>3, <1>4, <1>8, <1>13 DEF ServerTracks, Heard
<1>21. Travelling'
  <2>1. server'.outgoing = << >>
    BY <1>1, <1>4, <1>8 DEF Heard
  <2>2. Letters(<< >>, m, Known')
    BY DEF Letters
  <2> QED BY <1>1, <1>3, <1>5, <2>1, <2>2 DEF Inv, Travelling
<1> QED BY <1>14, <1>15, <1>16, <1>17, <1>18, <1>19, <1>20, <1>21 DEF Inv

\* The server takes the pings it has read out of its incoming queue.
LEMMA ServerCollectStep ==
    ASSUME Inv, ServerCollect
    PROVE  Inv'
<1>1. /\ spc = "collect" /\ spc' = "echo" /\ server' = DrainIncoming(server)
      /\ echo_payloads' = [i \in DOMAIN server.incoming |-> PingOf(server.incoming[i].payload)]
      /\ client' = client /\ cpc' = cpc /\ round' = round /\ reply' = reply
      /\ rtts' = rtts /\ timeouts' = timeouts /\ echoes' = echoes
      /\ running' = running /\ visible' = visible
      /\ toServer' = toServer /\ toClient' = toClient
  BY DEF ServerCollect, clientVars
<1>2. Sound(server) /\ server.incoming \in Seq(Items) /\ server.outgoing = << >>
  BY <1>1 DEF Inv, ServerTracks, Queues, Sound
<1>3. Pinged' = Pinged /\ Answers' = Answers
  BY <1>1 DEF Pinged, Answers
<1>4. Waiting' = Waiting
  <2>1. DOMAIN server.incoming = 1 .. Len(server.incoming)
    BY <1>2, LenProperties
  <2> QED BY <1>1, <2>1 DEF Waiting, Pings
<1>5. Known' = Known
  BY <1>1, <1>4 DEF Known
<1>6. Keeps(server, server') /\ server'.incoming = << >> /\ server'.outgoing = << >>
  BY <1>1, <1>2, DrainKeeps
<1>7. Control'
  BY <1>1 DEF Inv, Control
<1>8. Queues'
  BY <1>1, <1>6 DEF Inv, Queues
<1>9. Upstream'
  BY <1>1, <1>3, <1>4 DEF Inv, Upstream
<1>10. Downstream'
  BY <1>1, <1>2, <1>3, <1>6 DEF Inv, Downstream, Ids
<1>11. Replies'
  BY <1>1 DEF Inv, Replies
<1>12. ClientTracks'
  BY <1>1, <1>3 DEF Inv, ClientTracks
<1>13. ServerTracks'
  BY <1>1, <1>3, <1>5, <1>6 DEF Inv, ServerTracks, Keeps
<1>14. Travelling'
  BY <1>1, <1>2, <1>3, <1>5, <1>6 DEF Inv, Travelling
<1> QED BY <1>7, <1>8, <1>9, <1>10, <1>11, <1>12, <1>13, <1>14 DEF Inv

\* The server echoes the next ping.
LEMMA ServerEchoStep ==
    ASSUME Inv, ServerEcho
    PROVE  Inv'
<1> DEFINE m == Len(echoes)
           x == Head(echo_payloads)
           c == SendPacket(server, m, PingLen)
<1>1. /\ spc = "echo" /\ echo_payloads # << >> /\ server' = c
      /\ echoes' = Append(echoes, x) /\ echo_payloads' = Tail(echo_payloads)
      /\ client' = client /\ cpc' = cpc /\ round' = round /\ reply' = reply
      /\ rtts' = rtts /\ timeouts' = timeouts /\ spc' = spc
      /\ running' = running /\ visible' = visible
      /\ toServer' = toServer /\ toClient' = toClient
  BY DEF ServerEcho, clientVars
<1>2. /\ Pinged \in Nat /\ Pinged <= Rounds /\ Rounds \in Nat /\ m \in Nat
      /\ echoes \in Seq(Nat) /\ Waiting \in Seq(Nat) /\ Len(Waiting) \in Nat
      /\ Known \subseteq Nat /\ server.outgoing \in Seq(Packets)
      /\ toServer \in Seq(Packets) /\ toClient \in Seq(Packets)
      /\ m + Len(Waiting) + Len(toServer) <= Pinged /\ Len(toServer) \in Nat
  BY InvNumbers
<1>3. /\ Waiting = echo_payloads /\ Waiting' = Tail(Waiting) /\ Waiting # << >>
      /\ Pinged' = Pinged /\ Answers' = Answers
  BY <1>1 DEF Waiting, Pinged, Answers
<1>4. x \in Nat /\ m + 1 \in Nat /\ m + 1 <= Rounds /\ m < Rounds /\ m <= m + 1
  <2>1. Len(Waiting) # 0 /\ x \in Nat
    BY <1>2, <1>3, EmptySeq, HeadTailProperties
  <2> QED BY <1>2, <2>1
<1>5. /\ Len(echoes') = m + 1 /\ echoes' \in Seq(Nat)
      /\ \A i \in 1 .. m : echoes'[i] = echoes[i]
  BY <1>1, <1>2, <1>4, AppendElements
<1>6. ToSet(echoes') = ToSet(echoes) \cup {x} /\ Known' = Known
  <2>1. ToSet(Append(echoes, x)) = ToSet(echoes) \cup {x}
    <3> HIDE DEF x
    <3> QED BY <1>2, <1>4, ElementsAppend
  <2>2. ToSet(Waiting) = {x} \cup ToSet(Tail(Waiting))
    BY <1>2, <1>3, ElementsTail
  <2>3. Known' = ToSet(echoes') \cup ToSet(Waiting')
    BY DEF Known, ToSet
  <2> HIDE DEF x
  <2> QED BY <1>1, <1>3, <2>1, <2>2, <2>3 DEF Known
<1>7. /\ Sound(server) /\ server.sequence = m % SeqSpace
      /\ Tracks(server.sent, 0, m, Nat) /\ Recording(server.received, Pinged, Known)
      /\ server.incoming = << >>
  BY <1>1 DEF Inv, ServerTracks, Queues
<1>8. /\ Sound(c) /\ c.sequence = (m + 1) % SeqSpace
      /\ Tracks(c.sent, 0, m + 1, Nat)
      /\ c.received = server.received /\ c.incoming = server.incoming
      /\ \/ c.outgoing = server.outgoing
         \/ \E d \in Packets : /\ c.outgoing = Append(server.outgoing, d)
                               /\ d.id = m
                               /\ Letter(d, m + 1, Known \cap 0 .. (Pinged - 1))
  <2> HIDE DEF m
  <2> QED BY <1>2, <1>4, <1>7, SendLetter
<1> HIDE DEF c
<1>9. \/ c.outgoing = server.outgoing
      \/ \E d \in Packets : /\ c.outgoing = Append(server.outgoing, d) /\ d.id = m
                            /\ Letter(d, m + 1, Known)
  <2> DEFINE K == Known \cap 0 .. (Pinged - 1)
             p == m + 1
  <2>1. K \subseteq Known /\ p \in Nat /\ p <= p
    BY <1>4
  <2> HIDE DEF K, p
  <2>2. \A d : Letter(d, p, K) => Letter(d, p, Known)
    BY <2>1, LettersGrow
  <2> QED BY <1>8, <2>2 DEF K, p
<1>10. Control'
  BY <1>1 DEF Inv, Control
<1>11. Queues'
  BY <1>1, <1>7, <1>8 DEF Inv, Queues
<1>12. Upstream'
  <2>1. Line(Append(echoes, x), Tail(Waiting), Ids(toServer), Pinged)
    BY <1>2, <1>3, LineShift DEF Inv, Upstream
  <2> QED BY <1>1, <1>3, <2>1 DEF Upstream
<1>13. Downstream'
  <2>1. PICK s \in [1 .. Len(Answers) -> 0 .. (m - 1)] :
            /\ Line(s, Ids(toClient), Ids(server.outgoing), m)
            /\ \A i \in 1 .. Len(s) : Answers[i] = echoes[s[i] + 1]
    BY DEF Inv, Downstream
  <2>2. /\ Line(s, Ids(toClient), Ids(server.outgoing), m + 1)
        /\ Line(s, Ids(toClient), Append(Ids(server.outgoing), m), m + 1)
    BY <1>2, <2>1, LineSend
  <2>3. Ids(c.outgoing) = Ids(server.outgoing) \/ Ids(c.outgoing) = Append(Ids(server.outgoing), m)
    BY <1>2, <1>9, IdsAppend, ZenonT(60)
  <2>4. Line(s, Ids(toClient), Ids(c.outgoing), m + 1)
    BY <2>2, <2>3
  <2>5. s \in [1 .. Len(Answers) -> 0 .. ((m + 1) - 1)]
    BY <1>2, <2>1
  <2>6. ASSUME NEW i \in 1 .. Len(s) PROVE Answers[i] = echoes'[s[i] + 1]
    <3>1. i \in 1 .. Len(Answers)
      <4>1. s \in Seq(Nat) /\ DOMAIN s = 1 .. Len(Answers)
        BY <2>1 DEF Line, Climbs
      <4> QED BY <2>6, <4>1, LenProperties
    <3>2. s[i] \in 0 .. (m - 1)
      BY <2>1, <3>1
    <3>3. s[i] + 1 \in 1 .. m
      BY <1>2, <3>2, SMTT(30)
    <3> QED BY <1>5, <2>1, <3>3
  <2>7. Ids(server.outgoing)' = Ids(c.outgoing) /\ Ids(toClient)' = Ids(toClient)
    BY <1>1 DEF Ids
  <2> HIDE DEF m
  <2> QED BY <1>3, <1>5, <2>4, <2>5, <2>6, <2>7 DEF Downstream
<1>14. Replies'
  BY <1>1 DEF Inv, Replies
<1>15. ClientTracks'
  <2>1. Tracks(client.sent, 0, Pinged, ToSet(echoes'))
    <3>1. Tracks(client.sent, 0, Pinged, ToSet(echoes)) /\ ToSet(echoes) \subseteq ToSet(echoes')
      BY <1>6 DEF Inv, ClientTracks
    <3> QED BY <3>1, MoreAccepted
  <2>2. Recording(client.received, m + 1, 0 .. ((m + 1) - 1))
    <3>1. Recording(client.received, m, 0 .. (m - 1)) /\ 0 .. (m - 1) \subseteq 0 .. ((m + 1) - 1)
      BY <1>2 DEF Inv, ClientTracks
    <3> HIDE DEF m
    <3> QED BY <1>2, <1>4, <3>1, RecordingGrows
  <2>3. Sound(client) /\ client.sequence = Pinged % SeqSpace
    BY DEF Inv, ClientTracks
  <2>4. ToSet(echoes)' = ToSet(echoes')
    BY DEF ToSet
  <2> HIDE DEF m
  <2> QED BY <1>1, <1>3, <1>5, <2>1, <2>2, <2>3, <2>4 DEF ClientTracks
<1>16. ServerTracks'
  <2> HIDE DEF m
  <2> QED BY <1>1, <1>3, <1>5, <1>6, <1>7, <1>8 DEF ServerTracks
<1>17. Travelling'
  <2>1. Letters(toServer, Pinged, 0 .. ((m + 1) - 1))
    <3> DEFINE A == 0 .. (m - 1)
               B == 0 .. ((m + 1) - 1)
    <3>1. Letters(toServer, Pinged, A) /\ A \subseteq B /\ Pinged <= Pinged
      BY <1>2 DEF Inv, Travelling
    <3> HIDE DEF A, B
    <3>2. Letters(toServer, Pinged, B)
      BY <1>2, <3>1, LettersGrow
    <3> QED BY <3>2 DEF B
  <2>2. Letters(toClient, m + 1, ToSet(echoes'))
    <3>1. Letters(toClient, m, ToSet(echoes)) /\ ToSet(echoes) \subseteq ToSet(echoes')
      BY <1>6 DEF Inv, Travelling
    <3> HIDE DEF m
    <3> QED BY <1>2, <1>4, <3>1, LettersGrow
  <2>3. Letters(server.outgoing, m + 1, Known)
    <3>1. Letters(server.outgoing, m, Known)
      BY DEF Inv, Travelling
    <3> HIDE DEF m
    <3> QED BY <1>2, <1>4, <3>1, LettersGrow
  <2>4. Letters(c.outgoing, m + 1, Known)
    <3> HIDE DEF m
    <3> QED BY <1>9, <2>3, LettersMove
  <2>5. ToSet(echoes)' = ToSet(echoes')
    BY DEF ToSet
  <2> HIDE DEF m
  <2> QED BY <1>1, <1>3, <1>5, <1>6, <2>1, <2>2, <2>4, <2>5 DEF Travelling
<1> QED BY <1>10, <1>11, <1>12, <1>13, <1>14, <1>15, <1>16, <1>17 DEF Inv

\* The first echo leaves the outgoing queue.
LEMMA ServerSendStep ==
    ASSUME Inv, ServerSend
    PROVE  Inv'
<1> DEFINE m == Len(echoes)
           u == server.outgoing
           d == Head(u)
           E == ToSet(echoes)
<1>1. /\ spc = "echo" /\ echo_payloads = << >> /\ u # << >> /\ SendTo(toClient, <<d>>)
      /\ server' = [server EXCEPT !.outgoing = Tail(@)]
      /\ spc' = spc /\ echo_payloads' = echo_payloads /\ echoes' = echoes
      /\ client' = client /\ cpc' = cpc /\ round' = round /\ reply' = reply
      /\ rtts' = rtts /\ timeouts' = timeouts
      /\ running' = running /\ visible' = visible /\ toServer' = toServer
  BY DEF ServerSend, clientVars
<1>2. /\ m \in Nat /\ u \in Seq(Packets) /\ toClient \in Seq(Packets)
  BY InvNumbers
<1>3. /\ Sound(server) /\ server.incoming = << >>
  BY <1>1 DEF Inv, ServerTracks, Queues
<1>4. /\ Tail(u) \in Seq(Packets) /\ Len(Tail(u)) = Len(u) - 1 /\ Len(u) \in Nat
      /\ Ids(Tail(u)) = Tail(Ids(u)) /\ Ids(u) # << >> /\ Head(Ids(u)) = d.id
  BY <1>1, <1>2, IdsTail
<1>5. /\ Keeps(server, server') /\ server'.incoming = << >> /\ server'.outgoing = Tail(u)
  <2> DEFINE v == Tail(u)
  <2>1. v \in Seq(Packets \cup Fragments)
    BY <1>4
  <2>2. Len(v) <= OutgoingSize
    BY <1>3, <1>4, LimitAssumption DEF Sound
  <2>3. server' = [server EXCEPT !.outgoing = v]
    BY <1>1
  <2> HIDE DEF v
  <2>4. EndpointRecord(server') /\ server'.outgoing = v /\ server'.time = server.time
        /\ server'.counters = server.counters /\ server'.sequence = server.sequence
        /\ server'.sent = server.sent /\ server'.received = server.received
        /\ server'.reassembly = server.reassembly /\ server'.incoming = server.incoming
        /\ server'.ack_buf = server.ack_buf
    BY <1>3, <2>3 DEF Sound, EndpointRecord, Endpoint
  <2>5. Sound(server')
    BY <1>3, <2>1, <2>2, <2>4 DEF Sound
  <2> QED BY <1>3, <2>4, <2>5 DEF Keeps, v
<1>6. /\ Waiting' = Waiting /\ Pinged' = Pinged /\ Answers' = Answers /\ Known' = Known
  BY <1>1 DEF Waiting, Pinged, Answers, Known
<1>7. Letters(toClient, m, E) /\ Letters(u, m, Known) /\ Known = E
  <2>1. Waiting = << >> /\ ToSet(<< >>) = {}
    BY <1>1 DEF Waiting, ToSet
  <2> QED BY <2>1 DEF Inv, Travelling, Known
<1>8. Letter(d, m, E) /\ Letters(Tail(u), m, E)
  BY <1>1, <1>7, LettersMove
<1>9. d \in Packets /\ (toClient' = toClient \/ toClient' = Append(toClient, d))
  <2>1. d \in Packets
    BY <1>8 DEF Letter
  <2> QED BY <1>1, <1>2, <2>1, ServerDatagram
<1>10. Control'
  BY <1>1 DEF Inv, Control
<1>11. Queues'
  BY <1>1, <1>5 DEF Inv, Queues
<1>12. Upstream'
  BY <1>1, <1>6 DEF Inv, Upstream
<1>13. Downstream'
  <2>1. PICK s \in [1 .. Len(Answers) -> 0 .. (m - 1)] :
            /\ Line(s, Ids(toClient), Ids(u), m)
            /\ \A i \in 1 .. Len(s) : Answers[i] = echoes[s[i] + 1]
    BY DEF Inv, Downstream
  <2>2. /\ Line(s, Ids(toClient), Ids(Tail(u)), m)
        /\ Line(s, Append(Ids(toClient), d.id), Ids(Tail(u)), m)
    BY <1>2, <1>4, <2>1, LineTake
  <2>3. Ids(toClient') = Ids(toClient) \/ Ids(toClient') = Append(Ids(toClient), d.id)
    BY <1>2, <1>9, IdsAppend
  <2>4. Ids(toClient)' = Ids(toClient') /\ Ids(server.outgoing)' = Ids(Tail(u))
    BY <1>5 DEF Ids
  <2>5. Line(s, Ids(toClient'), Ids(Tail(u)), m)
    BY <2>2, <2>3
  <2> QED BY <1>1, <1>6, <2>1, <2>4, <2>5 DEF Downstream
<1>14. Replies'
  BY <1>1 DEF Inv, Replies
<1>15. ClientTracks'
  BY <1>1, <1>6 DEF Inv, ClientTracks
<1>16. ServerTracks'
  BY <1>1, <1>5, <1>6 DEF Inv, ServerTracks, Keeps
<1>17. Travelling'
  <2>1. Letters(toClient', m, E)
    BY <1>7, <1>8, <1>9, LettersMove
  <2> QED BY <1>1, <1>5, <1>6, <1>7, <1>8, <2>1 DEF Inv, Travelling
<1> QED BY <1>10, <1>11, <1>12, <1>13, <1>14, <1>15, <1>16, <1>17 DEF Inv

\* The pass ends with clear_acks() and update().
LEMMA ServerEndPassStep ==
    ASSUME Inv, ServerEndPass
    PROVE  Inv'
<1> DEFINE E == ToSet(echoes)
<1>1. /\ spc = "echo" /\ echo_payloads = << >> /\ server.outgoing = << >>
      /\ server' = UpdateEndpoint(ClearAcks(server), round)
      /\ spc' = "load" /\ echo_payloads' = echo_payloads /\ echoes' = echoes
      /\ client' = client /\ cpc' = cpc /\ round' = round /\ reply' = reply
      /\ rtts' = rtts /\ timeouts' = timeouts
      /\ running' = running /\ visible' = visible
      /\ toServer' = toServer /\ toClient' = toClient
  BY DEF ServerEndPass, clientVars
<1>2. /\ Sound(server) /\ server.incoming = << >> /\ round \in Nat
  BY <1>1 DEF Inv, ServerTracks, Queues, Control
<1>3. Keeps(server, server') /\ server'.incoming = << >> /\ server'.outgoing = << >>
  <2> DEFINE c1 == ClearAcks(server)
  <2>1. Keeps(server, c1) /\ c1.incoming = << >> /\ c1.outgoing = << >>
    BY <1>1, <1>2, DrainKeeps
  <2> HIDE DEF c1
  <2>2. Sound(c1)
    BY <2>1 DEF Keeps
  <2>3. Keeps(c1, server') /\ server'.incoming = c1.incoming /\ server'.outgoing = c1.outgoing
    BY <1>1, <1>2, <2>2, UpdateSound DEF Keeps, c1
  <2> QED BY <2>1, <2>3 DEF Keeps
<1>4. /\ Waiting = << >> /\ Waiting' = << >> /\ Pinged' = Pinged /\ Answers' = Answers
  <2>1. Waiting' = Pings(server'.incoming)
    BY <1>1 DEF Waiting, Pings
  <2>2. Pings(<< >>) = << >>
    BY DEF Pings
  <2> QED BY <1>1, <1>3, <2>1, <2>2 DEF Waiting, Pinged, Answers
<1>5. Known = E /\ Known' = E
  <2>1. ToSet(<< >>) = {}
    BY DEF ToSet
  <2> QED BY <1>1, <1>4, <2>1 DEF Known
<1>6. Control'
  BY <1>1 DEF Inv, Control
<1>7. Queues'
  BY <1>1, <1>3 DEF Inv, Queues
<1>8. Upstream'
  BY <1>1, <1>4 DEF Inv, Upstream
<1>9. Downstream'
  <2>1. Ids(server.outgoing)' = Ids(server.outgoing) /\ Ids(toClient)' = Ids(toClient)
    BY <1>1, <1>3 DEF Ids
  <2> QED BY <1>1, <1>4, <2>1 DEF Inv, Downstream
<1>10. Replies'
  BY <1>1 DEF Inv, Replies
<1>11. ClientTracks'
  BY <1>1, <1>4 DEF Inv, ClientTracks
<1>12. ServerTracks'
  BY <1>1, <1>3, <1>4, <1>5 DEF Inv, ServerTracks, Keeps
<1>13. Travelling'
  BY <1>1, <1>3, <1>4, <1>5 DEF Inv, Travelling
<1> QED BY <1>6, <1>7, <1>8, <1>9, <1>10, <1>11, <1>12, <1>13 DEF Inv

\* The threads start in the invariant.
LEMMA InitInv ==
    ASSUME Init
    PROVE  Inv
<1> USE DEF Init
<1>1. Rounds \in Nat \ {0} /\ 0 % SeqSpace = 0
  BY LoopbackAssumption, Sizes
<1>2. /\ Pinged = 0 /\ Waiting = << >> /\ Answers = << >> /\ Len(<< >>) = 0
      /\ Ids(<< >>) = << >> /\ ToSet(<< >>) = {} /\ Known = {}
  <2>1. NewEndpoint.incoming = << >>
    BY DEF NewEndpoint
  <2>2. Pings(<< >>) = << >> /\ Measures(<< >>) = << >> /\ Ids(<< >>) = << >>
    BY DEF Pings, Measures, Ids
  <2>3. ToSet(<< >>) = {}
    BY DEF ToSet
  <2>4. Waiting = << >>
    BY <2>1, <2>2 DEF Waiting
  <2> QED BY <2>2, <2>3, <2>4 DEF Pinged, Answers, Known
<1>3. Fresh(NewEndpoint)
  BY NewIsFresh
<1>4. ASSUME NEW A
      PROVE  /\ Sound(NewEndpoint) /\ Tracks(NewEndpoint.sent, 0, 0, A)
             /\ Recording(NewEndpoint.received, 0, A)
  <2>1. /\ Sound(NewEndpoint) /\ Tracks(NewEndpoint.sent, 0, 0, A)
        /\ Remembers(NewEndpoint.received, 0, {}, Recent(0, 0))
    BY <1>1, <1>3, FreshFacts
  <2>2. Top(0, {}, 0) /\ {} \in SUBSET A /\ 0 \in 0 .. 0
    BY DEF Top
  <2> QED BY <2>1, <2>2 DEF Recording
<1>5. NewEndpoint.incoming = << >> /\ NewEndpoint.outgoing = << >> /\ NewEndpoint.sequence = 0
  BY <1>3 DEF Fresh
<1>6. Line(<< >>, << >>, << >>, 0)
  <2>1. << >> \in Seq(Nat) /\ Len(<< >>) = 0
    OBVIOUS
  <2> QED BY <2>1 DEF Line, Climbs, Below, Under
<1>7. \A V : Letters(<< >>, 0, V)
  BY DEF Letters
<1>8. Control
  BY <1>1 DEF Control, NoReply
<1>9. Queues
  BY <1>5 DEF Queues
<1>10. Upstream
  BY <1>2, <1>6 DEF Upstream
<1>11. Downstream
  <2>1. << >> \in [1 .. 0 -> 0 .. (0 - 1)]
    OBVIOUS
  <2>2. \A i \in 1 .. Len(<< >>) : << >>[i] = echoes[<< >>[i] + 1]
    BY <1>2
  <2> QED BY <1>2, <1>5, <1>6, <2>1, <2>2 DEF Downstream
<1>12. Replies
  BY DEF Replies
<1>13. ClientTracks
  BY <1>1, <1>2, <1>4, <1>5 DEF ClientTracks
<1>14. ServerTracks
  BY <1>1, <1>2, <1>4, <1>5 DEF ServerTracks
<1>15. Travelling
  BY <1>2, <1>5, <1>7 DEF Travelling
<1> QED BY <1>8, <1>9, <1>10, <1>11, <1>12, <1>13, <1>14, <1>15 DEF Inv

\* The invariant is inductive.
LEMMA Invariance == Spec => []Inv
<1>1. Init => Inv
  BY InitInv
<1>2. Inv /\ [Next]_vars => Inv'
  BY QuietActions, ClientSendStep, ClientRecvStep, ClientEndRoundStep, ServerRecvStep,
     ServerCollectStep, ServerEchoStep, ServerSendStep, ServerEndPassStep
     DEF Next, ClientStep, ServerStep
<1> QED BY <1>1, <1>2, PTL DEF Spec

--------------------------------------------------------------------------------
(* The theorems *)

\* The loops of the two threads stay within the rounds: no more rounds, timeouts or
\* pings to echo than NUM_ROUNDS.
THEOREM LoopbackTypes == Spec => []TypeOK
<1>1. Inv => TypeOK
  <2> SUFFICES ASSUME Inv PROVE TypeOK
    OBVIOUS
  <2>1. /\ Pinged \in Nat /\ Pinged <= Rounds /\ Rounds \in Nat
        /\ echoes \in Seq(Nat) /\ Waiting \in Seq(Nat)
    BY InvNumbers
  <2>2. ASSUME NEW s \in Seq(Nat), Under(s, Pinged) PROVE ToSet(s) \subseteq 0 .. (Rounds - 1)
    <3>1. DOMAIN s = 1 .. Len(s) /\ \A i \in 1 .. Len(s) : s[i] \in Nat /\ s[i] < Pinged
      BY <2>2, LenProperties DEF Under
    <3>2. \A i \in 1 .. Len(s) : s[i] \in 0 .. (Rounds - 1)
      BY <2>1, <3>1
    <3> QED BY <3>1, <3>2 DEF ToSet
  <2>3. Under(echoes, Pinged) /\ Under(Waiting, Pinged)
    BY DEF Inv, Upstream, Line
  <2>4. ToSet(echoes) \subseteq 0 .. (Rounds - 1) /\ ToSet(Waiting) \subseteq 0 .. (Rounds - 1)
    BY <2>1, <2>2, <2>3
  <2>5. ToSet(echo_payloads) \subseteq 0 .. (Rounds - 1)
    <3>1. CASE spc = "echo"
      BY <2>4, <3>1 DEF Waiting
    <3>2. CASE spc # "echo"
      BY <3>2 DEF Inv, Queues, ToSet
    <3> QED BY <3>1, <3>2
  <2>6. timeouts \in 0 .. Rounds
    BY <2>1 DEF Inv, Control
  <2> QED BY <2>4, <2>5, <2>6 DEF Inv, Control, TypeOK
<1> QED BY <1>1, Invariance, PTL

\* "Wait for the echoed reply" of udp_loopback.rs:138 takes whatever arrives: the reply
\* a round measures lags by no more rounds than went unanswered before it, so that
\* with none unanswered it echoes the round's own ping, and none is measured twice.
THEOREM ReplyLagIsBounded == Spec => []ReplyLagBounded
<1>1. Inv => ReplyLagBounded
  <2> SUFFICES ASSUME Inv, NEW i \in DOMAIN rtts
               PROVE  /\ rtts[i].ping \in
                             (rtts[i].round - (rtts[i].round - (i - 1))) .. rtts[i].round
                      /\ \A j \in 1 .. (i - 1) : rtts[j].ping < rtts[i].ping
    BY DEF ReplyLagBounded
  <2> DEFINE m == Len(echoes)
  <2>1. PICK s \in [1 .. Len(Answers) -> 0 .. (m - 1)] :
            /\ Line(s, Ids(toClient), Ids(server.outgoing), m)
            /\ \A k \in 1 .. Len(s) : Answers[k] = echoes[s[k] + 1]
    BY DEF Inv, Downstream
  <2>2. /\ Measures(rtts) \in Seq(Nat) /\ Len(rtts) \in Nat
        /\ Len(Measures(rtts)) = Len(rtts)
        /\ \A k \in 1 .. Len(rtts) : Measures(rtts)[k] = rtts[k].ping
    BY MeasuresType DEF Inv
  <2>3. /\ Len(rtts) <= Len(Answers) /\ Len(Answers) \in Nat
        /\ \A k \in 1 .. Len(rtts) : Answers[k] = rtts[k].ping
    <3>1. CASE cpc = "end" /\ reply # NoReply
      <4>1. reply \in Nat /\ Answers = Append(Measures(rtts), reply)
        BY <3>1, LoopbackAssumption DEF Inv, Control, Answers
      <4> QED BY <2>2, <4>1, AppendElements
    <3>2. CASE ~(cpc = "end" /\ reply # NoReply)
      BY <2>2, <3>2 DEF Answers
    <3> QED BY <3>1, <3>2
  <2>4. /\ s \in Seq(Nat) /\ Climbs(s, 0) /\ Climbs(echoes, 0) /\ m \in Nat
        /\ echoes \in Seq(Nat)
    BY InvNumbers, <2>1 DEF Inv, Upstream, Line, Climbs
  <2>5. Len(s) = Len(Answers)
    <3>1. DOMAIN s = 1 .. Len(Answers) /\ DOMAIN s = 1 .. Len(s) /\ Len(s) \in Nat
      BY <2>1, <2>4, LenProperties
    <3> QED BY <2>3, <3>1
  <2>6. ASSUME NEW k \in 1 .. Len(rtts)
        PROVE  /\ k \in 1 .. Len(s) /\ s[k] \in Nat /\ s[k] + 1 \in 1 .. m
               /\ rtts[k].ping = echoes[s[k] + 1] /\ rtts[k].ping \in Nat
               /\ k - 1 <= rtts[k].ping
    <3>1. k \in 1 .. Len(s) /\ k \in 1 .. Len(Answers)
      BY <2>2, <2>3, <2>5
    <3>2. s[k] \in 0 .. (m - 1)
      BY <2>1, <3>1
    <3>3. s[k] \in Nat /\ s[k] + 1 \in 1 .. m
      BY <2>4, <3>2
    <3>4. rtts[k].ping = echoes[s[k] + 1]
      BY <2>1, <2>3, <3>1
    <3>5. 0 + k <= s[k] + 1
      BY <2>4, <3>1 DEF Climbs
    <3>6. 0 + (s[k] + 1) <= echoes[s[k] + 1] + 1 /\ echoes[s[k] + 1] \in Nat
      BY <2>4, <3>3, SMTT(30) DEF Climbs
    <3> QED BY <3>1, <3>3, <3>4, <3>5, <3>6
  <2>7. /\ i \in 1 .. Len(rtts) /\ rtts[i].round \in Nat /\ rtts[i].ping <= rtts[i].round
    <3>1. rtts \in Seq([round : Nat, ping : Nat])
      BY DEF Inv, Replies
    <3>2. DOMAIN rtts = 1 .. Len(rtts) /\ \A k \in 1 .. Len(rtts) : rtts[k] \in [round : Nat, ping : Nat]
      BY <3>1, LenProperties, ElementOfSeq
    <3>3. rtts[i].round \in Nat
      BY <3>2
    <3> QED BY <3>2, <3>3 DEF Inv, Replies
  <2>8. rtts[i].ping \in (rtts[i].round - (rtts[i].round - (i - 1))) .. rtts[i].round
    BY <2>6, <2>7
  <2>9. ASSUME NEW j \in 1 .. (i - 1) PROVE rtts[j].ping < rtts[i].ping
    <3>1. j \in 1 .. Len(rtts) /\ j < i
      BY <2>2, <2>7
    <3>2. s[j] < s[i]
      BY <2>4, <2>6, <2>7, <3>1 DEF Climbs
    <3>3. /\ s[j] + 1 \in 1 .. Len(echoes) /\ s[i] + 1 \in 1 .. Len(echoes)
          /\ s[j] + 1 < s[i] + 1
      BY <2>6, <2>7, <3>1, <3>2
    <3>4. echoes[s[j] + 1] < echoes[s[i] + 1]
      BY <2>4, <3>3 DEF Climbs
    <3> QED BY <2>6, <2>7, <3>1, <3>4
  <2> QED BY <2>8, <2>9
<1> QED BY <1>1, Invariance, PTL

\* What the client's process_acks() marks acknowledged, the server's application has
\* read and echoed: no header leaves the server between the socket and the echoes.
THEOREM AckedPingsWereEchoed == Spec => []AckedWasEchoed
<1>1. Inv => AckedWasEchoed
  BY DEF Inv, ClientTracks, Tracks, AckedWasEchoed
<1> QED BY <1>1, Invariance, PTL

================================================================================
