----------------------------- MODULE UdpSession -----------------------------
(***************************************************************************)
(* UDP tests of iperf clients against one server process: the datagrams,   *)
(* the FIN with its retries and the AckFIN with the server's report        *)
(* (Client::Run and write_UDP_FIN in src/iperf/src/Client.cpp,             *)
(* Listener::Accept and Run in Listener.cpp, Server::Run and               *)
(* write_UDP_AckFIN in Server.cpp).                                        *)
(*                                                                         *)
(* Datagrams may be lost, or delayed behind later ones.  Otherwise they    *)
(* arrive in order and at once in the queue of a socket: the connected one *)
(* of the client's session if there is one, else the listening one.  The   *)
(* listener turns its own socket into the session's by connecting it,      *)
(* which keeps what is queued there, and then opens a new one.             *)
(***************************************************************************)
EXTENDS Integers, Sequences, FiniteSets

CONSTANTS
    Clients,
    MaxData,   \* bound on the datagrams a client sends
    MaxTries,  \* tries of the FIN and of its acknowledgement; 10 in the code
    MaxLate    \* bound on delayed datagrams

ASSUME UdpAssumption ==
    /\ IsFiniteSet(Clients)
    /\ MaxData \in Nat \ {0}
    /\ MaxTries \in Nat \ {0}
    /\ MaxLate \in Nat

VARIABLES
    cpc,       \* where each client is
    sent,      \* datagrams each client has sent
    finID,     \* what CloseReport left in packetID
    tries,     \* FINs each client has sent
    acks,      \* AckFINs in each client's socket
    relayed,   \* the server report each client printed, in a sequence
    late,      \* delayed datagrams
    refused,   \* clients whose socket has a pending ECONNREFUSED
    lpc,       \* where the listener is
    lq,        \* queue of the listening socket
    arrived,   \* history: datagrams of each client that got into a queue
               \* before a FIN did, and whether a FIN has
    sessions   \* the server threads, in the order they were started

client == <<cpc, sent, finID, tries, relayed>>
vars == <<client, acks, late, refused, lpc, lq, arrived, sessions>>

Datagram == [from : Clients, id : Int, late : BOOLEAN]

\* counted: the datagrams the session passed to ReportPacket, its report;
\* late: it was started by a delayed datagram; mixed: its socket held
\* datagrams of other clients when it was connected.
Session == [peer : Clients, late : BOOLEAN, mixed : BOOLEAN, q : Seq(Datagram),
            counted : Seq(Datagram), pc : {"recv", "ack", "select", "delete",
            "close", "gone"}, tries : 0 .. MaxTries]

\* Types; neither side of the FIN exchange exceeds its number of tries.
TypeOK ==
    /\ cpc \in [Clients -> {"send", "fin", "select", "done"}]
    /\ \A c \in Clients : finID[c] \in 0 .. sent[c] + 1 /\ sent[c] \in 0 .. MaxData
    /\ tries \in [Clients -> 0 .. MaxTries]
    /\ acks \in [Clients -> Seq(Seq(Datagram))]
    /\ relayed \in [Clients -> Seq(Seq(Datagram))]
    /\ late \subseteq Datagram
    /\ refused \subseteq Clients
    /\ lpc \in {"recv", "listen"}
    /\ lq \in Seq(Datagram)
    /\ arrived \in [Clients -> [data : Nat, fin : BOOLEAN]]
    /\ sessions \in Seq(Session)

Init ==
    /\ cpc = [c \in Clients |-> "send"]
    /\ sent = [c \in Clients |-> 0]
    /\ finID = [c \in Clients |-> 0]
    /\ tries = [c \in Clients |-> 0]
    /\ acks = [c \in Clients |-> <<>>]
    /\ relayed = [c \in Clients |-> <<>>]
    /\ late = {}
    /\ refused = {}
    /\ lpc = "recv"
    /\ lq = <<>>
    /\ arrived = [c \in Clients |-> [data |-> 0, fin |-> FALSE]]
    /\ sessions = <<>>

-----------------------------------------------------------------------------
(* Sockets and the network. *)

Connected(c) == {s \in DOMAIN sessions :
                   sessions[s].peer = c /\ sessions[s].pc # "gone"}

\* Note that a datagram got into a queue.
Queued(d) ==
    arrived' = [arrived EXCEPT ![d.from] =
                  [data |-> IF @.fin \/ d.id < 0 THEN @.data ELSE @.data + 1,
                   fin  |-> @.fin \/ d.id < 0]]

\* A datagram arrives: at the session, at the listener, or at a port without
\* a socket, which the sender is told of.
Arrive(d) ==
    \/ /\ Connected(d.from) # {}
       /\ LET s == CHOOSE s \in Connected(d.from) :
                     \A r \in Connected(d.from) : r <= s
          IN  sessions' = [sessions EXCEPT ![s].q = Append(@, d)]
       /\ Queued(d)
       /\ UNCHANGED <<lq, refused>>
    \/ /\ Connected(d.from) = {} /\ lpc = "recv"
       /\ lq' = Append(lq, d)
       /\ Queued(d)
       /\ UNCHANGED <<sessions, refused>>
    \/ /\ Connected(d.from) = {} /\ lpc = "listen"
       /\ refused' = refused \cup (IF cpc[d.from] = "done" THEN {} ELSE {d.from})
       /\ UNCHANGED <<sessions, lq, arrived>>

\* A client's write: it fails on a pending error, else the datagram arrives,
\* is lost, or is delayed.
Write(c, id) ==
    LET d == [from |-> c, id |-> id, late |-> FALSE]
    IN  \/ /\ c \in refused
           /\ refused' = refused \ {c}
           /\ UNCHANGED <<lq, arrived, sessions, late>>
        \/ /\ c \notin refused
           /\ Arrive(d) /\ UNCHANGED late
        \/ /\ c \notin refused
           /\ UNCHANGED <<lq, arrived, sessions, late, refused>>
        \/ /\ c \notin refused
           /\ Cardinality(late) < MaxLate
           /\ id >= 0
           /\ late' = late \cup {[d EXCEPT !.late = TRUE]}
           /\ UNCHANGED <<lq, arrived, sessions, refused>>

LateArrival(d) ==
    /\ d \in late
    /\ late' = late \ {d}
    /\ Arrive(d)
    /\ UNCHANGED <<client, acks, lpc>>

-----------------------------------------------------------------------------
(* The client. *)

\* The loop of Client::Run.
Send(c) ==
    /\ cpc[c] = "send"
    /\ sent[c] < MaxData
    /\ Write(c, sent[c])
    /\ sent' = [sent EXCEPT ![c] = @ + 1]
    /\ UNCHANGED <<cpc, finID, tries, relayed, acks, lpc>>

\* The loop ends; CloseReport leaves in packetID what the reporter happens to
\* have counted, the closing packet included (CloseReportID in ReportRing).
Close(c) ==
    /\ cpc[c] = "send"
    /\ sent[c] > 0
    /\ \E n \in 0 .. sent[c] + 1 : finID' = [finID EXCEPT ![c] = n]
    /\ cpc' = [cpc EXCEPT ![c] = "fin"]
    /\ UNCHANGED <<sent, tries, relayed, acks, late, refused, lpc, lq, arrived,
                   sessions>>

\* write_UDP_FIN: one turn of its loop.
Fin(c) ==
    /\ cpc[c] = "fin"
    /\ tries' = [tries EXCEPT ![c] = @ + 1]
    /\ Write(c, -finID[c])
    /\ cpc' = [cpc EXCEPT ![c] = "select"]
    /\ UNCHANGED <<sent, finID, relayed, acks, lpc>>

\* select timed out.
FinTimeout(c) ==
    /\ cpc[c] = "select"
    /\ acks[c] = <<>>
    /\ c \notin refused
    /\ cpc' = [cpc EXCEPT ![c] = IF tries[c] < MaxTries THEN "fin" ELSE "done"]
    /\ UNCHANGED <<sent, finID, tries, relayed, acks, late, refused, lpc, lq,
                   arrived, sessions>>

\* The read fails on the pending error; "break".
FinRefused(c) ==
    /\ cpc[c] = "select"
    /\ c \in refused
    /\ refused' = refused \ {c}
    /\ cpc' = [cpc EXCEPT ![c] = "done"]
    /\ UNCHANGED <<sent, finID, tries, relayed, acks, late, lpc, lq, arrived,
                   sessions>>

\* The AckFIN is read, ReportServerUDP prints what it says, and the socket is
\* closed with whatever else it holds.
FinAcked(c) ==
    /\ cpc[c] = "select"
    /\ acks[c] # <<>>
    /\ c \notin refused
    /\ relayed' = [relayed EXCEPT ![c] = Append(@, Head(acks[c]))]
    /\ acks' = [acks EXCEPT ![c] = <<>>]
    /\ cpc' = [cpc EXCEPT ![c] = "done"]
    /\ UNCHANGED <<sent, finID, tries, late, refused, lpc, lq, arrived,
                   sessions>>

Client(c) == Send(c) \/ Close(c) \/ Fin(c) \/ FinTimeout(c) \/ FinRefused(c)
               \/ FinAcked(c)

-----------------------------------------------------------------------------
(* The listener. *)

\* Iperf_present: the client is in the list until its server deletes it.
Present(c) == \E s \in DOMAIN sessions :
                 sessions[s].peer = c /\ sessions[s].pc \notin {"close", "gone"}

\* The listener takes a datagram and, if "starts", makes its socket that of a
\* new server.  The datagram itself is not counted.
TakeDatagram(starts) ==
    /\ lpc = "recv"
    /\ lq # <<>>
    /\ LET d == Head(lq)
       IN  IF starts
             THEN /\ lq' = <<>>
                  /\ sessions' = Append(sessions,
                        [peer |-> d.from, late |-> d.late,
                         mixed |-> \E i \in DOMAIN lq : lq[i].from # d.from,
                         q |-> Tail(lq), counted |-> <<>>, pc |-> "recv",
                         tries |-> 0])
                  /\ lpc' = "listen"
             ELSE lq' = Tail(lq) /\ UNCHANGED <<lpc, sessions>>
    /\ UNCHANGED <<client, acks, late, refused, arrived>>

\* Mutant: a FIN starts a server too.
ListenerRecvFin == TakeDatagram(~Present(Head(lq).from))

\* Accept and the rest of the loop: a data datagram of a new client starts a
\* server.
ListenerRecv == TakeDatagram(~Present(Head(lq).from) /\ Head(lq).id >= 0)

\* Listen: the listener opens a new socket.
Listen ==
    /\ lpc = "listen"
    /\ lpc' = "recv"
    /\ UNCHANGED <<client, acks, late, refused, lq, arrived, sessions>>

-----------------------------------------------------------------------------
(* A server thread. *)

\* Mutant: the FIN is not counted.
ServerRecvSkipsFin(s) ==
    /\ sessions[s].pc = "recv"
    /\ sessions[s].q # <<>>
    /\ LET d == Head(sessions[s].q)
       IN  sessions' = [sessions EXCEPT
             ![s].q = Tail(@),
             ![s].counted = IF d.id < 0 THEN @ ELSE Append(@, d),
             ![s].pc = IF d.id < 0 THEN "ack" ELSE @]
    /\ UNCHANGED <<client, acks, late, refused, lpc, lq, arrived>>

\* The loop of Server::Run: a datagram is counted, a FIN with the sign of its
\* number changed, and the FIN ends the loop.
ServerRecv(s) ==
    /\ sessions[s].pc = "recv"
    /\ sessions[s].q # <<>>
    /\ LET d == Head(sessions[s].q)
       IN  sessions' = [sessions EXCEPT
             ![s].q = Tail(@),
             ![s].counted = Append(@, [d EXCEPT !.id = IF @ < 0 THEN -@ ELSE @]),
             ![s].pc = IF d.id < 0 THEN "ack" ELSE @]
    /\ UNCHANGED <<client, acks, late, refused, lpc, lq, arrived>>

\* write_UDP_AckFIN: GetReport and write, which may be lost; a client that
\* is done has no socket.
AckFin(s) ==
    /\ sessions[s].pc = "ack"
    /\ sessions' = [sessions EXCEPT ![s].pc = "select", ![s].tries = @ + 1]
    /\ LET c == sessions[s].peer
       IN  \/ UNCHANGED acks
           \/ /\ cpc[c] # "done"
              /\ acks' = [acks EXCEPT ![c] = Append(@, sessions[s].counted)]
    /\ UNCHANGED <<client, late, refused, lpc, lq, arrived>>

\* Mutant: what comes after the FIN is counted.
AckFinRereadCounts(s) ==
    /\ sessions[s].pc = "select"
    /\ sessions[s].q # <<>>
    /\ sessions' = [sessions EXCEPT
         ![s].q = Tail(@),
         ![s].counted = Append(@, Head(sessions[s].q)),
         ![s].pc = IF sessions[s].tries < MaxTries THEN "ack" ELSE "delete"]
    /\ UNCHANGED <<client, acks, late, refused, lpc, lq, arrived>>

\* Mutant: a FIN sent again is always answered.
AckFinRereadAlways(s) ==
    /\ sessions[s].pc = "select"
    /\ sessions[s].q # <<>>
    /\ sessions' = [sessions EXCEPT ![s].q = Tail(@), ![s].pc = "ack"]
    /\ UNCHANGED <<client, acks, late, refused, lpc, lq, arrived>>

\* Any datagram that comes in is taken for a FIN sent again.
AckFinReread(s) ==
    /\ sessions[s].pc = "select"
    /\ sessions[s].q # <<>>
    /\ sessions' = [sessions EXCEPT
         ![s].q = Tail(@),
         ![s].pc = IF sessions[s].tries < MaxTries THEN "ack" ELSE "delete"]
    /\ UNCHANGED <<client, acks, late, refused, lpc, lq, arrived>>

\* Mutant: the select has no time-out.
AckFinNoTimeout(s) ==
    /\ sessions[s].pc = "select"
    /\ sessions[s].q # <<>>
    /\ sessions' = [sessions EXCEPT ![s].pc = "delete"]
    /\ UNCHANGED <<client, acks, late, refused, lpc, lq, arrived>>

\* select timed out, or the read failed because the client is gone: return.
AckFinTimeout(s) ==
    /\ sessions[s].pc = "select"
    /\ sessions[s].q = <<>>
    /\ sessions' = [sessions EXCEPT ![s].pc = "delete"]
    /\ UNCHANGED <<client, acks, late, refused, lpc, lq, arrived>>

\* Iperf_delete, EndReport ...
Delete(s) ==
    /\ sessions[s].pc = "delete"
    /\ sessions' = [sessions EXCEPT ![s].pc = "close"]
    /\ UNCHANGED <<client, acks, late, refused, lpc, lq, arrived>>

\* ... and ~Server closes the socket.
CloseSocket(s) ==
    /\ sessions[s].pc = "close"
    /\ sessions' = [sessions EXCEPT ![s].pc = "gone", ![s].q = <<>>]
    /\ UNCHANGED <<client, acks, late, refused, lpc, lq, arrived>>

Server(s) == ServerRecv(s) \/ AckFin(s) \/ AckFinReread(s) \/ AckFinTimeout(s)
               \/ Delete(s) \/ CloseSocket(s)

Next ==
    \/ \E c \in Clients : Client(c)
    \/ \E d \in late : LateArrival(d)
    \/ ListenerRecv \/ Listen
    \/ \E s \in DOMAIN sessions : Server(s)

\* The threads run on; nothing is assumed of the network.
Spec ==
    /\ Init /\ [][Next]_vars
    /\ WF_vars(\E c \in Clients : Client(c))
    /\ WF_vars(ListenerRecv \/ Listen)
    /\ WF_vars(\E s \in DOMAIN sessions : Server(s))

-----------------------------------------------------------------------------
(* Correctness. *)

Mixed == \E s \in DOMAIN sessions : sessions[s].mixed

\* What a client prints as the server's report is the final report of a
\* session of its own, closed by a FIN, in which nothing is counted any more
\* whatever arrives later.
RelayedIsFinal ==
    \A c \in Clients : relayed[c] # <<>> =>
        \E s \in DOMAIN sessions :
            /\ sessions[s].peer = c
            /\ sessions[s].pc # "recv"
            /\ relayed[c] = <<sessions[s].counted>>

\* A client has one session: a retried FIN or a datagram still in a queue
\* starts no other, only a data datagram that its own FIN overtook does, or
\* one that comes after the FIN of another client closed the session.
OneSession ==
    \A r, s \in DOMAIN sessions :
        r < s /\ sessions[r].peer = sessions[s].peer =>
            \/ sessions[s].late
            \/ Mixed

\* "The server counts this one, but didn't count our first datagram, so we're
\* even now" (Client.cpp:336-337): a session that a FIN closed has counted as
\* many datagrams as the data datagrams that arrived before the FIN.
Even ==
    \A s \in DOMAIN sessions :
        sessions[s].pc # "recv" /\ ~sessions[s].late /\ ~Mixed =>
            Len(sessions[s].counted) = arrived[sessions[s].peer].data

\* Every client ends, and so does every server that has seen a FIN, however
\* often the FIN is sent again and whether or not anyone reads its answer.
FinEnds ==
    <>[](/\ \A c \in Clients : cpc[c] = "done"
         /\ \A s \in DOMAIN sessions : sessions[s].pc \in {"recv", "gone"})

=============================================================================
