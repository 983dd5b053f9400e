--------------------------- MODULE MCThreadCount ---------------------------
(* Instances of ThreadCount.                                                 *)
EXTENDS ThreadCount

Base == [start |-> <<L, R>>, mThreads |-> 0, single |-> FALSE,
         proto |-> "udp", speakers |-> {}, runNow |-> FALSE]

\* iperf -s -u, with a client that runs a trade-off test (-r).
UDPServer == [Base EXCEPT !.speakers = {1}]

\* iperf -s, with a client that runs a dual test for a time (-d -t).
TCPServer == [Base EXCEPT !.proto = "tcp_time", !.speakers = {1},
                          !.runNow = TRUE]

\* iperf -s -P 1 -1
SingleServer == [Base EXCEPT !.proto = "tcp_amount", !.mThreads = 1,
                             !.single = TRUE]

\* iperf -c host -r -n: a client, and a listener for the test back.
TradeOffClient == [Base EXCEPT !.start = <<L, <<"client", 1>>, R>>,
                               !.proto = "tcp_amount", !.mThreads = 1]

\* iperf -c host -P 2 -t: two clients and no listener.
TimedClients == [Base EXCEPT !.start = <<<<"client", 1>>, <<"client", 2>>, R>>,
                             !.proto = "tcp_time", !.mThreads = 2]

AllConfigs == {UDPServer, TCPServer, SingleServer, TradeOffClient, TimedClients}

=============================================================================
