---------------------------- MODULE PacketStats ----------------------------
(***************************************************************************)
(* The statistics of one transfer (reporter_handle_packet and              *)
(* reporter_condprintstats in src/iperf/src/Reporter.c).                   *)
(*                                                                         *)
(* The packets of a UDP server carry the numbers the client gave them and  *)
(* arrive lost, duplicated and out of order; those of a TCP transfer carry *)
(* the number 0.  A packet with a negative number (CloseReport) ends the   *)
(* transfer.  Arrival times never decrease and are counted in whole units  *)
(* from startTime.  Jitter is a running average that feeds no decision and *)
(* is left out.                                                            *)
(***************************************************************************)
EXTENDS Integers, Sequences, FiniteSetsExt

CONSTANTS
    Interval,    \* intervalTime; 0 when no interval reports are wanted
    IDs,         \* numbers of datagrams
    Lens,        \* packet lengths
    MaxTime,     \* bound on arrival times
    MaxPackets   \* bound on the packets of a transfer

ASSUME StatsAssumption ==
    /\ Interval \in Nat
    /\ IDs \subseteq Nat
    /\ Lens \subseteq Nat
    /\ MaxTime \in Nat
    /\ MaxPackets \in Nat

VARIABLES
    isUDP,    \* isUDP( data )
    pc,       \* where reporter_handle_packet is
    packet,   \* the packet it handles
    data,     \* the counters of ReporterData
    last,     \* the counters as of the last interval report
    endTime,  \* info.endTime, the end of the last interval report
    nextTime, \* when the next interval report is due
    log,      \* history: the packets counted so far
    printed,  \* output: the interval reports
    final     \* output: the final report, in a sequence of at most one

vars == <<isUDP, pc, packet, data, last, endTime, nextTime, log, printed,
          final>>

Packet == [id : Int, time : Nat, len : Nat]

Counters == [cntDatagrams : Nat, cntError : Nat, cntOutofOrder : Nat,
             PacketID : Nat, TotalLen : Nat]

Transfer_Info == [startTime : Nat, endTime : Nat, cntError : Int,
                  cntOutofOrder : Int, cntDatagrams : Int, TotalLen : Int]

\* The counters of ReporterData stay natural numbers: no gap that
\* reporter_handle_packet adds to cntError is negative.
TypeOK ==
    /\ isUDP \in BOOLEAN
    /\ pc \in {"idle", "before", "after", "done"}
    /\ packet \in Packet
    /\ data \in Counters
    /\ last \in Counters
    /\ endTime \in Nat
    /\ nextTime \in Nat
    /\ log \in Seq(Packet)
    /\ printed \in Seq(Transfer_Info)
    /\ final \in Seq(Transfer_Info)

Zero == [cntDatagrams |-> 0, cntError |-> 0, cntOutofOrder |-> 0,
         PacketID |-> 0, TotalLen |-> 0]

\* InitReport clears the header and sets nextTime one interval after
\* startTime.
Init ==
    /\ isUDP \in BOOLEAN
    /\ pc = "idle"
    /\ packet = [id |-> 0, time |-> 0, len |-> 0]
    /\ data = Zero
    /\ last = Zero
    /\ endTime = 0
    /\ nextTime = Interval
    /\ log = <<>>
    /\ printed = <<>>
    /\ final = <<>>

-----------------------------------------------------------------------------

\* "conditionally subtract them from the lost packets"
Lost(error, outofOrder) ==
    IF error > outofOrder THEN error - outofOrder ELSE error

\* The count of datagrams of a report: numbers for UDP, packets for TCP.
Datagrams(d) == IF isUDP THEN d.PacketID ELSE d.cntDatagrams

\* Mutant: the final report starts at the last interval report.
FinalReportSinceLast(d, time) ==
    [startTime     |-> 0,
     endTime       |-> time,
     cntError      |-> Lost(d.cntError, d.cntOutofOrder),
     cntOutofOrder |-> d.cntOutofOrder,
     cntDatagrams  |-> Datagrams(d),
     TotalLen      |-> d.TotalLen - last.TotalLen]

\* The final report, reporter_condprintstats with force set.
FinalReport(d, time) ==
    [startTime     |-> 0,
     endTime       |-> time,
     cntError      |-> Lost(d.cntError, d.cntOutofOrder),
     cntOutofOrder |-> d.cntOutofOrder,
     cntDatagrams  |-> Datagrams(d),
     TotalLen      |-> d.TotalLen]

\* An interval report: what was counted since the last one.
IntervalReport ==
    [startTime     |-> endTime,
     endTime       |-> nextTime,
     cntError      |-> Lost(data.cntError - last.cntError,
                            data.cntOutofOrder - last.cntOutofOrder),
     cntOutofOrder |-> data.cntOutofOrder - last.cntOutofOrder,
     cntDatagrams  |-> Datagrams(data) - Datagrams(last),
     TotalLen      |-> data.TotalLen - last.TotalLen]

IntervalDue == Interval # 0 /\ nextTime < packet.time

\* Mutant of Count: the number always follows the packet.
CountFollows(d, p) ==
    [d EXCEPT
       !.TotalLen = @ + p.len,
       !.cntOutofOrder = IF p.id # 0 /\ p.id < d.PacketID + 1 THEN @ + 1 ELSE @,
       !.cntError = IF p.id > d.PacketID + 1
                      THEN @ + (p.id - d.PacketID - 1) ELSE @,
       !.PacketID = IF p.id # 0 THEN p.id ELSE @]

\* What a packet adds to the counters: the number 0 is no number.
Count(d, p) ==
    [d EXCEPT
       !.TotalLen = @ + p.len,
       !.cntOutofOrder = IF p.id # 0 /\ p.id < d.PacketID + 1 THEN @ + 1 ELSE @,
       !.cntError = IF p.id > d.PacketID + 1
                      THEN @ + (p.id - d.PacketID - 1) ELSE @,
       !.PacketID = IF p.id > d.PacketID THEN p.id ELSE @]

-----------------------------------------------------------------------------

\* reporter_handle_packet takes the next packet from the ring.
Receive(p) ==
    /\ pc = "idle"
    /\ p.time >= packet.time
    /\ IF isUDP THEN p.id \in IDs ELSE p.id = 0
    /\ Len(log) < MaxPackets
    /\ packet' = p
    /\ data' = [data EXCEPT !.cntDatagrams = @ + 1]
    /\ pc' = "before"
    /\ UNCHANGED <<isUDP, last, endTime, nextTime, log, printed, final>>

\* The packet of CloseReport: no interval is looked at, the final report is
\* printed.  Its length is 0, for the server too.
Close(t) ==
    /\ pc = "idle"
    /\ t >= packet.time
    /\ packet' = [id |-> -1, time |-> t, len |-> 0]
    /\ LET d == [data EXCEPT !.cntDatagrams = @ + 1]
       IN  /\ data' = d
           /\ final' = Append(final, FinalReport(d, t))
    /\ endTime' = t
    /\ pc' = "done"
    /\ UNCHANGED <<isUDP, last, nextTime, log, printed>>

\* The body of the loop of reporter_condprintstats, which runs before and
\* after the packet is counted.
PrintInterval ==
    /\ pc \in {"before", "after"}
    /\ IntervalDue
    /\ printed' = Append(printed, IntervalReport)
    /\ last' = data
    /\ endTime' = nextTime
    /\ nextTime' = nextTime + Interval
    /\ UNCHANGED <<isUDP, pc, packet, data, log, final>>

\* Mutant: a packet is counted before the intervals that ended are printed.
CountPacketFirst ==
    /\ pc = "before"
    /\ data' = Count(data, packet)
    /\ log' = Append(log, packet)
    /\ pc' = "after"
    /\ UNCHANGED <<isUDP, packet, last, endTime, nextTime, printed, final>>

\* The packet is counted once no interval that ended before it is due.
CountPacket ==
    /\ pc = "before"
    /\ ~IntervalDue
    /\ data' = Count(data, packet)
    /\ log' = Append(log, packet)
    /\ pc' = "after"
    /\ UNCHANGED <<isUDP, packet, last, endTime, nextTime, printed, final>>

Return ==
    /\ pc = "after"
    /\ ~IntervalDue
    /\ pc' = "idle"
    /\ UNCHANGED <<isUDP, packet, data, last, endTime, nextTime, log, printed,
                   final>>

Next ==
    \/ \E t \in 0 .. MaxTime :
        \/ Close(t)
        \/ \E i \in IDs \cup {0}, l \in Lens :
              Receive([id |-> i, time |-> t, len |-> l])
    \/ PrintInterval
    \/ CountPacket
    \/ Return

Spec == Init /\ [][Next]_vars

-----------------------------------------------------------------------------
(* Correctness. *)

\* The numbers received, and the packets that carried one.
Seen == {log[i].id : i \in DOMAIN log} \ {0}
Numbered == {i \in DOMAIN log : log[i].id # 0}

\* How many numbers did not come, and how many packets came again.
Missing == Cardinality((1 .. data.PacketID) \ Seen)
Duplicates == Cardinality(Numbered) - Cardinality(Seen)

\* reporter_handle_packet counts gaps and late packets as it goes, without
\* remembering which numbers it saw.  The two counters are exact all the
\* same: what is missing below the highest number, less what came twice, is
\* the gaps less the late packets, whatever the order of arrival.
LossIdentity == data.cntError - data.cntOutofOrder = Missing - Duplicates

CountedBy(t) == IF t = 0 THEN {} ELSE {i \in DOMAIN log : log[i].time <= t}
Late(i) == log[i].id # 0 /\ \E j \in 1 .. i - 1 : log[j].id >= log[i].id
Highest(S) == Max({0} \cup {log[i].id : i \in S})
SumLen(S) == MapThenSumSet(LAMBDA i : log[i].len, S)

\* An interval report says what arrived after its start and up to its end,
\* no more and no less, and the intervals follow each other without a hole:
\* packets are counted after the intervals that ended before them are
\* printed, empty intervals included (reporter_condprintstats).  Its losses
\* are the gaps of the interval less its late packets, when there are more
\* gaps; LateNotLost is about the other case.
IntervalsExact ==
    \A k \in DOMAIN printed :
        LET r == printed[k]
            window == CountedBy(r.endTime) \ CountedBy(r.startTime)
            late == Cardinality({i \in window : Late(i)})
            fresh == Cardinality({i \in window \cap Numbered : ~Late(i)})
            risen == Highest(CountedBy(r.endTime))
                       - Highest(CountedBy(r.startTime))
            gaps == risen - fresh
        IN  /\ r.startTime = (k - 1) * Interval
            /\ r.endTime = k * Interval
            /\ r.TotalLen = SumLen(window)
            /\ isUDP => /\ r.cntDatagrams = risen
                        /\ r.cntOutofOrder = late
                        /\ gaps > late => r.cntError = gaps - late
                        /\ gaps = 0 => r.cntError = 0

\* The final report covers the whole transfer, whatever the interval reports
\* took from the counters before it, and the interval reports do not say
\* more bytes than it.  Where nothing came twice it says as lost what never
\* came, if something is missing or nothing came late.
FinalExact ==
    pc = "done" =>
        /\ final[1].TotalLen = SumLen(DOMAIN log)
        /\ isUDP => final[1].cntDatagrams = Highest(DOMAIN log)
        /\ isUDP /\ Duplicates = 0 /\ (Missing > 0 \/ final[1].cntOutofOrder = 0)
             => final[1].cntError = Missing
        /\ MapThenSumSet(LAMBDA k : printed[k].TotalLen, DOMAIN printed)
             <= final[1].TotalLen

\* "Iperf assumes they are not duplicate packets, so they are excluded from
\* the lost packet count": where nothing came twice, the final report says as
\* lost what never came.  reporter_condprintstats subtracts the late packets
\* only if there are more gaps, so it says that all gaps are lost when all of
\* them were filled.
LateNotLost ==
    pc = "done" /\ isUDP /\ Duplicates = 0 => final[1].cntError = Missing

=============================================================================
