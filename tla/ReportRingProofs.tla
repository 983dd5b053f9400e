-------------------------- MODULE ReportRingProofs --------------------------
(***************************************************************************)
(* Proofs about ReportRing for every ring size NUM_REPORT_STRUCTS >= 3 and *)
(* every length of the transfer.                                           *)
(***************************************************************************)
EXTENDS ReportRing, TLAPS

\* InitReport leaves the ring empty: the reporter on the last slot, the agent
\* on the first.
LEMMA InitInd == Init => IndInv
  BY RingAssumption
  DEF Init, IndInv, TypeOK, RingDistance, RingContents, AgentInv, ReporterInv, Taken, Wrapped,
      Pending, SeqAt, Closed, ReportStruct, Slots, None, WrapPCs, LapPCs,
      ClosedPCs, AgentPCs, ReporterPCs

\* Every step of either thread preserves the invariant.
LEMMA NextInd == IndInv /\ [Next]_vars => IndInv'
<1> SUFFICES ASSUME IndInv, [Next]_vars PROVE IndInv'
  OBVIOUS
<1> USE RingAssumption DEF IndInv, TypeOK, ReportStruct, Slots, None, WrapPCs,
        LapPCs, WaitPCs, ClosedPCs, AgentPCs, ReporterPCs, agentVars,
        reporterVars
<1>1. CASE Transfer
  <2>1. TypeOK'
    BY <1>1 DEF Transfer, ReportPacket
  <2>2. RingDistance'
    BY <1>1 DEF Transfer, ReportPacket, RingDistance, AgentInv, ReporterInv, Taken, Wrapped
  <2>3. RingContents'
    BY <1>1 DEF Transfer, ReportPacket, RingDistance, RingContents, AgentInv, ReporterInv, Taken,
        Wrapped, Pending, SeqAt, Closed
  <2>4. AgentInv'
    BY <1>1 DEF Transfer, ReportPacket, RingDistance, AgentInv, ReporterInv, Taken, Wrapped, Closed
  <2>5. ReporterInv'
    BY <1>1 DEF Transfer, ReportPacket, RingDistance, AgentInv, ReporterInv, Taken, Wrapped, Closed
  <2> QED BY <2>1, <2>2, <2>3, <2>4, <2>5
<1>2. CASE CloseReport
  <2>1. TypeOK'
    BY <1>2 DEF CloseReport, ReportPacket
  <2>2. RingDistance'
    BY <1>2 DEF CloseReport, ReportPacket, RingDistance, AgentInv, ReporterInv, Taken, Wrapped
  <2>3. RingContents'
    BY <1>2 DEF CloseReport, ReportPacket, RingDistance, RingContents, AgentInv, ReporterInv, Taken,
        Wrapped, Pending, SeqAt, Closed
  <2>4. AgentInv'
    BY <1>2 DEF CloseReport, ReportPacket, RingDistance, AgentInv, ReporterInv, Taken, Wrapped, Closed
  <2>5. ReporterInv'
    BY <1>2 DEF CloseReport, ReportPacket, RingDistance, AgentInv, ReporterInv, Taken, Wrapped, Closed
  <2> QED BY <2>1, <2>2, <2>3, <2>4, <2>5
<1>3. CASE Wrap
  <2>1. TypeOK'
    BY <1>3 DEF Wrap, WrapBlocked
  <2>2. RingDistance'
    <3>1. CASE WrapBlocked
      BY <1>3, <3>1 DEF Wrap, RingDistance, Taken, Wrapped
    <3>2. CASE ~WrapBlocked
      <4>1. agentindex' = 0 /\ agentindex = NUM_REPORT_STRUCTS /\ reporterindex >= 1
        BY <1>3, <3>2 DEF Wrap, WrapBlocked, AgentInv
      <4>2. /\ ~Wrapped /\ Wrapped' /\ Taken' = Taken /\ Taken \in {0, 1}
            /\ UNCHANGED <<reporterindex, cntDatagrams, sent>>
        BY <1>3, <4>1 DEF Wrap, Wrapped, Taken
      <4> QED BY <4>1, <4>2 DEF RingDistance
    <3> QED BY <3>1, <3>2
  <2>3. RingContents'
    BY <1>3 DEF Wrap, WrapBlocked, RingDistance, RingContents, AgentInv, ReporterInv, Taken,
        Wrapped, Pending, SeqAt, Closed
  <2>4. AgentInv'
    BY <1>3 DEF Wrap, WrapBlocked, RingDistance, AgentInv, ReporterInv, Taken, Wrapped, Closed
  <2>5. ReporterInv'
    BY <1>3 DEF Wrap, WrapBlocked, RingDistance, AgentInv, ReporterInv, Taken, Wrapped, Closed
  <2> QED BY <2>1, <2>2, <2>3, <2>4, <2>5
<1>4. CASE Lap
  <2>1. TypeOK'
    BY <1>4 DEF Lap, LapBlocked
  <2>2. RingDistance'
    BY <1>4 DEF Lap, LapBlocked, RingDistance, AgentInv, ReporterInv, Taken, Wrapped
  <2>3. RingContents'
    BY <1>4 DEF Lap, LapBlocked, RingDistance, RingContents, AgentInv, ReporterInv, Taken,
        Wrapped, Pending, SeqAt, Closed
  <2>4. AgentInv'
    BY <1>4 DEF Lap, LapBlocked, RingDistance, AgentInv, ReporterInv, Taken, Wrapped, Closed
  <2>5. ReporterInv'
    BY <1>4 DEF Lap, LapBlocked, RingDistance, AgentInv, ReporterInv, Taken, Wrapped, Closed
  <2> QED BY <2>1, <2>2, <2>3, <2>4, <2>5
<1>5. CASE Block
  <2>1. TypeOK'
    BY <1>5 DEF Block
  <2>2. RingDistance'
    BY <1>5 DEF Block, RingDistance, AgentInv, ReporterInv, Taken, Wrapped
  <2>3. RingContents'
    BY <1>5 DEF Block, RingDistance, RingContents, AgentInv, ReporterInv, Taken,
        Wrapped, Pending, SeqAt, Closed
  <2>4. AgentInv'
    BY <1>5 DEF Block, RingDistance, AgentInv, ReporterInv, Taken, Wrapped, Closed
  <2>5. ReporterInv'
    BY <1>5 DEF Block, RingDistance, AgentInv, ReporterInv, Taken, Wrapped, Closed
  <2> QED BY <2>1, <2>2, <2>3, <2>4, <2>5
<1>6. CASE Reread
  <2>1. TypeOK'
    BY <1>6 DEF Reread
  <2>2. RingDistance'
    BY <1>6 DEF Reread, RingDistance, AgentInv, ReporterInv, Taken, Wrapped
  <2>3. RingContents'
    BY <1>6 DEF Reread, RingDistance, RingContents, AgentInv, ReporterInv, Taken,
        Wrapped, Pending, SeqAt, Closed
  <2>4. AgentInv'
    BY <1>6 DEF Reread, RingDistance, AgentInv, ReporterInv, Taken, Wrapped, Closed
  <2>5. ReporterInv'
    BY <1>6 DEF Reread, RingDistance, AgentInv, ReporterInv, Taken, Wrapped, Closed
  <2> QED BY <2>1, <2>2, <2>3, <2>4, <2>5
<1>7. CASE Put
  <2>1. TypeOK'
    BY <1>7 DEF Put
  <2>2. RingDistance'
    BY <1>7 DEF Put, RingDistance, AgentInv, ReporterInv, Taken, Wrapped
  <2>3. RingContents'
    BY <1>7 DEF Put, RingDistance, RingContents, AgentInv, ReporterInv, Taken,
        Wrapped, Pending, SeqAt, Closed
  <2>4. AgentInv'
    BY <1>7 DEF Put, RingDistance, AgentInv, ReporterInv, Taken, Wrapped, Closed
  <2>5. ReporterInv'
    BY <1>7 DEF Put, RingDistance, AgentInv, ReporterInv, Taken, Wrapped, Closed
  <2> QED BY <2>1, <2>2, <2>3, <2>4, <2>5
<1>8. CASE Publish
  <2>1. TypeOK'
    BY <1>8 DEF Publish, AgentInv
  <2>2. RingDistance'
    BY <1>8 DEF Publish, RingDistance, AgentInv, ReporterInv, Taken, Wrapped
  <2>3. RingContents'
    <3> SUFFICES ASSUME NEW i \in Slots, reporterindex >= 0, Pending(i)'
                 PROVE  /\ data[i].seq = SeqAt(i)
                        /\ data[i].packetID =
                             (IF Closed' /\ data[i].seq = sent + 1 THEN -1 ELSE 0)
      BY <1>8 DEF Publish, RingContents, SeqAt, Taken
    <3>1. /\ agentindex' = agentindex + 1 /\ agentindex \in Slots
          /\ Taken' = Taken /\ Taken \in {0, 1}
          /\ Wrapped' <=> Wrapped
          /\ Closed' <=> packet.packetID = -1
          /\ ~Closed
          /\ data[agentindex] = packet /\ packet.seq = sent + 1
      BY <1>8 DEF Publish, AgentInv, Taken, Wrapped, Closed
    <3>2. Pending(i) \/ i = agentindex
      BY <1>8, <3>1 DEF Publish, Pending
    <3>3. CASE Pending(i)
      <4>1. data[i].seq = SeqAt(i) /\ data[i].packetID = 0
        BY <3>1, <3>3 DEF RingContents
      <4>2. SeqAt(i) <= sent
        BY <3>1, <3>3 DEF RingDistance, Pending, SeqAt, Wrapped
      <4> QED BY <4>1, <4>2, <3>1 DEF SeqAt
    <3>4. CASE i = agentindex
      <4>1. SeqAt(agentindex) = sent + 1
        BY <1>8, <3>1 DEF RingDistance, SeqAt, Wrapped, AgentInv
      <4> QED BY <4>1, <3>1, <3>4
    <3> QED BY <3>2, <3>3, <3>4
  <2>4. AgentInv'
    BY <1>8 DEF Publish, RingDistance, AgentInv, ReporterInv, Taken, Wrapped, Closed
  <2>5. ReporterInv'
    BY <1>8 DEF Publish, RingDistance, AgentInv, ReporterInv, Taken, Wrapped, Closed
  <2> QED BY <2>1, <2>2, <2>3, <2>4, <2>5
<1>9. CASE CloseReportID
  <2>1. TypeOK'
    BY <1>9 DEF CloseReportID
  <2>2. RingDistance'
    BY <1>9 DEF CloseReportID, RingDistance, AgentInv, ReporterInv, Taken, Wrapped
  <2>3. RingContents'
    BY <1>9 DEF CloseReportID, RingDistance, RingContents, AgentInv, ReporterInv, Taken,
        Wrapped, Pending, SeqAt, Closed
  <2>4. AgentInv'
    BY <1>9 DEF CloseReportID, RingDistance, AgentInv, ReporterInv, Taken, Wrapped, Closed
  <2>5. ReporterInv'
    BY <1>9 DEF CloseReportID, RingDistance, AgentInv, ReporterInv, Taken, Wrapped, Closed
  <2> QED BY <2>1, <2>2, <2>3, <2>4, <2>5
<1>10. CASE GetReport
  <2>1. TypeOK'
    BY <1>10 DEF GetReport
  <2>2. RingDistance'
    BY <1>10 DEF GetReport, RingDistance, AgentInv, ReporterInv, Taken, Wrapped
  <2>3. RingContents'
    BY <1>10 DEF GetReport, RingDistance, RingContents, AgentInv, ReporterInv, Taken,
        Wrapped, Pending, SeqAt, Closed
  <2>4. AgentInv'
    BY <1>10 DEF GetReport, RingDistance, AgentInv, ReporterInv, Taken, Wrapped, Closed
  <2>5. ReporterInv'
    BY <1>10 DEF GetReport, RingDistance, AgentInv, ReporterInv, Taken, Wrapped, Closed
  <2> QED BY <2>1, <2>2, <2>3, <2>4, <2>5
<1>11. CASE EndReport
  <2>1. TypeOK'
    BY <1>11 DEF EndReport
  <2>2. RingDistance'
    BY <1>11 DEF EndReport, RingDistance, AgentInv, ReporterInv, Taken, Wrapped
  <2>3. RingContents'
    BY <1>11 DEF EndReport, RingDistance, RingContents, AgentInv, ReporterInv, Taken,
        Wrapped, Pending, SeqAt, Closed
  <2>4. AgentInv'
    BY <1>11 DEF EndReport, RingDistance, AgentInv, ReporterInv, Taken, Wrapped, Closed
  <2>5. ReporterInv'
    BY <1>11 DEF EndReport, RingDistance, AgentInv, ReporterInv, Taken, Wrapped, Closed
  <2> QED BY <2>1, <2>2, <2>3, <2>4, <2>5
<1>12. CASE SpuriousWakeup
  <2>1. TypeOK'
    BY <1>12 DEF SpuriousWakeup, Woken
  <2>2. RingDistance'
    BY <1>12 DEF SpuriousWakeup, Woken, RingDistance, AgentInv, ReporterInv, Taken, Wrapped
  <2>3. RingContents'
    BY <1>12 DEF SpuriousWakeup, Woken, RingDistance, RingContents, AgentInv, ReporterInv, Taken,
        Wrapped, Pending, SeqAt, Closed
  <2>4. AgentInv'
    BY <1>12 DEF SpuriousWakeup, Woken, RingDistance, AgentInv, ReporterInv, Taken, Wrapped, Closed
  <2>5. ReporterInv'
    BY <1>12 DEF SpuriousWakeup, Woken, RingDistance, AgentInv, ReporterInv, Taken, Wrapped, Closed
  <2> QED BY <2>1, <2>2, <2>3, <2>4, <2>5
<1>13. CASE Scan
  <2>1. TypeOK'
    BY <1>13 DEF Scan
  <2>2. RingDistance'
    BY <1>13 DEF Scan, RingDistance, AgentInv, ReporterInv, Taken, Wrapped
  <2>3. RingContents'
    BY <1>13 DEF Scan, RingDistance, RingContents, AgentInv, ReporterInv, Taken,
        Wrapped, Pending, SeqAt, Closed
  <2>4. AgentInv'
    BY <1>13 DEF Scan, RingDistance, AgentInv, ReporterInv, Taken, Wrapped, Closed
  <2>5. ReporterInv'
    BY <1>13 DEF Scan, RingDistance, AgentInv, ReporterInv, Taken, Wrapped, Closed
  <2> QED BY <2>1, <2>2, <2>3, <2>4, <2>5
<1>14. CASE Check
  <2>1. TypeOK'
    BY <1>14 DEF Check
  <2>2. RingDistance'
    BY <1>14 DEF Check, RingDistance, AgentInv, ReporterInv, Taken, Wrapped
  <2>3. RingContents'
    BY <1>14 DEF Check, RingDistance, RingContents, AgentInv, ReporterInv, Taken,
        Wrapped, Pending, SeqAt, Closed
  <2>4. AgentInv'
    BY <1>14 DEF Check, RingDistance, AgentInv, ReporterInv, Taken, Wrapped, Closed
  <2>5. ReporterInv'
    BY <1>14 DEF Check, RingDistance, AgentInv, ReporterInv, Taken, Wrapped, Closed
  <2> QED BY <2>1, <2>2, <2>3, <2>4, <2>5
<1>15. CASE Step
  <2>1. TypeOK'
    BY <1>15 DEF Step
  <2>2. RingDistance'
    <3>1. CASE reporterindex = NUM_REPORT_STRUCTS - 1 /\ agentindex = 0
      BY <1>15, <3>1 DEF Step, RingDistance, Taken, Wrapped
    <3>2. CASE reporterindex = NUM_REPORT_STRUCTS - 1 /\ agentindex # 0
      <4>1. /\ reporterindex' = 0 /\ Taken' = 1 /\ Taken = 0
            /\ Wrapped /\ ~Wrapped' /\ agentindex > 0
            /\ UNCHANGED <<agentindex, cntDatagrams, sent, data, apc>>
        BY <1>15, <3>2 DEF Step, Taken, Wrapped, ReporterInv, RingDistance
      <4> QED BY <3>2, <4>1 DEF RingDistance
    <3>3. CASE reporterindex # NUM_REPORT_STRUCTS - 1
      <4>1. /\ reporterindex' = reporterindex + 1 /\ Taken' = 1 /\ Taken = 0
            /\ reporterindex >= 0
            /\ UNCHANGED <<agentindex, cntDatagrams, sent, data, apc>>
        BY <1>15, <3>3 DEF Step, Taken, ReporterInv
      <4>2. Wrapped' <=> Wrapped
        BY <1>15, <4>1 DEF Step, Wrapped, ReporterInv, RingDistance
      <4> QED BY <3>3, <4>1, <4>2 DEF RingDistance, Wrapped
    <3> QED BY <3>1, <3>2, <3>3
  <2>3. RingContents'
    <3>1. CASE reporterindex = NUM_REPORT_STRUCTS - 1 /\ agentindex = 0
      BY <1>15, <3>1 DEF Step, RingContents, Taken, Wrapped, Pending, SeqAt, Closed
    <3>2. CASE reporterindex = NUM_REPORT_STRUCTS - 1 /\ agentindex # 0
      <4>1. /\ reporterindex' = 0 /\ Taken' = 1 /\ Taken = 0
            /\ Wrapped /\ ~Wrapped' /\ agentindex > 0
            /\ UNCHANGED <<agentindex, cntDatagrams, sent, data, apc>>
        BY <1>15, <3>2 DEF Step, Taken, Wrapped, ReporterInv, RingDistance
      <4> QED BY <3>2, <4>1 DEF RingContents, Pending, SeqAt, Closed
    <3>3. CASE reporterindex # NUM_REPORT_STRUCTS - 1
      <4>1. /\ reporterindex' = reporterindex + 1 /\ Taken' = 1 /\ Taken = 0
            /\ reporterindex >= 0
            /\ UNCHANGED <<agentindex, cntDatagrams, sent, data, apc>>
        BY <1>15, <3>3 DEF Step, Taken, ReporterInv
      <4>2. Wrapped' <=> Wrapped
        BY <1>15, <4>1 DEF Step, Wrapped, ReporterInv, RingDistance
      <4> QED BY <3>3, <4>1, <4>2 DEF RingContents, Pending, SeqAt, Closed, Wrapped
    <3> QED BY <3>1, <3>2, <3>3
  <2>4. AgentInv'
    BY <1>15 DEF Step, RingDistance, AgentInv, ReporterInv, Taken, Wrapped, Closed
  <2>5. ReporterInv'
    BY <1>15 DEF Step, RingDistance, AgentInv, ReporterInv, Taken, Wrapped, Closed
  <2> QED BY <2>1, <2>2, <2>3, <2>4, <2>5
<1>16. CASE HandlePacket
  <2>1. TypeOK'
    BY <1>16 DEF HandlePacket, ReporterInv
  <2>2. RingDistance'
    BY <1>16 DEF HandlePacket, RingDistance, AgentInv, ReporterInv, Taken, Wrapped
  <2>3. RingContents'
    BY <1>16 DEF HandlePacket, RingDistance, RingContents, AgentInv, ReporterInv, Taken,
        Wrapped, Pending, SeqAt, Closed
  <2>4. AgentInv'
    BY <1>16 DEF HandlePacket, RingDistance, AgentInv, ReporterInv, Taken, Wrapped, Closed
  <2>5. ReporterInv'
    <3>1. Taken = 1 /\ reporterindex \in Slots /\ Pending(reporterindex)
      BY <1>16 DEF HandlePacket, ReporterInv, RingDistance, Taken, Pending, Wrapped
    <3>2. /\ data[reporterindex].seq = cntDatagrams + 1
          /\ data[reporterindex].packetID < 0 =>
                Closed /\ data[reporterindex].seq = sent
      BY <3>1 DEF RingContents, SeqAt
    <3> QED BY <1>16, <3>2 DEF HandlePacket, ReporterInv, Wrapped, Closed
  <2> QED BY <2>1, <2>2, <2>3, <2>4, <2>5
<1>17. CASE PrintFinal
  <2>1. TypeOK'
    BY <1>17 DEF PrintFinal
  <2>2. RingDistance'
    BY <1>17 DEF PrintFinal, RingDistance, AgentInv, ReporterInv, Taken, Wrapped
  <2>3. RingContents'
    BY <1>17 DEF PrintFinal, RingDistance, RingContents, AgentInv, ReporterInv, Taken,
        Wrapped, Pending, SeqAt, Closed
  <2>4. AgentInv'
    BY <1>17 DEF PrintFinal, RingDistance, AgentInv, ReporterInv, Taken, Wrapped, Closed
  <2>5. ReporterInv'
    BY <1>17 DEF PrintFinal, RingDistance, AgentInv, ReporterInv, Taken, Wrapped, Closed
  <2> QED BY <2>1, <2>2, <2>3, <2>4, <2>5
<1>18. CASE Finish
  <2>1. TypeOK'
    BY <1>18 DEF Finish
  <2>2. RingDistance'
    BY <1>18 DEF Finish, RingDistance, AgentInv, ReporterInv, Taken, Wrapped
  <2>3. RingContents'
    BY <1>18 DEF Finish, RingDistance, RingContents, AgentInv, ReporterInv, Taken,
        Wrapped, Pending, SeqAt, Closed
  <2>4. AgentInv'
    BY <1>18 DEF Finish, RingDistance, AgentInv, ReporterInv, Taken, Wrapped, Closed
  <2>5. ReporterInv'
    BY <1>18 DEF Finish, RingDistance, AgentInv, ReporterInv, Taken, Wrapped, Closed
  <2> QED BY <2>1, <2>2, <2>3, <2>4, <2>5
<1>19. CASE CheckEnd
  <2>1. TypeOK'
    BY <1>19 DEF CheckEnd
  <2>2. RingDistance'
    BY <1>19 DEF CheckEnd, RingDistance, AgentInv, ReporterInv, Taken, Wrapped
  <2>3. RingContents'
    BY <1>19 DEF CheckEnd, RingDistance, RingContents, AgentInv, ReporterInv, Taken,
        Wrapped, Pending, SeqAt, Closed
  <2>4. AgentInv'
    BY <1>19 DEF CheckEnd, RingDistance, AgentInv, ReporterInv, Taken, Wrapped, Closed
  <2>5. ReporterInv'
    BY <1>19 DEF CheckEnd, RingDistance, AgentInv, ReporterInv, Taken, Wrapped, Closed
  <2> QED BY <2>1, <2>2, <2>3, <2>4, <2>5
<1>20. CASE SignalDone
  <2>1. TypeOK'
    BY <1>20 DEF SignalDone, Woken
  <2>2. RingDistance'
    BY <1>20 DEF SignalDone, Woken, RingDistance, AgentInv, ReporterInv, Taken, Wrapped
  <2>3. RingContents'
    BY <1>20 DEF SignalDone, Woken, RingDistance, RingContents, AgentInv, ReporterInv, Taken,
        Wrapped, Pending, SeqAt, Closed
  <2>4. AgentInv'
    BY <1>20 DEF SignalDone, Woken, RingDistance, AgentInv, ReporterInv, Taken, Wrapped, Closed
  <2>5. ReporterInv'
    BY <1>20 DEF SignalDone, Woken, RingDistance, AgentInv, ReporterInv, Taken, Wrapped, Closed
  <2> QED BY <2>1, <2>2, <2>3, <2>4, <2>5
<1>21. CASE UNCHANGED vars
  BY <1>21 DEF vars, RingDistance, RingContents, AgentInv, ReporterInv, Taken, Wrapped, Pending,
      SeqAt, Closed
<1> QED
  BY <1>1, <1>2, <1>3, <1>4, <1>5, <1>6, <1>7, <1>8, <1>9, <1>10, <1>11, <1>12, <1>13, <1>14, <1>15, <1>16, <1>17, <1>18, <1>19, <1>20, <1>21 DEF Next, Agent, Reporter

\* Every behaviour of the two threads satisfies the inductive invariant.
THEOREM Inductive == Safety => []IndInv
<1>1. Init => IndInv
  BY InitInd
<1>2. IndInv /\ [Next]_vars => IndInv'
  BY NextInd
<1> QED BY <1>1, <1>2, PTL DEF Safety

\* The variables keep their types for every size of the ring; in particular
\* neither index ever leaves the array.
THEOREM TypeCorrect == Safety => []TypeOK
<1>1. IndInv => TypeOK
  BY DEF IndInv
<1> QED BY <1>1, Inductive, PTL

\* In a handling state the slot under reporterindex is the pending slot with
\* the lowest number.
LEMMA HandledSlot ==
  ASSUME IndInv, rpc = "handle"
  PROVE  /\ reporterindex \in Slots
         /\ data[reporterindex].seq = cntDatagrams + 1
<1>1. Taken = 1 /\ reporterindex \in Slots /\ Pending(reporterindex)
  BY RingAssumption DEF IndInv, TypeOK, ReporterInv, RingDistance, Taken,
     Pending, Wrapped, Slots
<1> QED BY <1>1 DEF IndInv, TypeOK, RingContents, SeqAt, Slots

\* reporter_handle_packet counts the packets in the order of the ReportPacket
\* calls, none lost, none twice, for every ring size and transfer length.
THEOREM CountsInOrder == Safety => []InOrder
<1>1. IndInv => InOrder
  BY HandledSlot DEF InOrder
<1> QED BY <1>1, Inductive, PTL

\* The agent never writes the slot the reporter reads.
THEOREM SlotsRaceFree == Safety => []NoSlotRace
<1>1. IndInv => NoSlotRace
  <2> SUFFICES ASSUME IndInv, apc = "put", rpc = "handle",
                      agentindex = reporterindex
               PROVE  FALSE
    BY DEF NoSlotRace
  <2>1. Wrapped /\ reporterindex \in Int
    BY DEF Wrapped, IndInv, TypeOK
  <2>2. agentindex + 1 < reporterindex
    BY <2>1 DEF IndInv, AgentInv
  <2> QED BY <2>1, <2>2
<1> QED BY <1>1, Inductive, PTL

\* GetReport and EndReport see the final report with every packet counted.
THEOREM ReportsComplete == Safety => []ReportComplete
<1>1. IndInv => ReportComplete
  BY DEF IndInv, ReportComplete, AgentInv, ReporterInv
<1> QED BY <1>1, Inductive, PTL

\* The reporter frees no header that its agent still uses.
THEOREM FreedOnlyAfterEnd == Safety => []NoUseAfterFree
<1>1. IndInv => NoUseAfterFree
  BY DEF IndInv, NoUseAfterFree, AgentInv, ReporterInv
<1> QED BY <1>1, Inductive, PTL

-----------------------------------------------------------------------------
(* ReportRing implements ReportQueue. *)

\* The agent publishes a packet only into a ring with room: the reporter is
\* at most NUM_REPORT_STRUCTS packets behind.
LEMMA RoomToPublish ==
  ASSUME IndInv, apc = "publish"
  PROVE  sent - cntDatagrams < NUM_REPORT_STRUCTS
<1>1. reporterindex >= 0 /\ agentindex \in Slots
  BY DEF IndInv, AgentInv, Closed, ClosedPCs
<1>2. Wrapped => agentindex + 1 < reporterindex
  BY DEF IndInv, AgentInv
<1>3. Taken \in {0, 1}
  BY DEF Taken
<1> QED BY <1>1, <1>2, <1>3, RingAssumption
        DEF IndInv, TypeOK, RingDistance, Slots

\* A step of the code is a step of the abstract queue or changes nothing
\* the queue sees.
LEMMA StepImplements ==
  ASSUME IndInv, [Next]_vars
  PROVE  [Queue!QNext]_(Queue!qvars)
<1> USE RingAssumption DEF Stage, Closed, ClosedPCs, AgentPCs, ReporterPCs,
        WrapPCs, LapPCs, WaitPCs, agentVars, reporterVars, Slots
<1>1. CASE Publish
  <2>1. /\ Stage = "open"
        /\ sent' = sent + 1 /\ cntDatagrams' = cntDatagrams /\ latest' = latest
        /\ Stage' = "open" \/ Stage' = "closed"
    BY <1>1 DEF Publish, IndInv, TypeOK, AgentInv, ReporterInv
  <2>2. sent - cntDatagrams < NUM_REPORT_STRUCTS
    BY <1>1, RoomToPublish DEF Publish
  <2>3. Queue!Put("open") \/ Queue!Put("closed")
    BY <2>1, <2>2 DEF Queue!Put
  <2> QED BY <2>3 DEF Queue!QNext
<1>2. CASE HandlePacket
  <2>1. /\ latest' = cntDatagrams + 1 /\ cntDatagrams' = cntDatagrams + 1
        /\ sent' = sent /\ Stage' = Stage
    BY <1>2, HandledSlot DEF HandlePacket, IndInv, TypeOK, ReporterInv
  <2>2. cntDatagrams < sent
    BY <1>2 DEF HandlePacket, IndInv, TypeOK, RingDistance, ReporterInv, Taken,
       Wrapped
  <2>3. Queue!Take
    BY <2>1, <2>2 DEF Queue!Take
  <2> QED BY <2>3 DEF Queue!QNext
<1>3. CASE Finish
  <2>1. /\ Stage = "closed" /\ Stage' = "drained" /\ cntDatagrams = sent
        /\ UNCHANGED <<sent, cntDatagrams, latest>>
    BY <1>3 DEF Finish, IndInv, TypeOK, ReporterInv
  <2>2. Queue!Drain
    BY <2>1 DEF Queue!Drain
  <2> QED BY <2>2 DEF Queue!QNext
<1>4. CASE EndReport
  <2>1. /\ Stage = "drained" /\ Stage' = "ended"
        /\ UNCHANGED <<sent, cntDatagrams, latest>>
    BY <1>4 DEF EndReport, IndInv, TypeOK, AgentInv, ReporterInv
  <2>2. Queue!End
    BY <2>1 DEF Queue!End
  <2> QED BY <2>2 DEF Queue!QNext
<1>5. CASE CheckEnd
  <2>1. UNCHANGED <<sent, cntDatagrams, latest>>
    BY <1>5 DEF CheckEnd
  <2>2. CASE agentindex = -1
    <3>1. Stage = "ended" /\ Stage' = "freed"
      BY <1>5, <2>2 DEF CheckEnd
    <3>2. Queue!Free
      BY <2>1, <3>1 DEF Queue!Free
    <3> QED BY <3>2 DEF Queue!QNext
  <2>3. CASE agentindex # -1
    <3>1. Stage' = Stage
      BY <1>5, <2>3 DEF CheckEnd
    <3> QED BY <2>1, <3>1 DEF Queue!qvars
  <2> QED BY <2>2, <2>3
<1>6. CASE Transfer
  BY <1>6 DEF Transfer, ReportPacket, IndInv, TypeOK, AgentInv, ReporterInv, Queue!qvars
<1>7. CASE CloseReport
  BY <1>7 DEF CloseReport, ReportPacket, IndInv, TypeOK, AgentInv, ReporterInv, Queue!qvars
<1>8. CASE Wrap
  BY <1>8 DEF Wrap, WrapBlocked, IndInv, TypeOK, AgentInv, ReporterInv, Queue!qvars
<1>9. CASE Lap
  BY <1>9 DEF Lap, IndInv, TypeOK, AgentInv, ReporterInv, Queue!qvars
<1>10. CASE Block
  BY <1>10 DEF Block, IndInv, TypeOK, AgentInv, ReporterInv, Queue!qvars
<1>11. CASE Reread
  BY <1>11 DEF Reread, IndInv, TypeOK, AgentInv, ReporterInv, Queue!qvars
<1>12. CASE Put
  BY <1>12 DEF Put, IndInv, TypeOK, AgentInv, ReporterInv, Queue!qvars
<1>13. CASE CloseReportID
  BY <1>13 DEF CloseReportID, IndInv, TypeOK, AgentInv, ReporterInv, Queue!qvars
<1>14. CASE GetReport
  BY <1>14 DEF GetReport, IndInv, TypeOK, AgentInv, ReporterInv, Queue!qvars
<1>15. CASE SpuriousWakeup
  BY <1>15 DEF SpuriousWakeup, Woken, IndInv, TypeOK, AgentInv, ReporterInv, Queue!qvars
<1>16. CASE Scan
  BY <1>16 DEF Scan, IndInv, TypeOK, AgentInv, ReporterInv, Queue!qvars
<1>17. CASE Check
  BY <1>17 DEF Check, IndInv, TypeOK, AgentInv, ReporterInv, Queue!qvars
<1>18. CASE Step
  BY <1>18 DEF Step, IndInv, TypeOK, AgentInv, ReporterInv, Queue!qvars
<1>19. CASE PrintFinal
  BY <1>19 DEF PrintFinal, IndInv, TypeOK, AgentInv, ReporterInv, Queue!qvars
<1>20. CASE SignalDone
  BY <1>20 DEF SignalDone, Woken, IndInv, TypeOK, AgentInv, ReporterInv, Queue!qvars
<1>21. CASE UNCHANGED vars
  BY <1>21 DEF vars, Queue!qvars
<1> QED
  BY <1>1, <1>2, <1>3, <1>4, <1>5, <1>6, <1>7, <1>8, <1>9, <1>10, <1>11, <1>12, <1>13, <1>14, <1>15, <1>16, <1>17, <1>18, <1>19, <1>20, <1>21 DEF Next, Agent, Reporter

\* Every behaviour of the two threads is a behaviour of the abstract queue:
\* first in, first out, at most NUM_REPORT_STRUCTS packets behind, finished
\* only when closed and drained, released only when ended.
THEOREM RefinesQueue == Safety => Queue!QSafety
<1>1. Init => Queue!QInit
  BY RingAssumption DEF Init, Queue!QInit, Stage, Closed, ClosedPCs
<1>2. IndInv /\ [Next]_vars => [Queue!QNext]_(Queue!qvars)
  BY StepImplements
<1> QED BY <1>1, <1>2, Inductive, PTL DEF Safety, Queue!QSafety

=============================================================================
