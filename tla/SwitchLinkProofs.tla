-------------------------- MODULE SwitchLinkProofs --------------------------
(***************************************************************************)
(* Proofs about SwitchLink, for every request length, bound, timeout and     *)
(* kind of caller and socket.                                                *)
(***************************************************************************)
EXTENDS SwitchLinkProps, SequenceTheorems, TLAPS

-----------------------------------------------------------------------------
(* Facts about sequences and messages. *)

\* Cutting a sequence of bytes gives two that join to it.
LEMMA SplitBytes ==
    ASSUME NEW s \in Bytes, NEW k \in 1..Len(s)
    PROVE  /\ SubSeq(s, 1, k) \in Bytes
           /\ SubSeq(s, k + 1, Len(s)) \in Bytes
           /\ Len(SubSeq(s, 1, k)) = k
           /\ SubSeq(s, 1, k) \o SubSeq(s, k + 1, Len(s)) = s
  <1>1. SubSeq(s, 1, k) \in Bytes /\ Len(SubSeq(s, 1, k)) = k
    BY SubSeqProperties, LenProperties, ElementOfSeq, SMT DEF Bytes
  <1>2. SubSeq(s, k + 1, Len(s)) \in Bytes
    BY SubSeqProperties, LenProperties, ElementOfSeq, SMT DEF Bytes
  <1>3. SubSeq(s, 1, k) \o SubSeq(s, k + 1, Len(s)) = SubSeq(s, 1, Len(s))
    BY ConcatAdjacentSubSeq, SMT DEF Bytes
  <1>4. SubSeq(s, 1, Len(s)) = s
    BY SubSeqFull DEF Bytes
  <1> QED BY <1>1, <1>2, <1>3, <1>4

\* What is left of a sequence of bytes behind any of its prefixes is bytes.
LEMMA RestBytes ==
    ASSUME NEW s \in Bytes, NEW k \in Nat
    PROVE  SubSeq(s, k + 1, Len(s)) \in Bytes
  BY SubSeqProperties, LenProperties, ElementOfSeq, SMT DEF Bytes

LEMMA JoinBytes ==
    ASSUME NEW s \in Bytes, NEW t \in Bytes
    PROVE  s \o t \in Bytes /\ Len(s \o t) = Len(s) + Len(t)
  BY ConcatProperties DEF Bytes

LEMMA JoinAssociates ==
    ASSUME NEW s \in Bytes, NEW t \in Bytes, NEW u \in Bytes
    PROVE  (s \o t) \o u = s \o (t \o u)
  <1>1. s \in Seq(Nat) /\ t \in Seq(Nat) /\ u \in Seq(Nat)
    BY DEF Bytes
  <1> QED BY <1>1, ConcatAssociative, SMTT(60)

LEMMA MessageBytes ==
    ASSUME NEW r \in Nat
    PROVE  /\ Request(r) \in Bytes /\ Len(Request(r)) = ReqLen
           /\ Request(r)[1] = r
           /\ Reply(r) \in Bytes /\ Len(Reply(r)) = 3
  BY ReqLenAssumption, SMT DEF Request, Reply, Bytes

\* A socket that takes the whole queue leaves none for a copy to start behind.
LEMMA WholeWritesStay ==
    ASSUME TypeOK, ~PartialWrites, NEW n \in 1..Len(cSend), EvWriteBeyond(n)
    PROVE  FALSE
  <1>1. n = Len(cSend) /\ n \in Nat /\ cSend \in Seq(Nat)
    BY LenProperties DEF EvWriteBeyond, TypeOK, Bytes
  <1>2. SubSeq(cSend, n + 1, Len(cSend)) = <<>>
    BY <1>1, SubSeqEmpty
  <1>3. WrapsAround(sendIndex + n, <<>>) /\ Len(<<>>) = 0
    BY <1>2 DEF EvWriteBeyond
  <1>4. SendBuf \in Seq(Nat)
    BY MessageBytes DEF SendBuf, TypeOK, Bytes
  <1>5. Len(SendBuf) \in Nat /\ sendIndex + n \in Nat
    BY <1>1, <1>4, LenProperties DEF TypeOK
  <1> QED BY <1>3, <1>5 DEF WrapsAround

-----------------------------------------------------------------------------
(* Every step keeps the variables' types. *)

\* No step changes how the link is used.
LEMMA UsageKept ==
    ASSUME [Next]_vars
    PROVE  /\ usage' = usage
           /\ SharedBuffer' = SharedBuffer
           /\ PartialWrites' = PartialWrites
           /\ Careful' = Careful
           /\ Promised' = Promised
  <1>1. usage' = usage
    BY DEF Next, vars, SwcInit, SwcDestroy, SwcWaitConnect, SwcSendRecv,
           EvConnect, EvError, EvClose, EvRead, EvWrite, EvWriteBeyond, PollEnd,
           ServerReply
  <1> QED BY <1>1 DEF SharedBuffer, PartialWrites, Careful, Promised

LEMMA TypeInit == Init => TypeOK
  BY EmptySeq, SMT DEF Init, TypeOK, Status, Bytes

LEMMA TypeStep == TypeOK /\ [Next]_vars => TypeOK'
  <1> SUFFICES ASSUME TypeOK, [Next]_vars PROVE TypeOK'
    OBVIOUS
  <1> USE DEF TypeOK, Status, Failed
  <1>e. <<>> \in Bytes
    BY EmptySeq DEF Bytes
  <1> USE UsageKept
  <1>1. CASE SwcInit
    BY <1>1, <1>e DEF SwcInit, Flush
  <1>2. CASE SwcDestroy
    BY <1>2, <1>e DEF SwcDestroy, Flush, AfterClose
  <1>3. ASSUME NEW t \in Timeouts, SwcWaitConnect(t) PROVE TypeOK'
    BY <1>3, TimeoutsAssumption, SMT DEF SwcWaitConnect, queues
  <1>4. ASSUME NEW t \in Timeouts, SwcSendRecv(t) PROVE TypeOK'
    <2>1. Request(req + 1) \in Bytes
      BY MessageBytes
    <2>2. cSend \o Request(req + 1) \in Bytes
      BY <2>1, JoinBytes
    <2>3. /\ req' = req + 1 /\ sendIndex' = 0
          /\ recv' \in {Request(req + 1), <<>>}
          /\ status' \in {"SENDING", "ERROR"}
          /\ pc' \in {pc, "exchange"}
          /\ timeout' \in {timeout, t}
          /\ cSend' \in {cSend, cSend \o Request(req + 1)}
          /\ UNCHANGED <<base, conn, cRecv, wire, net>>
      BY <1>4, Zenon DEF SwcSendRecv
    <2>4. t \in Nat /\ req' \in Nat /\ sendIndex' \in Nat
      BY <2>3, TimeoutsAssumption
    <2> QED BY <2>1, <2>2, <2>3, <2>4, <1>e
  <1>5. CASE EvConnect
    BY <1>5 DEF EvConnect, queues
  <1>6. CASE EvError
    BY <1>6 DEF EvError, queues
  <1>7. CASE EvClose
    BY <1>7, <1>e DEF EvClose, Flush, AfterClose
  <1>8. ASSUME NEW k \in 1..Len(net), EvRead(k) PROVE TypeOK'
    <2> DEFINE got == cRecv \o SubSeq(net, 1, k)
    <2>1. SubSeq(net, 1, k) \in Bytes /\ SubSeq(net, k + 1, Len(net)) \in Bytes
      BY SplitBytes
    <2>2. got \in Bytes
      BY <2>1, JoinBytes
    <2>3. recv \o got \in Bytes
      BY <2>2, JoinBytes
    <2> HIDE DEF got
    <2>4. /\ net' = SubSeq(net, k + 1, Len(net))
          /\ recv' \in {recv, recv \o got}
          /\ cRecv' \in {<<>>, got}
          /\ status' \in {status, "IDLE"}
          /\ UNCHANGED <<pc, timeout, sendIndex, req, base, conn, cSend, wire>>
      BY <1>8 DEF EvRead, got
    <2> QED BY <2>1, <2>2, <2>3, <2>4, <1>e
  <1>9. ASSUME NEW n \in 1..Len(cSend), EvWrite(n) PROVE TypeOK'
    <2> DEFINE queued == SubSeq(cSend, n + 1, Len(cSend))
               sent   == sendIndex + n
               rest   == SubSeq(SendBuf, sent + 1, Len(SendBuf))
    <2>1. SubSeq(cSend, 1, n) \in Bytes /\ queued \in Bytes
      BY SplitBytes
    <2>2. sent \in Nat
      BY LenProperties, SMT DEF Bytes
    <2>3. SendBuf \in Bytes
      BY MessageBytes DEF SendBuf
    <2>4. rest \in Bytes
      BY <2>2, <2>3, RestBytes
    <2>5. queued \o rest \in Bytes /\ wire \o SubSeq(cSend, 1, n) \in Bytes
      BY <2>1, <2>4, JoinBytes
    <2> HIDE DEF queued, sent, rest
    <2>6. /\ wire' = wire \o SubSeq(cSend, 1, n)
          /\ cSend' \in {queued, queued \o rest}
          /\ sendIndex' \in {sendIndex, sent}
          /\ recv' \in {recv, <<>>}
          /\ status' \in {status, "RECEIVING", "ERROR"}
          /\ UNCHANGED <<pc, timeout, req, base, conn, cRecv, net>>
      BY <1>9, Zenon DEF EvWrite, SendRest, queued, sent, rest
    <2>7. /\ wire' \in Bytes /\ cSend' \in Bytes /\ recv' \in Bytes
          /\ sendIndex' \in Nat /\ status' \in Status
      BY <2>1, <2>2, <2>5, <2>6, <1>e
    <2> QED BY <2>6, <2>7
  <1>b. ASSUME NEW n \in 1..Len(cSend), EvWriteBeyond(n) PROVE TypeOK'
    BY <1>b DEF EvWriteBeyond, queues
  <1>10. CASE PollEnd
    BY <1>10, SMT DEF PollEnd, Tick, Expired, queues
  <1>11. CASE ServerReply
    <2>1. wire[1] \in Nat
      BY <1>11, ReqLenAssumption, LenProperties, ElementOfSeq, SMT
         DEF ServerReply, Bytes
    <2>2. net \o Answered(wire) \in Bytes
      BY <2>1, MessageBytes, JoinBytes DEF Answered
    <2>3. SubSeq(wire, ReqLen + 1, Len(wire)) \in Bytes
      BY RestBytes, ReqLenAssumption
    <2> QED BY <1>11, <2>2, <2>3 DEF ServerReply
  <1>12. CASE UNCHANGED vars
    BY <1>12 DEF vars
  <1> QED BY <1>1, <1>2, <1>3, <1>4, <1>5, <1>6, <1>7, <1>8, <1>9, <1>b, <1>10,
             <1>11, <1>12 DEF Next

(* The variables of the connection always have their types: no event or call *)
(* of web.c 255-390 leaves a queue, an index or a countdown out of range.    *)
THEOREM TypeCorrect == Spec => []TypeOK
  BY TypeInit, TypeStep, PTL DEF Spec

-----------------------------------------------------------------------------
(* The inductive invariant.                                                  *)

\* Only the whole of a reply passes the test at the end of a read: a part of
\* it that shows the two length bytes and has that length is all of it.
LEMMA CompleteReply ==
    ASSUME NEW r \in Nat, NEW b \in Bytes, NEW rest \in Bytes,
           b \o rest = Reply(r), Complete(b)
    PROVE  b = Reply(r) /\ rest = <<>>
  <1>1. Len(b) \in Nat /\ Len(rest) \in Nat /\ Len(b) + Len(rest) = 3
    <2>1. Len(b) \in Nat /\ Len(rest) \in Nat
      BY LenProperties DEF Bytes
    <2>2. Len(Reply(r)) = 3 /\ Len(b \o rest) = Len(b) + Len(rest)
      BY MessageBytes, JoinBytes
    <2> QED BY <2>1, <2>2
  <1>2. b[1] = 0 /\ b[2] = 1
    <2>1. \A i \in 1..Len(b) : b[i] = Reply(r)[i]
      BY ConcatProperties, <1>1, SMT DEF Bytes
    <2> QED BY <2>1, <1>1, SMT DEF Complete, Reply
  <1>3. Len(b) = 3 /\ Len(rest) = 0
    <2>1. 0 * Base = 0
      BY BaseAssumption
    <2> QED BY <1>1, <1>2, <2>1, SMT DEF Complete
  <1>4. rest = <<>>
    BY <1>3, EmptySeq, SMT DEF Bytes
  <1> QED BY <1>4, ConcatEmptySeq DEF Bytes

LEMMA LinkInit == Init => LinkInv
  BY DEF Init, LinkInv, SendingInv, ReceivingInv, IdleInv, CallInv, Quiet,
         Polling, Failed

LEMMA LinkStep == TypeOK /\ LinkInv /\ [Next]_vars => LinkInv'
  <1> SUFFICES ASSUME TypeOK, LinkInv, [Next]_vars, Careful, ~PartialWrites
               PROVE  (SendingInv /\ ReceivingInv /\ IdleInv /\ CallInv)'
    BY UsageKept DEF LinkInv, Promised
  <1>u. SharedBuffer' = SharedBuffer
    BY UsageKept
  <1> DEFINE LInv == SendingInv /\ ReceivingInv /\ IdleInv /\ CallInv
  <1>0. LInv
    BY DEF LinkInv, Promised
  <1> USE <1>u
  <1> USE DEF SendingInv, ReceivingInv, IdleInv, CallInv, Quiet, Polling, Failed
  <1>1. CASE SwcInit
    <2>1. status' \in {"PRE_CONNECT", "ERROR"} /\ pc' = "out"
          /\ (conn' = "none" => status' = "ERROR")
          /\ (conn' = "opening" => status' = "PRE_CONNECT")
      BY <1>1 DEF SwcInit
    <2>2. Quiet'
      BY <1>1 DEF SwcInit, Flush
    <2> QED BY <2>1, <2>2
  <1>2. CASE SwcDestroy
    BY <1>0, <1>2 DEF SwcDestroy, Flush, AfterClose
  <1>3. ASSUME NEW t \in Timeouts, SwcWaitConnect(t) PROVE LInv'
    BY <1>0, <1>3 DEF SwcWaitConnect, Again, queues
  <1>4. ASSUME NEW t \in Timeouts, SwcSendRecv(t) PROVE LInv'
    <2>1. Quiet /\ conn # "opening" /\ pc = "out"
      BY <1>0, <1>4 DEF SwcSendRecv
    <2>2. <<>> \o Request(req + 1) = Request(req + 1)
      BY MessageBytes, ConcatEmptySeq DEF TypeOK, Bytes
    <2>3. CASE status' = "ERROR"
      BY <1>4, <2>1, <2>3 DEF SwcSendRecv
    <2>4. CASE status' # "ERROR"
      BY <1>4, <2>1, <2>2, <2>4 DEF SwcSendRecv
    <2> QED BY <2>3, <2>4
  <1>5. CASE EvConnect
    BY <1>0, <1>5 DEF EvConnect, queues
  <1>6. CASE EvError
    BY <1>0, <1>6 DEF EvError, queues
  <1>7. CASE EvClose
    BY <1>0, <1>7 DEF EvClose, Flush, AfterClose
  <1>8. ASSUME NEW k \in 1..Len(net), EvRead(k) PROVE LInv'
    <2>0. Polling /\ conn = "open" /\ net # <<>>
      BY <1>8, EmptySeq, SMT DEF EvRead
    <2>1. CASE status = "RECEIVING"
      <3> DEFINE first == SubSeq(net, 1, k)
                 later == SubSeq(net, k + 1, Len(net))
      <3>1. first \in Bytes /\ later \in Bytes /\ first \o later = net
        BY SplitBytes DEF TypeOK
      <3>2. cRecv = <<>> /\ cSend = <<>> /\ wire = <<>>
            /\ pc = "exchange" /\ recv \o net = Reply(req)
        BY <1>0, <2>0, <2>1
      <3>3. cRecv \o first = first
        BY <3>1, <3>2, ConcatEmptySeq DEF Bytes
      <3>4. (recv \o first) \o later = Reply(req)
        <4>1. recv \in Bytes
          BY DEF TypeOK
        <4> HIDE DEF first, later
        <4>2. (recv \o first) \o later = recv \o (first \o later)
          BY <3>1, <4>1, JoinAssociates
        <4> QED BY <3>1, <3>2, <4>2
      <3>5. recv \o first \in Bytes
        BY <3>1, JoinBytes DEF TypeOK
      <3>6. Complete(recv \o first) => recv \o first = Reply(req) /\ later = <<>>
        BY <3>1, <3>4, <3>5, CompleteReply DEF TypeOK
      <3> HIDE DEF first, later
      <3>7. /\ net' = later /\ recv' = recv \o first /\ cRecv' = <<>>
            /\ status' = IF Complete(recv \o first) THEN "IDLE" ELSE status
            /\ UNCHANGED <<pc, timeout, sendIndex, req, base, conn, cSend, wire>>
        BY <1>8, <2>1, <3>3 DEF EvRead, Listens, first, later
      <3>8. CASE Complete(recv \o first)
        BY <2>0, <2>1, <3>2, <3>6, <3>7, <3>8
      <3>9. CASE ~Complete(recv \o first)
        BY <2>0, <2>1, <3>2, <3>4, <3>7, <3>9
      <3> QED BY <3>8, <3>9
    <2>2. CASE status # "RECEIVING"
      <3>1. status \in Failed
        BY <1>0, <2>0, <2>2 DEF TypeOK, Status
      <3>2. UNCHANGED <<status, pc, conn>>
        BY <1>8, <2>2 DEF EvRead, Listens
      <3> QED BY <1>0, <2>0, <3>1, <3>2
    <2> QED BY <2>1, <2>2
  <1>9. ASSUME NEW n \in 1..Len(cSend), EvWrite(n) PROVE LInv'
    <2>0. Polling /\ conn = "open" /\ cSend # <<>> /\ n = Len(cSend)
      BY <1>9, EmptySeq, SMT DEF EvWrite
    <2>1. CASE status = "SENDING"
      <3>1. /\ pc = "exchange" /\ cSend = Request(req) /\ n = ReqLen
            /\ cRecv = <<>> /\ wire = <<>> /\ net = <<>> /\ sendIndex + n = ReqLen
            /\ SubSeq(cSend, 1, n) = cSend /\ SubSeq(cSend, n + 1, Len(cSend)) = <<>>
        BY <1>0, <2>0, <2>1, MessageBytes, ReqLenAssumption, SubSeqFull,
           SubSeqEmpty, SMT DEF TypeOK, Bytes
      <3>2. wire \o SubSeq(cSend, 1, n) = Request(req)
        BY <3>1, MessageBytes, ConcatEmptySeq DEF TypeOK, Bytes
      <3>3. Len(SendBuf) = ReqLen
        BY <1>0, <2>1, MessageBytes DEF SendBuf, TypeOK
      <3>4. CASE AllWritten(sendIndex + n)
        <4>1. /\ wire' = Request(req) /\ cSend' = <<>> /\ recv' = <<>>
              /\ status' = "RECEIVING"
              /\ UNCHANGED <<pc, timeout, req, base, conn, cRecv, net>>
          BY <1>9, <2>1, <3>1, <3>2, <3>4 DEF EvWrite, Writes
        <4> QED BY <2>0, <3>1, <4>1
      <3>5. CASE ~AllWritten(sendIndex + n)
        <4>1. ~(Len(SendBuf) > sendIndex + n)
          BY <3>1, <3>3, ReqLenAssumption, SMT
        <4>2. status' = "ERROR" /\ UNCHANGED <<pc, conn>>
          BY <1>9, <2>1, <3>5, <4>1 DEF EvWrite, Writes, SendRest
        <4> QED BY <2>0, <3>1, <4>2
      <3> QED BY <3>4, <3>5
    <2>2. CASE status # "SENDING"
      <3>1. status \in Failed
        BY <1>0, <2>0, <2>2 DEF TypeOK, Status
      <3> QED BY <1>0, <1>9, <2>0, <3>1 DEF EvWrite, Writes
    <2> QED BY <2>1, <2>2
  <1>b. ASSUME NEW n \in 1..Len(cSend), EvWriteBeyond(n) PROVE FALSE
    BY <1>b, WholeWritesStay
  <1>10. CASE PollEnd
    <2>1. CASE status' = "TIMEOUT"
      BY <1>0, <1>10, <2>1 DEF PollEnd, queues
    <2>2. CASE status' # "TIMEOUT"
      <3>1. UNCHANGED <<status, sendIndex, recv, req, base, conn, queues>>
            /\ pc' = IF Again(pc, status) THEN pc ELSE "out"
        BY <1>10, <2>2, Zenon DEF PollEnd, Expired
      <3> QED BY <1>0, <1>10, <3>1 DEF PollEnd, Again, queues
    <2> QED BY <2>1, <2>2
  <1>11. CASE ServerReply
    <2>1. CASE status = "RECEIVING"
      <3>1. wire = Request(req) /\ net = <<>> /\ recv = <<>>
        BY <1>0, <1>11, <2>1, EmptySeq, ReqLenAssumption, SMT DEF ServerReply
      <3>2. Answered(wire) = Reply(req)
        BY <3>1, MessageBytes DEF Answered, TypeOK
      <3>3. SubSeq(wire, ReqLen + 1, Len(wire)) = <<>>
        BY <3>1, MessageBytes, SubSeqEmpty, ReqLenAssumption, SMT DEF TypeOK
      <3>4. net \o Reply(req) = Reply(req) /\ recv \o Reply(req) = Reply(req)
        BY <3>1, MessageBytes, ConcatEmptySeq DEF TypeOK, Bytes
      <3> QED BY <1>0, <1>11, <2>1, <3>1, <3>2, <3>3, <3>4 DEF ServerReply
    <2>2. CASE status # "RECEIVING"
      <3>1. wire # <<>>
        BY <1>11, EmptySeq, ReqLenAssumption, SMT DEF ServerReply
      <3> QED BY <1>0, <1>11, <2>2, <3>1 DEF ServerReply
    <2> QED BY <2>1, <2>2
  <1>12. CASE UNCHANGED vars
    BY <1>0, <1>12 DEF vars
  <1> QED BY <1>1, <1>2, <1>3, <1>4, <1>5, <1>6, <1>7, <1>8, <1>9, <1>b, <1>10,
             <1>11, <1>12 DEF Next

(* The protocol of an exchange holds in every reachable state: which bytes   *)
(* are queued, on the wire or read, with each status. (web.c 282-308)        *)
THEOREM LinkInvariant == Spec => []LinkInv
  BY TypeInit, TypeStep, LinkInit, LinkStep, PTL DEF Spec

(* A careful caller is never given the reply to another request than its     *)
(* last. (web.c 282-301, 349-384)                                            *)
THEOREM AnswersMatch == Spec => []ReplyMatches
  <1>1. LinkInv => ReplyMatches
    BY DEF LinkInv, IdleInv, ReplyMatches
  <1> QED BY <1>1, LinkInvariant, PTL

-----------------------------------------------------------------------------
(* The link implements Exchange.                                             *)

\* The phase is a function of the status while the connection is used.
PhaseTable ==
    /\ pc = "down" => phase = "down"
    /\ pc # "down" =>
         /\ status \in {"PRE_CONNECT", "CONNECTED"} => phase = "ready"
         /\ status \in {"SENDING", "RECEIVING"} => phase = "asking"
         /\ status = "IDLE" => phase = "answered"
         /\ status \in Failed => phase = "failed"

LEMMA Phases == PhaseTable
  <1>1. ASSUME pc = "down" PROVE phase = "down"
    BY <1>1 DEF phase
  <1>2. ASSUME pc # "down", status \in {"PRE_CONNECT", "CONNECTED"}
        PROVE  phase = "ready"
    BY <1>2 DEF phase
  <1>3. ASSUME pc # "down", status \in {"SENDING", "RECEIVING"}
        PROVE  phase = "asking"
    BY <1>3 DEF phase
  <1>4. ASSUME pc # "down", status = "IDLE" PROVE phase = "answered"
    BY <1>4 DEF phase
  <1>5. ASSUME pc # "down", status \in Failed PROVE phase = "failed"
    BY <1>5 DEF phase, Failed
  <1> QED BY <1>1, <1>2, <1>3, <1>4, <1>5 DEF PhaseTable

\* The answer a caller holds names its last request.
LEMMA AnswerIsLast ==
    ASSUME TypeOK, LinkInv, Careful, ~PartialWrites, phase = "answered"
    PROVE  recv[3] = req
  <1>1. status = "IDLE"
    BY Phases DEF phase
  <1> QED BY <1>1 DEF LinkInv, IdleInv, Reply, Promised

\* What a step of the link is to a caller, by the phases around it.
LEMMA PhaseStep ==
    ASSUME TypeOK, LinkInv, LinkInv', [Next]_vars, Careful, ~PartialWrites
    PROVE  \/ phase' = phase /\ req' = req
           \/ phase = "down" /\ phase' \in {"ready", "failed"} /\ req' = req
           \/ /\ phase \in {"ready", "answered"}
              /\ phase' \in {"asking", "failed"} /\ req' = req + 1
           \/ phase = "asking" /\ phase' = "answered" /\ req' = req
           \/ /\ phase \in {"ready", "asking", "answered"}
              /\ phase' = "failed" /\ req' = req
           \/ phase # "asking" /\ phase' = "down" /\ req' = req
  <1> DEFINE Goal == /\ \/ phase' = phase
                        \/ /\ phase \in {"ready", "asking", "answered"}
                           /\ phase' = "failed"
                     /\ req' = req
  <1>0. SendingInv /\ ReceivingInv /\ IdleInv /\ CallInv
    BY DEF LinkInv, Promised
  <1>p. PhaseTable /\ PhaseTable'
    BY Phases, PTL
  <1>s. pc # "down" => phase \in {"ready", "asking", "answered", "failed"}
    BY DEF phase
  <1> USE <1>p DEF PhaseTable, Failed
  <1>1. CASE SwcInit
    BY <1>1 DEF SwcInit
  <1>2. CASE SwcDestroy
    <2>1. pc = "out" /\ pc' = "down" /\ req' = req
      BY <1>2 DEF SwcDestroy
    <2>2. phase # "asking"
      BY <1>0, <2>1 DEF SendingInv, ReceivingInv, phase
    <2> QED BY <2>1, <2>2
  <1>3. ASSUME NEW t \in Timeouts, SwcWaitConnect(t) PROVE Goal
    BY <1>3 DEF SwcWaitConnect
  <1>4. ASSUME NEW t \in Timeouts, SwcSendRecv(t)
        PROVE  /\ phase \in {"ready", "answered"}
               /\ phase' \in {"asking", "failed"} /\ req' = req + 1
    BY <1>4 DEF SwcSendRecv
  <1>5. CASE EvConnect
    BY <1>0, <1>5 DEF EvConnect, CallInv, Polling
  <1>6. CASE EvError
    BY <1>s, <1>6 DEF EvError, Polling
  <1>7. CASE EvClose
    BY <1>s, <1>7 DEF EvClose, AfterClose, Polling
  <1>8. ASSUME NEW k \in 1..Len(net), EvRead(k)
        PROVE  Goal \/ (phase = "asking" /\ phase' = "answered" /\ req' = req)
    <2>1. /\ UNCHANGED <<pc, req>> /\ Polling
          /\ \/ status' = status
             \/ status = "RECEIVING" /\ status' = "IDLE"
      <3>1. CASE status = "RECEIVING"
        BY <1>8, <3>1 DEF EvRead, Listens
      <3>2. CASE status # "RECEIVING"
        BY <1>8, <3>2 DEF EvRead, Listens
      <3> QED BY <3>1, <3>2
    <2> QED BY <2>1 DEF Polling, phase
  <1>9. ASSUME NEW n \in 1..Len(cSend), EvWrite(n) PROVE Goal
    <2>1. cSend # <<>> /\ Polling /\ UNCHANGED <<pc, req>> /\ conn = "open"
      BY <1>9, EmptySeq, SMT DEF EvWrite
    <2>2. status = "SENDING" \/ status \in Failed
      BY <1>0, <2>1 DEF ReceivingInv, IdleInv, CallInv, Quiet, TypeOK, Status
    <2>3. CASE status = "SENDING"
      <3>1. status' \in {"SENDING", "RECEIVING", "ERROR"}
        BY <1>9, <2>3 DEF EvWrite, SendRest, Writes
      <3> QED BY <2>1, <2>3, <3>1 DEF Polling
    <2>4. CASE status \in Failed
      BY <1>9, <2>1, <2>4 DEF EvWrite, Writes, Polling
    <2> QED BY <2>2, <2>3, <2>4
  <1>b. ASSUME NEW n \in 1..Len(cSend), EvWriteBeyond(n) PROVE FALSE
    BY <1>b, WholeWritesStay
  <1>10. CASE PollEnd
    <2>1. Polling /\ pc' # "down" /\ req' = req
          /\ (status' = status \/ status' = "TIMEOUT")
      BY <1>10, Zenon DEF PollEnd, Expired, Polling
    <2> QED BY <1>s, <2>1 DEF Polling, phase
  <1>11. CASE ServerReply
    BY <1>11 DEF ServerReply, phase
  <1>12. CASE UNCHANGED vars
    BY <1>12 DEF vars, phase
  <1> QED BY <1>1, <1>2, <1>3, <1>4, <1>5, <1>6, <1>7, <1>8, <1>9, <1>b, <1>10,
             <1>11, <1>12 DEF Next

(* For a caller that gives the link up after a failure, over a socket that   *)
(* takes whole requests, the link is an Exchange; of other usages Exchange     *)
(* sees nothing. (web.c 255-390)                                               *)
THEOREM LinkImplementsExchange == Spec => ExchangeSpec
  <1> DEFINE xphase == IF Promised THEN phase ELSE "down"
             asked  == IF Promised THEN req ELSE 0
             answer == IF Promised /\ phase = "answered" THEN recv[3] ELSE 0
  <1>1. Init => X!Init
    BY DEF Init, X!Init, phase
  <1>2. TypeOK /\ LinkInv /\ TypeOK' /\ LinkInv' /\ [Next]_vars
          => [X!Next]_(X!xvars)
    <2> SUFFICES ASSUME TypeOK, LinkInv, TypeOK', LinkInv', [Next]_vars
                 PROVE  [X!Next]_(X!xvars)
      OBVIOUS
    <2>u. Promised' = Promised
      BY UsageKept
    <2>1. CASE ~Promised
      <3>1. xphase' = xphase /\ asked' = asked /\ answer' = answer
        BY <2>u, <2>1
      <3> QED BY <3>1 DEF X!xvars
    <2>2. CASE Promised
      <3>1. xphase = phase /\ xphase' = phase' /\ asked = req /\ asked' = req'
        BY <2>u, <2>2
      <3>2. answer = IF phase = "answered" THEN req ELSE 0
        BY <2>2, AnswerIsLast DEF Promised
      <3>3. answer' = IF phase' = "answered" THEN req' ELSE 0
        BY <2>u, <2>2 DEF LinkInv, IdleInv, Reply, phase
      <3>4. \/ phase' = phase /\ req' = req
            \/ phase = "down" /\ phase' \in {"ready", "failed"} /\ req' = req
            \/ /\ phase \in {"ready", "answered"}
               /\ phase' \in {"asking", "failed"} /\ req' = req + 1
            \/ phase = "asking" /\ phase' = "answered" /\ req' = req
            \/ /\ phase \in {"ready", "asking", "answered"}
               /\ phase' = "failed" /\ req' = req
            \/ phase # "asking" /\ phase' = "down" /\ req' = req
        BY <2>2, PhaseStep DEF Promised
      <3> HIDE DEF answer, xphase, asked
      <3> QED BY <3>1, <3>2, <3>3, <3>4
              DEF answer, xphase, asked, X!Next, X!xvars,
                  X!Open, X!Ask, X!Answer, X!Fail, X!Close
    <2> QED BY <2>1, <2>2
  <1> QED BY <1>1, <1>2, TypeCorrect, LinkInvariant, PTL DEF Spec, ExchangeSpec, X!Spec

-----------------------------------------------------------------------------
(* Errors.                                                                   *)

\* A connection still opening has had no error: what a call records before it
\* polls, it returns.
OpeningInv == Polling /\ status = "ERROR" => conn # "opening"

(* No event replaces an error that a call in progress has recorded, for      *)
(* every caller and socket; only the countdown does. (web.c 265-307, 337-341)*)
THEOREM ErrorsKept == Spec => ErrorKept
  <1>1. Init => OpeningInv
    BY DEF Init, OpeningInv, Polling
  <1>2. OpeningInv /\ [Next]_vars => OpeningInv'
    <2> SUFFICES ASSUME OpeningInv, [Next]_vars, Polling', status' = "ERROR"
                 PROVE  conn' # "opening"
      BY DEF OpeningInv
    <2> USE DEF Polling
    <2>1. CASE SwcInit \/ SwcDestroy
      BY <2>1 DEF SwcInit, SwcDestroy
    <2>2. ASSUME NEW t \in Timeouts, SwcWaitConnect(t) \/ SwcSendRecv(t)
          PROVE  conn' # "opening"
      BY <2>2 DEF SwcWaitConnect, SwcSendRecv, Again, Failed
    <2>3. CASE EvConnect \/ EvError \/ EvClose
      BY <2>3 DEF EvConnect, EvError, EvClose
    <2>4. ASSUME NEW k \in 1..Len(net), EvRead(k) PROVE conn' # "opening"
      BY <2>4 DEF EvRead
    <2>5. ASSUME NEW n \in 1..Len(cSend), EvWrite(n) PROVE conn' # "opening"
      BY <2>5 DEF EvWrite
    <2>b. ASSUME NEW n \in 1..Len(cSend), EvWriteBeyond(n) PROVE conn' # "opening"
      BY <2>b DEF EvWriteBeyond
    <2>6. CASE PollEnd
      <3>1. status' = status \/ status' = "TIMEOUT"
        BY <2>6, Zenon DEF PollEnd, Expired
      <3> QED BY <2>6, <3>1 DEF PollEnd, OpeningInv
    <2>7. CASE ServerReply \/ UNCHANGED vars
      BY <2>7 DEF ServerReply, vars, OpeningInv
    <2> QED BY <2>1, <2>2, <2>3, <2>4, <2>5, <2>b, <2>6, <2>7 DEF Next
  <1>3. OpeningInv /\ [Next]_vars
          => [Polling /\ status = "ERROR" => status' \in {"ERROR", "TIMEOUT"}]_vars
    <2> SUFFICES ASSUME OpeningInv, [Next]_vars, Polling, status = "ERROR"
                 PROVE  status' \in {"ERROR", "TIMEOUT"}
      OBVIOUS
    <2> USE DEF Polling
    <2>1. CASE SwcInit \/ SwcDestroy
      BY <2>1 DEF SwcInit, SwcDestroy
    <2>2. ASSUME NEW t \in Timeouts, SwcWaitConnect(t) \/ SwcSendRecv(t)
          PROVE  FALSE
      BY <2>2 DEF SwcWaitConnect, SwcSendRecv
    <2>3. CASE EvConnect \/ EvError \/ EvClose
      BY <2>3 DEF EvConnect, EvError, EvClose, AfterClose, OpeningInv
    <2>4. ASSUME NEW k \in 1..Len(net), EvRead(k) PROVE status' = status
      BY <2>4 DEF EvRead, Listens
    <2>5. ASSUME NEW n \in 1..Len(cSend), EvWrite(n) PROVE status' = status
      BY <2>5 DEF EvWrite, Writes, Failed
    <2>b. ASSUME NEW n \in 1..Len(cSend), EvWriteBeyond(n) PROVE status' = status
      BY <2>b DEF EvWriteBeyond
    <2>6. CASE PollEnd
      BY <2>6, Zenon DEF PollEnd, Expired
    <2>7. CASE ServerReply \/ UNCHANGED vars
      BY <2>7 DEF ServerReply, vars
    <2> QED BY <2>1, <2>2, <2>3, <2>4, <2>5, <2>b, <2>6, <2>7 DEF Next
  <1> QED BY <1>1, <1>2, <1>3, PTL DEF Spec, ErrorKept
-----------------------------------------------------------------------------
(* Late replies.                                                             *)

\* The names of the requests of this connection.
Names == (base + 1)..req

\* Whole replies to requests of S, one behind the other.
Replies(S, b) ==
    \E n \in 0..Len(b) :
        /\ Len(b) = 3 * n
        /\ \A i \in 0..(n - 1) :
              b[3 * i + 1] = 0 /\ b[3 * i + 2] = 1 /\ b[3 * i + 3] \in S

\* What the handler has taken of a reply it is not done with.
Taken == IF status = "RECEIVING" THEN recv ELSE <<>>

\* Over a socket that takes whole requests, what goes to the switch is of this
\* connection's requests, and a queue that is not empty holds at least the last.
WaysOut ==
    ~PartialWrites =>
        /\ base <= req
        /\ cSend \in Seq(Names) /\ wire \in Seq(Names)
        /\ cSend # <<>> =>
              /\ Len(recv) <= ReqLen /\ Len(cSend) >= ReqLen
              /\ pc # "connect"
              /\ status \notin {"INIT", "PRE_CONNECT", "IDLE", "RECEIVING"}
        /\ status \in {"SENDING", "RECEIVING"} => pc = "exchange"
        /\ status = "INIT" => pc = "down"
        /\ conn = "opening" => cRecv = <<>> /\ net = <<>>

\* What comes back is whole replies, counted from the first byte taken.
WayBack ==
    ~PartialWrites /\ ~torn =>
        /\ conn = "open" => Replies(Names, (Taken \o cRecv) \o net)
        /\ status = "IDLE" => \E r \in Names : recv = Reply(r)

LEMMA SeqWider ==
    ASSUME NEW S, NEW T, S \subseteq T, NEW s \in Seq(S) PROVE s \in Seq(T)
  <1>1. PICK n \in Nat : s \in [1..n -> S]
    BY SeqDef
  <1>2. s \in [1..n -> T]
    BY <1>1
  <1> QED BY <1>2, SeqDef

LEMMA NamesAre == TypeOK => Names \subseteq Nat
  BY DEF TypeOK, Names

LEMMA NamedRequest ==
    ASSUME NEW S, NEW r \in S PROVE Request(r) \in Seq(S)
  <1>1. ReqLen \in Nat /\ Request(r) \in [1..ReqLen -> S]
    BY ReqLenAssumption DEF Request
  <1> QED BY <1>1, SeqDef

LEMMA NoReplies == ASSUME NEW S PROVE Replies(S, <<>>)
  <1>1. Len(<<>>) = 0 /\ 0 \in 0..0 /\ 3 * 0 = 0 /\ 0..(0 - 1) = {}
    OBVIOUS
  <1> QED BY <1>1 DEF Replies

LEMMA RepliesWider ==
    ASSUME NEW S, NEW T, S \subseteq T, NEW b, Replies(S, b) PROVE Replies(T, b)
  BY DEF Replies

\* One more reply at the end.
LEMMA RepliesMore ==
    ASSUME NEW S, S \subseteq Nat, NEW b \in Bytes, Replies(S, b), NEW r \in S
    PROVE  Replies(S, b \o Reply(r))
  <1>1. PICK n \in 0..Len(b) :
            /\ Len(b) = 3 * n
            /\ \A i \in 0..(n - 1) :
                  b[3 * i + 1] = 0 /\ b[3 * i + 2] = 1 /\ b[3 * i + 3] \in S
    BY DEF Replies
  <1> DEFINE c == b \o Reply(r)
             p == Reply(r)
  <1>2. /\ p \in Seq(Nat) /\ Len(p) = 3 /\ p[1] = 0 /\ p[2] = 1 /\ p[3] = r
        /\ b \in Seq(Nat) /\ Len(b) \in Nat /\ n \in Nat
    BY MessageBytes, LenProperties, SMT DEF Reply, Bytes
  <1> HIDE DEF p
  <1>3. /\ Len(c) = 3 * n + 3
        /\ \A i \in 1..(3 * n + 3) : c[i] = IF i <= 3 * n THEN b[i] ELSE p[i - 3 * n]
    <2>1. /\ Len(b \o p) = Len(b) + Len(p)
          /\ \A i \in 1..(Len(b) + Len(p)) :
                (b \o p)[i] = IF i <= Len(b) THEN b[i] ELSE p[i - Len(b)]
      BY <1>2, ConcatProperties
    <2> QED BY <1>1, <1>2, <2>1 DEF p
  <1> HIDE DEF c
  <1>4. ASSUME NEW i \in 0..n
        PROVE  c[3 * i + 1] = 0 /\ c[3 * i + 2] = 1 /\ c[3 * i + 3] \in S
    <2>1. CASE i = n
      <3>1. /\ 3 * i + 1 \in 1..(3 * n + 3) /\ ~(3 * i + 1 <= 3 * n) /\ 3 * i + 1 - 3 * n = 1
            /\ 3 * i + 2 \in 1..(3 * n + 3) /\ ~(3 * i + 2 <= 3 * n) /\ 3 * i + 2 - 3 * n = 2
            /\ 3 * i + 3 \in 1..(3 * n + 3) /\ ~(3 * i + 3 <= 3 * n) /\ 3 * i + 3 - 3 * n = 3
        BY <1>2, <2>1
      <3> QED BY ONLY <1>2, <1>3, <3>1, r \in S
    <2>2. CASE i # n
      <3>1. /\ i \in 0..(n - 1)
            /\ 3 * i + 1 \in 1..(3 * n + 3) /\ 3 * i + 1 <= 3 * n
            /\ 3 * i + 2 \in 1..(3 * n + 3) /\ 3 * i + 2 <= 3 * n
            /\ 3 * i + 3 \in 1..(3 * n + 3) /\ 3 * i + 3 <= 3 * n
        BY <1>2, <2>2
      <3> QED BY ONLY <1>1, <1>3, <3>1
    <2> QED BY <2>1, <2>2
  <1>5. n + 1 \in 0..Len(c) /\ Len(c) = 3 * (n + 1) /\ 0..((n + 1) - 1) = 0..n
    BY <1>2, <1>3
  <1>6. Replies(S, c)
    BY <1>4, <1>5 DEF Replies
  <1> QED BY <1>6 DEF c, p

\* What passes the test at the end of a read, and began with whole replies, is
\* the first of them.
LEMMA RepliesFirst ==
    ASSUME NEW S, S \subseteq Nat, NEW b \in Bytes, NEW rest \in Bytes,
           Replies(S, b \o rest), Complete(b)
    PROVE  (\E r \in S : b = Reply(r)) /\ Replies(S, rest)
  <1> DEFINE c == b \o rest
  <1>1. PICK n \in 0..Len(c) :
            /\ Len(c) = 3 * n
            /\ \A i \in 0..(n - 1) :
                  c[3 * i + 1] = 0 /\ c[3 * i + 2] = 1 /\ c[3 * i + 3] \in S
    BY DEF Replies
  <1>2. /\ Len(b) \in Nat /\ Len(rest) \in Nat /\ Len(c) = Len(b) + Len(rest)
        /\ \A i \in 1..(Len(b) + Len(rest)) :
              c[i] = IF i <= Len(b) THEN b[i] ELSE rest[i - Len(b)]
    BY LenProperties, ConcatProperties DEF Bytes
  <1>3. Len(b) >= 2 /\ Len(b) = b[1] * Base + b[2] + 2
    BY DEF Complete
  <1> HIDE DEF c
  <1>4. n \in Nat /\ n >= 1
    BY <1>1, <1>2, <1>3
  <1>5. c[1] = 0 /\ c[2] = 1 /\ c[3] \in S
    <2>1. 0 \in 0..(n - 1) /\ 3 * 0 + 1 = 1 /\ 3 * 0 + 2 = 2 /\ 3 * 0 + 3 = 3
      BY <1>4
    <2> QED BY <1>1, <2>1
  <1>6. b[1] = 0 /\ b[2] = 1
    <2>1. /\ 1 \in 1..(Len(b) + Len(rest)) /\ 1 <= Len(b)
          /\ 2 \in 1..(Len(b) + Len(rest)) /\ 2 <= Len(b)
      BY <1>2, <1>3
    <2> QED BY <1>2, <1>5, <2>1
  <1>7. Len(b) = 3
    <2>1. 0 * Base = 0
      BY BaseAssumption
    <2> QED BY <1>2, <1>3, <1>6, <2>1
  <1>8. b = Reply(c[3])
    <2>1. 3 \in 1..(Len(b) + Len(rest)) /\ b[3] = c[3]
      BY <1>2, <1>7
    <2>2. c[3] \in Nat
      BY <1>5
    <2>3. Reply(c[3]) \in Seq(Nat) /\ Len(Reply(c[3])) = 3
      BY <2>2, MessageBytes DEF Bytes
    <2>4. \A i \in 1..3 : b[i] = Reply(c[3])[i]
      BY <1>6, <2>1, <2>2 DEF Reply
    <2> QED BY <1>7, <2>3, <2>4, SeqEqual DEF Bytes
  <1>9. Replies(S, rest)
    <2>1. n - 1 \in 0..Len(rest) /\ Len(rest) = 3 * (n - 1)
      BY <1>1, <1>2, <1>4, <1>7
    <2>2. ASSUME NEW i \in 0..((n - 1) - 1)
          PROVE  /\ rest[3 * i + 1] = 0 /\ rest[3 * i + 2] = 1
                 /\ rest[3 * i + 3] \in S
      <3>1. i + 1 \in 0..(n - 1)
        BY <1>4
      <3>2. /\ c[3 * (i + 1) + 1] = 0 /\ c[3 * (i + 1) + 2] = 1
            /\ c[3 * (i + 1) + 3] \in S
        BY <1>1, <3>1
      <3>3. /\ 3 * (i + 1) + 1 \in 1..(3 + Len(rest)) /\ ~(3 * (i + 1) + 1 <= 3)
            /\ 3 * (i + 1) + 1 - 3 = 3 * i + 1
            /\ 3 * (i + 1) + 2 \in 1..(3 + Len(rest)) /\ ~(3 * (i + 1) + 2 <= 3)
            /\ 3 * (i + 1) + 2 - 3 = 3 * i + 2
            /\ 3 * (i + 1) + 3 \in 1..(3 + Len(rest)) /\ ~(3 * (i + 1) + 3 <= 3)
            /\ 3 * (i + 1) + 3 - 3 = 3 * i + 3
        BY <1>4, <2>1
      <3> QED BY ONLY <1>2, <1>7, <3>2, <3>3
    <2> QED BY <2>1, <2>2 DEF Replies
  <1> QED BY <1>5, <1>8, <1>9

AllBytes(t, c, f, l) == t \in Bytes /\ c \in Bytes /\ f \in Bytes /\ l \in Bytes

LEMMA Regroup ==
    ASSUME NEW t, NEW c, NEW f, NEW l, AllBytes(t, c, f, l)
    PROVE  (t \o (c \o f)) \o l = (t \o c) \o (f \o l)
  <1>1. t \in Bytes /\ c \in Bytes /\ f \in Bytes /\ l \in Bytes
    BY DEF AllBytes
  <1>2. t \o (c \o f) = (t \o c) \o f
    BY <1>1, JoinAssociates
  <1> DEFINE tc == t \o c
  <1>3. tc \in Bytes
    BY <1>1, JoinBytes
  <1> HIDE DEF tc
  <1>4. (tc \o f) \o l = tc \o (f \o l)
    BY ONLY <1>1, <1>3, JoinAssociates, SMTT(60)
  <1> QED BY <1>2, <1>4 DEF tc

LEMMA JoinNothing ==
    ASSUME NEW s \in Bytes PROVE <<>> \o s = s /\ s \o <<>> = s
  BY ConcatEmptySeq DEF Bytes

LEMMA WaysOutStep ==
    ASSUME TypeOK, WaysOut, [Next]_vars PROVE WaysOut'
  <1> SUFFICES ASSUME ~PartialWrites
               PROVE  /\ base' <= req'
                      /\ cSend' \in Seq(Names') /\ wire' \in Seq(Names')
                      /\ cSend' # <<>> =>
                            /\ Len(recv') <= ReqLen /\ Len(cSend') >= ReqLen
                            /\ pc' # "connect"
                            /\ status' \notin {"INIT", "PRE_CONNECT", "IDLE", "RECEIVING"}
                      /\ status' \in {"SENDING", "RECEIVING"} => pc' = "exchange"
                      /\ status' = "INIT" => pc' = "down"
                      /\ conn' = "opening" => cRecv' = <<>> /\ net' = <<>>
    BY UsageKept DEF WaysOut
  <1>0. /\ base <= req
        /\ cSend \in Seq(Names) /\ wire \in Seq(Names)
        /\ cSend # <<>> =>
              /\ Len(recv) <= ReqLen /\ Len(cSend) >= ReqLen
              /\ pc # "connect"
              /\ status \notin {"INIT", "PRE_CONNECT", "IDLE", "RECEIVING"}
        /\ status \in {"SENDING", "RECEIVING"} => pc = "exchange"
        /\ status = "INIT" => pc = "down"
        /\ conn = "opening" => cRecv = <<>> /\ net = <<>>
    BY DEF WaysOut
  <1>t. /\ base \in Nat /\ req \in Nat /\ sendIndex \in Nat /\ ReqLen \in Nat \ {0}
        /\ Len(recv) \in Nat /\ Len(cSend) \in Nat /\ Len(wire) \in Nat
    BY ReqLenAssumption, LenProperties DEF TypeOK, Bytes
  <1>e. <<>> \in Seq(Names')
    BY EmptySeq
  <1>n. base' = base /\ req' = req => Names' = Names
    BY DEF Names
  <1> USE DEF Polling, Failed
  <1>1. CASE SwcInit
    BY <1>1, <1>e, <1>t DEF SwcInit, Flush
  <1>2. CASE SwcDestroy
    BY <1>0, <1>2, <1>e DEF SwcDestroy, Flush, AfterClose
  <1>3. ASSUME NEW t \in Timeouts, SwcWaitConnect(t) PROVE WaysOut'
    <2>1. /\ UNCHANGED <<status, recv, req, base, conn, cSend, wire, cRecv, net>>
          /\ pc = "out" /\ pc' = "connect" /\ status # "CONNECTED" /\ status \notin Failed
      BY <1>3 DEF SwcWaitConnect, Again, queues
    <2>2. cSend = <<>>
      BY <1>0, <2>1 DEF TypeOK, Status
    <2> QED BY <1>0, <1>n, <2>1, <2>2 DEF WaysOut
  <1>4. ASSUME NEW t \in Timeouts, SwcSendRecv(t) PROVE WaysOut'
    <2>1. /\ req' = req + 1 /\ UNCHANGED <<base, conn, cRecv, wire, net>>
          /\ recv' \in {Request(req + 1), <<>>}
      BY <1>4 DEF SwcSendRecv
    <2>2. req + 1 \in Names' /\ Names \subseteq Names' /\ base' <= req'
      BY <1>0, <1>t, <2>1 DEF Names
    <2>3. wire \in Seq(Names') /\ cSend \in Seq(Names') /\ Request(req + 1) \in Seq(Names')
      BY <1>0, <2>2, SeqWider, NamedRequest
    <2>4. Len(recv') <= ReqLen
      <3>1. Len(Request(req + 1)) = ReqLen /\ Len(<<>>) = 0
        BY <1>t, MessageBytes
      <3> QED BY <1>t, <2>1, <3>1
    <2>5. CASE status' = "SENDING" /\ cSend' = cSend \o Request(req + 1) /\ pc' = "exchange"
      <3>1. cSend' \in Seq(Names') /\ Len(cSend') = Len(cSend) + ReqLen
        <4>1. Len(Request(req + 1)) = ReqLen
          BY <1>t, MessageBytes
        <4>2. /\ cSend \o Request(req + 1) \in Seq(Names')
              /\ Len(cSend \o Request(req + 1)) = Len(cSend) + Len(Request(req + 1))
          BY ONLY <2>3, ConcatProperties
        <4> QED BY <2>5, <4>1, <4>2
      <3>2. Len(cSend') >= ReqLen
        BY <1>t, <3>1
      <3> QED BY <1>0, <2>1, <2>2, <2>3, <2>4, <2>5, <3>1, <3>2 DEF WaysOut
    <2>6. CASE status' = "ERROR" /\ pc' = pc /\ cSend' = cSend
      <3>1. pc' # "connect"
        BY <1>4, <2>6 DEF SwcSendRecv
      <3> QED BY <1>0, <2>1, <2>2, <2>3, <2>4, <2>6, <3>1 DEF WaysOut
    <2>7. \/ status' = "SENDING" /\ cSend' = cSend \o Request(req + 1) /\ pc' = "exchange"
          \/ status' = "ERROR" /\ pc' = pc /\ cSend' = cSend
      BY <1>4, Zenon DEF SwcSendRecv
    <2> QED BY <2>5, <2>6, <2>7
  <1>5. CASE EvConnect
    BY <1>0, <1>5, <1>n DEF EvConnect, queues
  <1>6. CASE EvError
    BY <1>0, <1>6, <1>n DEF EvError, queues
  <1>7. CASE EvClose
    BY <1>0, <1>7, <1>e DEF EvClose, Flush, AfterClose
  <1>8. ASSUME NEW k \in 1..Len(net), EvRead(k) PROVE WaysOut'
    <2>1. UNCHANGED <<pc, req, base, conn, cSend, wire>> /\ conn = "open"
      BY <1>8 DEF EvRead
    <2>2. CASE status = "RECEIVING"
      <3>1. status' \in {"RECEIVING", "IDLE"} /\ pc = "exchange" /\ cSend = <<>>
        BY <1>0, <1>8, <2>2 DEF EvRead, Listens
      <3> QED BY <1>0, <1>n, <2>1, <3>1 DEF WaysOut
    <2>3. CASE status # "RECEIVING"
      <3>1. status' = status /\ recv' = recv
        BY <1>8, <2>3 DEF EvRead, Listens
      <3> QED BY <1>0, <1>n, <2>1, <3>1 DEF WaysOut
    <2> QED BY <2>2, <2>3
  <1>9. ASSUME NEW n \in 1..Len(cSend), EvWrite(n) PROVE WaysOut'
    <2>0. /\ Polling /\ conn = "open" /\ cSend # <<>> /\ n = Len(cSend) /\ n \in Nat
          /\ UNCHANGED <<pc, req, base, conn, cRecv, net>>
      BY <1>9, <1>t, EmptySeq, SMT DEF EvWrite
    <2>1. SubSeq(cSend, 1, n) = cSend /\ SubSeq(cSend, n + 1, Len(cSend)) = <<>>
      BY <2>0, <1>t, SubSeqFull, SubSeqEmpty DEF TypeOK, Bytes
    <2>2. wire' = wire \o cSend /\ wire' \in Seq(Names')
      <3>1. wire' = wire \o cSend
        BY <1>9, <2>1 DEF EvWrite
      <3> QED BY <1>0, <1>n, <2>0, <3>1, ConcatProperties
    <2>3. pc = "exchange"
      BY <1>0, <2>0
    <2>4. CASE ~Writes(status)
      <3>1. cSend' = <<>> /\ status' = status
        BY <1>9, <2>1, <2>4 DEF EvWrite
      <3> QED BY <1>0, <1>e, <2>0, <2>2, <2>3, <3>1 DEF WaysOut
    <2>5. CASE Writes(status) /\ AllWritten(sendIndex + n)
      <3>1. cSend' = <<>> /\ status' = "RECEIVING"
        BY <1>9, <2>1, <2>5 DEF EvWrite
      <3> QED BY <1>0, <1>e, <2>0, <2>2, <2>3, <3>1 DEF WaysOut
    <2>6. CASE Writes(status) /\ ~AllWritten(sendIndex + n)
      <3>1. Len(SendBuf) <= ReqLen /\ Len(SendBuf) \in Nat
        BY <1>0, <1>t, <2>0, MessageBytes DEF SendBuf
      <3>2. ~(Len(SendBuf) > sendIndex + n)
        BY <1>0, <1>t, <2>0, <3>1
      <3>3. cSend' = <<>> /\ status' = "ERROR"
        BY <1>9, <2>1, <2>6, <3>2 DEF EvWrite, SendRest
      <3> QED BY <1>0, <1>e, <2>0, <2>2, <2>3, <3>3 DEF WaysOut
    <2> QED BY <2>4, <2>5, <2>6
  <1>b. ASSUME NEW n \in 1..Len(cSend), EvWriteBeyond(n) PROVE FALSE
    BY <1>b, WholeWritesStay
  <1>10. CASE PollEnd
    <2>1. UNCHANGED <<recv, req, base, conn, cSend, wire, cRecv, net>>
      BY <1>10, Zenon DEF PollEnd, queues
    <2>2. \/ status' = "TIMEOUT" /\ pc' = "out"
          \/ status' = status /\ pc' = (IF Again(pc, status) THEN pc ELSE "out")
      BY <1>10, Zenon DEF PollEnd, Expired
    <2>3. CASE status' = "TIMEOUT" /\ pc' = "out"
      BY <1>0, <1>n, <2>1, <2>3
    <2>4. CASE status' = status /\ pc' = (IF Again(pc, status) THEN pc ELSE "out")
      BY <1>0, <1>10, <1>n, <2>1, <2>4 DEF Again, PollEnd
    <2> QED BY <2>2, <2>3, <2>4
  <1>11. CASE ServerReply
    <2>1. /\ UNCHANGED <<status, pc, recv, req, base, conn, cSend, cRecv>>
          /\ conn = "open" /\ wire' = SubSeq(wire, ReqLen + 1, Len(wire))
      BY <1>11 DEF ServerReply
    <2>2. wire' \in Seq(Names')
      <3>1. SubSeq(wire, ReqLen + 1, Len(wire)) \in Seq(Names)
        BY <1>0, <1>t, SubSeqProperties, ElementOfSeq, SMT
      <3> QED BY <1>n, <2>1, <3>1
    <2> QED BY <1>0, <1>n, <2>1, <2>2
  <1>12. CASE UNCHANGED vars
    BY <1>0, <1>12, <1>n DEF vars
  <1>13. \A t \in Timeouts : SwcWaitConnect(t) \/ SwcSendRecv(t) => WaysOut'
    BY <1>3, <1>4
  <1> HIDE DEF WaysOut
  <1>14. WaysOut'
    BY <1>1, <1>2, <1>13, <1>5, <1>6, <1>7, <1>8, <1>9, <1>b, <1>10, <1>11, <1>12, UsageKept DEF Next, WaysOut
  <1> QED BY <1>14, UsageKept DEF WaysOut

LEMMA WayBackStep ==
    ASSUME TypeOK, TypeOK', WaysOut, WaysOut', WayBack, [Next]_vars PROVE WayBack'
  <1> DEFINE Goal == /\ conn' = "open" => Replies(Names', (Taken' \o cRecv') \o net')
                     /\ status' = "IDLE" => \E r \in Names' : recv' = Reply(r)
  <1> SUFFICES ASSUME ~PartialWrites, ~torn' PROVE Goal
    BY UsageKept DEF WayBack
  <1>t. /\ recv \in Bytes /\ cRecv \in Bytes /\ net \in Bytes /\ Taken \in Bytes
        /\ <<>> \in Bytes /\ Names \subseteq Nat
    BY NamesAre, EmptySeq DEF TypeOK, Taken, Bytes
  <1>n. base' = base /\ req' = req => Names' = Names
    BY DEF Names
  <1>e. Replies(Names', (<<>> \o <<>>) \o <<>>)
    <2>1. (<<>> \o <<>>) \o <<>> = <<>>
      BY <1>t, JoinNothing
    <2> QED BY <2>1, NoReplies
  <1>k. ASSUME base' = base, req' = req, ~torn, conn' = "open" => conn = "open",
               Taken' = Taken, cRecv' = cRecv, net' = net,
               status' = "IDLE" => status = "IDLE" /\ recv' = recv
        PROVE  Goal
    BY <1>k, <1>n DEF WayBack
  <1> USE DEF Polling, Failed
  <1>1. CASE SwcInit
    <2>1. status' \in {"PRE_CONNECT", "ERROR"} /\ cRecv' = <<>> /\ net' = <<>>
      BY <1>1 DEF SwcInit, Flush
    <2> QED BY <1>e, <2>1 DEF Taken, WayBack
  <1>2. CASE SwcDestroy
    <2>1. /\ conn' = "none" /\ UNCHANGED <<req, base, torn, recv>>
          /\ status' = "IDLE" => status = "IDLE"
      BY <1>2 DEF SwcDestroy, AfterClose
    <2> QED BY <1>n, <2>1 DEF WayBack
  <1>3. ASSUME NEW t \in Timeouts, SwcWaitConnect(t) PROVE Goal
    BY <1>k, <1>3 DEF SwcWaitConnect, queues, Taken
  <1>4. ASSUME NEW t \in Timeouts, SwcSendRecv(t) PROVE Goal
    <2>1. /\ req' = req + 1 /\ UNCHANGED <<base, torn, conn, cRecv, net>>
          /\ status' \in {"SENDING", "ERROR"} /\ pc = "out"
      BY <1>4 DEF SwcSendRecv
    <2>2. Taken = <<>> /\ Taken' = <<>>
      BY <2>1 DEF Taken, WaysOut
    <2>3. Names \subseteq Names'
      BY <2>1 DEF TypeOK, Names
    <2> QED BY <2>1, <2>2, <2>3, RepliesWider DEF WayBack
  <1>5. CASE EvConnect
    <2>1. /\ conn = "opening" /\ status' = "CONNECTED" /\ UNCHANGED <<cRecv, net>>
      BY <1>5 DEF EvConnect, queues
    <2>2. cRecv' = <<>> /\ net' = <<>>
      BY <2>1 DEF WaysOut
    <2> QED BY <1>e, <2>1, <2>2 DEF Taken, WayBack
  <1>6. CASE EvError
    BY <1>6 DEF EvError, WayBack
  <1>7. CASE EvClose
    <2>1. /\ conn' = "none" /\ status' # "IDLE"
      BY <1>7 DEF EvClose, AfterClose
    <2> QED BY <2>1 DEF WayBack
  <1>8. ASSUME NEW k \in 1..Len(net), EvRead(k) PROVE Goal
    <2> DEFINE first == SubSeq(net, 1, k)
               later == SubSeq(net, k + 1, Len(net))
               got   == cRecv \o first
    <2>1. first \in Bytes /\ later \in Bytes /\ first \o later = net
      BY SplitBytes DEF TypeOK
    <2>2. got \in Bytes /\ recv \o got \in Bytes
      BY <1>t, <2>1, JoinBytes
    <2>3. /\ ~torn /\ conn = "open" /\ UNCHANGED <<req, base, conn>> /\ net' = later
          /\ IF status = "RECEIVING"
             THEN /\ recv' = recv \o got /\ cRecv' = <<>>
                  /\ status' = IF Complete(recv \o got) THEN "IDLE" ELSE status
             ELSE cRecv' = got /\ UNCHANGED <<recv, status>>
      BY <1>8 DEF EvRead, Listens
    <2>4. Replies(Names, (Taken \o got) \o later)
      <3>1. Replies(Names, (Taken \o cRecv) \o net)
        BY <2>3 DEF WayBack
      <3> HIDE DEF first, later
      <3>2. (Taken \o got) \o later = (Taken \o cRecv) \o net
        <4>1. (Taken \o (cRecv \o first)) \o later = (Taken \o cRecv) \o (first \o later)
          <5>1. AllBytes(Taken, cRecv, first, later)
            BY <1>t, <2>1 DEF AllBytes
          <5> QED BY ONLY <5>1, Regroup
        <4> QED BY <2>1, <4>1
      <3> QED BY <3>1, <3>2
    <2> HIDE DEF first, later, got
    <2>5. CASE status # "RECEIVING"
      <3>1. Taken' = Taken /\ cRecv' = got /\ recv' = recv /\ status' = status
        BY <2>3, <2>5 DEF Taken
      <3> QED BY <1>n, <2>3, <2>4, <3>1 DEF WayBack
    <2>6. CASE status = "RECEIVING" /\ ~Complete(recv \o got)
      <3>1. Taken = recv /\ Taken' = recv \o got /\ cRecv' = <<>> /\ status' # "IDLE"
        BY <2>3, <2>6 DEF Taken
      <3>2. Taken' \o cRecv' = recv \o got
        BY <2>2, <3>1, JoinNothing
      <3> QED BY <1>n, <2>3, <2>4, <3>1, <3>2 DEF WayBack
    <2>7. CASE status = "RECEIVING" /\ Complete(recv \o got)
      <3>1. Taken = recv /\ Taken' = <<>> /\ cRecv' = <<>> /\ recv' = recv \o got
        BY <2>3, <2>7 DEF Taken
      <3>2. (\E r \in Names : recv \o got = Reply(r)) /\ Replies(Names, later)
        BY <1>t, <2>1, <2>2, <2>4, <2>7, <3>1, RepliesFirst
      <3>3. (Taken' \o cRecv') \o net' = later
        BY <1>t, <2>1, <2>3, <3>1, JoinNothing
      <3> QED BY <1>n, <2>3, <3>1, <3>2, <3>3 DEF WayBack
    <2> QED BY <2>5, <2>6, <2>7
  <1>9. ASSUME NEW n \in 1..Len(cSend), EvWrite(n) PROVE Goal
    <2>1. /\ ~torn /\ conn = "open" /\ cSend # <<>>
          /\ UNCHANGED <<req, base, conn, cRecv, net>>
      BY <1>9, EmptySeq, SMT DEF EvWrite
    <2>2. status # "RECEIVING" /\ status # "IDLE"
      BY <2>1 DEF WaysOut
    <2>3. \/ status' = status
          \/ status' = "ERROR"
          \/ status' = "RECEIVING" /\ recv' = <<>>
      BY <1>9 DEF EvWrite, SendRest
    <2>4. Taken = <<>> /\ Taken' = <<>> /\ status' # "IDLE"
      BY <2>2, <2>3 DEF Taken
    <2> QED BY <1>k, <2>1, <2>4
  <1>b. ASSUME NEW n \in 1..Len(cSend), EvWriteBeyond(n) PROVE Goal
    BY <1>b, WholeWritesStay
  <1>10. CASE PollEnd
    <2>1. UNCHANGED <<recv, req, base, conn, cRecv, net>> /\ ~torn
      BY <1>10, Zenon DEF PollEnd, queues
    <2>2. CASE status' = "TIMEOUT"
      <3>1. status = "RECEIVING" => recv = <<>> \/ status' = status
        BY <1>10, Zenon DEF PollEnd
      <3>2. Taken = <<>> /\ Taken' = <<>>
        BY <2>2, <3>1 DEF Taken
      <3> QED BY <1>k, <2>1, <2>2, <3>2
    <2>3. CASE status' = status
      BY <1>k, <2>1, <2>3 DEF Taken
    <2> QED BY <1>10, <2>2, <2>3, Zenon DEF PollEnd, Expired
  <1>11. CASE ServerReply
    <2>1. /\ ~torn /\ conn = "open" /\ UNCHANGED <<status, recv, req, base, conn, cRecv>>
          /\ net' = net \o Reply(wire[1]) /\ Len(wire) >= ReqLen
      BY <1>11 DEF ServerReply, Answered
    <2>2. wire[1] \in Names
      <3>1. wire \in Seq(Names) /\ Len(wire) \in Nat /\ 1 \in 1..Len(wire)
        BY <2>1, ReqLenAssumption, LenProperties DEF WaysOut
      <3> QED BY <3>1, ElementOfSeq
    <2>3. Replies(Names, (Taken \o cRecv) \o net)
      BY <2>1 DEF WayBack
    <2> DEFINE tc == Taken \o cRecv
               p  == Reply(wire[1])
    <2>4. tc \in Bytes /\ tc \o net \in Bytes /\ p \in Bytes
      BY <1>t, <2>2, JoinBytes, MessageBytes
    <2>5. Replies(Names, (tc \o net) \o p)
      BY <1>t, <2>2, <2>3, <2>4, RepliesMore
    <2>6. Taken' = Taken
      BY <2>1 DEF Taken
    <2> HIDE DEF tc, p
    <2>7. (tc \o net) \o p = tc \o (net \o p)
      BY ONLY <1>t, <2>4, JoinAssociates, SMTT(60)
    <2>8. (Taken' \o cRecv') \o net' = (tc \o net) \o p
      BY <2>1, <2>6, <2>7 DEF tc, p
    <2> QED BY <1>n, <2>1, <2>5, <2>8 DEF WayBack
  <1>12. CASE UNCHANGED vars
    <2>1. UNCHANGED <<status, recv, req, base, torn, conn, cRecv, net>>
      BY <1>12 DEF vars
    <2> QED BY <1>k, <2>1 DEF Taken
  <1>13. \A t \in Timeouts : SwcWaitConnect(t) \/ SwcSendRecv(t) => Goal
    BY <1>3, <1>4
  <1> HIDE DEF Goal
  <1> QED BY <1>1, <1>2, <1>13, <1>5, <1>6, <1>7, <1>8, <1>9, <1>b, <1>10, <1>11, <1>12 DEF Next

(* A caller that goes on after a timeout may be given an old reply, but a      *)
(* whole one, to a request of the same connection, unless a call was cut short *)
(* within a reply: for every way the network cuts and delays. (web.c 282-301)  *)
THEOREM LateRepliesWhole == Spec => []StaleButWhole
  <1>1. Init => WaysOut /\ WayBack
    <2> SUFFICES ASSUME Init PROVE WaysOut /\ WayBack
      OBVIOUS
    <2>1. <<>> \in Seq(Names)
      BY EmptySeq
    <2> QED BY <2>1 DEF Init, WaysOut, WayBack
  <1>2. TypeOK /\ TypeOK' /\ WaysOut /\ WayBack /\ [Next]_vars => WaysOut' /\ WayBack'
    BY WaysOutStep, WayBackStep
  <1>3. WayBack => StaleButWhole
    BY DEF WayBack, StaleButWhole, Names
  <1> QED BY <1>1, <1>2, <1>3, TypeCorrect, PTL DEF Spec
=============================================================================
