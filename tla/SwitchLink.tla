----------------------------- MODULE SwitchLink -----------------------------
(***************************************************************************)
(* The connection of a payment terminal to its switch (web.c): a blocking  *)
(* API, swc_init / swc_wait_connect / swc_send_recv / swc_destroy, over a   *)
(* non-blocking connection whose events reach iso_handler only while one   *)
(* of the two middle calls is inside mg_mgr_poll.                          *)
(*                                                                         *)
(* The event library (mongoose), the network and the switch are external:  *)
(* they are modelled by how web.c uses them.                               *)
(***************************************************************************)
EXTENDS Integers, Sequences

CONSTANTS
    ReqLen,         \* bytes in a packed request
    Base,           \* 256: what the first length byte of a reply counts for
    MaxRequests,    \* bound: how many requests the caller ever sends
    QueueMax,       \* bound: bytes a buffer or a direction of the network holds
    Timeouts,       \* the timeouts callers pass, in polls (0: wait for ever)
    Usages          \* the ways the link is used, see Usage

\* shared: swc->send and swc->recv are one buffer; partial: the socket may take
\* part of c->send; careful: the caller gives the link up after any failure.
Usage == [shared : BOOLEAN, partial : BOOLEAN, careful : BOOLEAN]

ASSUME ReqLenAssumption == ReqLen \in Nat \ {0}
ASSUME BaseAssumption == Base \in Nat
ASSUME MaxRequestsAssumption == MaxRequests \in Nat
ASSUME QueueMaxAssumption == QueueMax \in Nat
ASSUME TimeoutsAssumption == Timeouts \subseteq Nat
ASSUME UsagesAssumption == Usages \subseteq Usage

VARIABLES
    usage,      \* how the link is used; it never changes
    status,     \* swc->status, without its SWC_ prefix
    pc,         \* where the caller is: "connect" and "exchange" are inside
                \* mg_mgr_poll of the call of that name, "out" is between calls;
                \* "overrun" after a copy from beyond the request
    timeout,    \* the polls the call in progress has left (0 between calls)
    sendIndex,  \* swc->send_index
    recv,       \* swc->recv: its first swc->recv->index bytes
    req,        \* how many requests were sent; the last one's name
    base,       \* history: the value of req when this connection was opened
    torn,       \* history: a call on this connection timed out with a part of
                \* a reply in swc->recv, which the next call empties
    conn,       \* the connection in the event manager's list
    cSend,      \* c->send: queued, not yet written
    cRecv,      \* c->recv: read, not yet taken by the handler
    wire,       \* bytes the switch has not consumed yet
    net         \* bytes of replies not yet read

vars == <<usage, status, pc, timeout, sendIndex, recv, req, base, torn,
          conn, cSend, cRecv, wire, net>>

Failed  == {"DISCONNECT", "ERROR", "TIMEOUT"}   \* status >= SWC_DISCONNECT
Status  == {"INIT", "PRE_CONNECT", "CONNECTED", "SENDING", "RECEIVING", "IDLE"}
             \cup Failed
Polling == pc \in {"connect", "exchange"}
SharedBuffer  == usage.shared
PartialWrites == usage.partial
Careful       == usage.careful
queues  == <<cSend, cRecv, wire, net>>

-----------------------------------------------------------------------------
(* Messages: a request is ReqLen bytes that carry its name, a reply is the  *)
(* two length bytes and one byte of payload, the name it answers.           *)

Request(r) == [i \in 1..ReqLen |-> r]
Reply(r)   == <<0, 1, r>>

\* The switch answers ReqLen bytes by the reply to the first one's name.
Answered(w) == Reply(w[1])

\* The buffer swc->send points to.
SendBuf == IF SharedBuffer THEN recv ELSE Request(req)

\* Mutants of Complete: answers as soon as the length arrived, or when too
\* much came; takes the length bytes in the wrong order.
CompleteTooSoon(b) == Len(b) >= 2
CompleteAtLeast(b) == Len(b) >= 2 /\ Len(b) >= b[1] * Base + b[2] + 2
CompleteSwapped(b) == Len(b) >= 2 /\ Len(b) = b[2] * Base + b[1] + 2

\* The test at the end of a read: index = len[0] * 256 + len[1] + 2.
Complete(b) == /\ Len(b) >= 2
               /\ Len(b) = b[1] * Base + b[2] + 2

\* The test at the end of a write, with the index it compares to.
AllWritten(sent) == sent = Len(recv)

\* Mutant of Again: the exchange is over once the request is written.
AgainSending(where, s) == IF where = "connect"
                          THEN s # "CONNECTED" /\ s \notin Failed
                          ELSE s = "SENDING"

\* The loop conditions of swc_wait_connect and swc_send_recv.
Again(where, s) == IF where = "connect"
                   THEN s # "CONNECTED" /\ s \notin Failed
                   ELSE s \in {"SENDING", "RECEIVING"}

\* Mutant of Tick: misses zero.
TickPast(t) == IF t > 1 THEN t - 1 ELSE -1

\* --timeout: what starts at 0 counts down for ever, kept at -1.
Tick(t) == IF t > 0 THEN t - 1 ELSE -1

\* The status a countdown that reaches zero leaves, whatever the last poll did.
Expired(s) == "TIMEOUT"

\* Mutant of AfterClose: every close is a plain disconnection.
AfterCloseHides(s) == "DISCONNECT"

\* MG_EV_CLOSE does not hide an error.
AfterClose(s) == IF s # "ERROR" THEN "DISCONNECT" ELSE s

\* When the handler looks at what was read, and at what was written.
Listens(s) == s = "RECEIVING"
Writes(s)  == s \notin Failed

-----------------------------------------------------------------------------
Init ==
    /\ usage \in Usages
    /\ status = "INIT"
    /\ pc = "down"
    /\ timeout = 0
    /\ sendIndex = 0
    /\ recv = <<>>
    /\ req = 0
    /\ base = 0
    /\ torn = FALSE
    /\ conn = "none"
    /\ cSend = <<>> /\ cRecv = <<>> /\ wire = <<>> /\ net = <<>>

\* What was under way on a connection goes with it.
Flush == cSend' = <<>> /\ cRecv' = <<>> /\ wire' = <<>> /\ net' = <<>>

(* swc_init.  mg_connect may fail, and may deliver events before it          *)
(* returns: their effect on the status is lost.                              *)
SwcInit ==
    /\ pc = "down"
    /\ \E c \in {"none", "opening", "open", "closing"} :
          /\ conn' = c
          /\ status' = IF c # "none" THEN "PRE_CONNECT" ELSE "ERROR"
    /\ pc' = "out"
    /\ base' = req
    /\ torn' = FALSE
    /\ Flush
    /\ UNCHANGED <<usage, timeout, sendIndex, recv, req>>

(* swc_wait_connect, when it does not return at once. *)
SwcWaitConnect(t) ==
    /\ pc = "out"
    /\ Careful => status = "PRE_CONNECT"
    /\ Again("connect", status)
    /\ pc' = "connect"
    /\ timeout' = t
    /\ UNCHANGED <<usage, status, sendIndex, recv, req, base, torn, conn, queues>>

(* swc_send_recv, up to its first poll: the caller has packed the request    *)
(* and, if the reply has a buffer of its own, has emptied that one.          *)
SwcSendRecv(t) ==
    /\ pc = "out"
    /\ Careful => status \in {"CONNECTED", "IDLE"}
    /\ req < MaxRequests
    /\ req' = req + 1
    /\ recv' = IF SharedBuffer THEN Request(req + 1) ELSE <<>>
    /\ sendIndex' = 0
    /\ \/ /\ conn # "none"
          /\ Len(cSend) + ReqLen <= QueueMax
          /\ status' = "SENDING"
          /\ cSend' = cSend \o Request(req + 1)
          /\ pc' = "exchange"
          /\ timeout' = t
       \/ \* the connection left the list, or mg_send queued nothing
          /\ status' = "ERROR"
          /\ UNCHANGED <<pc, timeout, cSend>>
    /\ UNCHANGED <<usage, base, torn, conn, cRecv, wire, net>>

(* swc_destroy: mg_mgr_free closes what is still in the list. *)
SwcDestroy ==
    /\ pc = "out"
    /\ pc' = "down"
    /\ status' = IF conn = "none" THEN status ELSE AfterClose(status)
    /\ conn' = "none"
    /\ Flush
    /\ UNCHANGED <<usage, timeout, sendIndex, recv, req, base, torn>>

-----------------------------------------------------------------------------
(* iso_handler, one action per event. *)

EvConnect ==
    /\ Polling /\ conn = "opening"
    /\ conn' = "open"
    /\ status' = "CONNECTED"
    /\ UNCHANGED <<usage, pc, timeout, sendIndex, recv, req, base, torn, queues>>

EvError ==
    /\ Polling /\ conn \in {"opening", "open"}
    /\ conn' = "closing"
    /\ status' = "ERROR"
    /\ UNCHANGED <<usage, pc, timeout, sendIndex, recv, req, base, torn, queues>>

EvClose ==
    /\ Polling /\ conn \in {"open", "closing"}
    /\ conn' = "none"
    /\ status' = AfterClose(status)
    /\ Flush
    /\ UNCHANGED <<usage, pc, timeout, sendIndex, recv, req, base, torn>>

(* k bytes arrive.  A handler that is not listening leaves them in c->recv,  *)
(* where the next read it listens to finds them.                             *)
EvRead(k) ==
    /\ Polling /\ conn = "open"
    /\ k \in 1..Len(net)
    /\ Len(recv) + Len(cRecv) + k <= QueueMax
    /\ net' = SubSeq(net, k + 1, Len(net))
    /\ LET got == cRecv \o SubSeq(net, 1, k) IN
          IF Listens(status)
          THEN /\ recv' = recv \o got
               /\ cRecv' = <<>>
               /\ status' = IF Complete(recv \o got) THEN "IDLE" ELSE status
          ELSE cRecv' = got /\ UNCHANGED <<recv, status>>
    /\ UNCHANGED <<usage, pc, timeout, sendIndex, req, base, torn, conn, cSend, wire>>

(* A length below zero is one of almost all of memory to mg_send: no queue    *)
(* grows to that, unless the sum with what it holds wraps around to a size    *)
(* it has.                                                                    *)
WrapsAround(sent, queued) ==
    sent > Len(SendBuf) /\ Len(queued) >= sent - Len(SendBuf)

(* mg_send of what the handler thinks is left of the request.  It queues      *)
(* nothing if that is nothing, or if the queue cannot grow.                   *)
SendRest(sent, queued) ==
    /\ ~WrapsAround(sent, queued)
    /\ \/ /\ Len(SendBuf) > sent
          /\ Len(queued) + Len(SendBuf) - sent <= QueueMax
          /\ cSend' = queued \o SubSeq(SendBuf, sent + 1, Len(SendBuf))
          /\ UNCHANGED status
       \/ cSend' = queued /\ status' = "ERROR"

(* n bytes of c->send went out. *)
EvWrite(n) ==
    /\ Polling /\ conn = "open"
    /\ n \in 1..Len(cSend)
    /\ PartialWrites \/ n = Len(cSend)
    /\ Len(wire) + n <= QueueMax
    /\ wire' = wire \o SubSeq(cSend, 1, n)
    /\ LET queued == SubSeq(cSend, n + 1, Len(cSend))
           sent   == sendIndex + n
       IN  IF ~Writes(status)
           THEN cSend' = queued /\ UNCHANGED <<sendIndex, recv, status>>
           ELSE /\ sendIndex' = sent
                /\ IF AllWritten(sent)
                   THEN recv' = <<>> /\ status' = "RECEIVING" /\ cSend' = queued
                   ELSE SendRest(sent, queued) /\ UNCHANGED recv
    /\ UNCHANGED <<usage, pc, timeout, req, base, torn, conn, cRecv, net>>

(* More went out than the request has, and the queue holds more still: the    *)
(* rest that mg_send copies is of any memory, and nothing is said of what     *)
(* follows.                                                                   *)
EvWriteBeyond(n) ==
    /\ Polling /\ conn = "open"
    /\ n \in 1..Len(cSend)
    /\ PartialWrites \/ n = Len(cSend)
    /\ Writes(status) /\ ~AllWritten(sendIndex + n)
    /\ WrapsAround(sendIndex + n, SubSeq(cSend, n + 1, Len(cSend)))
    /\ pc' = "overrun"
    /\ UNCHANGED <<usage, status, timeout, sendIndex, recv, req, base, torn, conn, queues>>

(* mg_mgr_poll returns: the countdown, then the loop condition.  The last    *)
(* poll's outcome is overwritten if the countdown ends with it.              *)
PollEnd ==
    /\ Polling
    /\ LET t == Tick(timeout) IN
          IF t = 0
          THEN /\ status' = Expired(status) /\ pc' = "out" /\ timeout' = 0
               /\ torn' = (torn \/ (status = "RECEIVING" /\ recv # <<>>))
          ELSE /\ UNCHANGED <<status, torn>>
               /\ IF Again(pc, status)
                  THEN timeout' = t /\ UNCHANGED pc
                  ELSE timeout' = 0 /\ pc' = "out"
    /\ UNCHANGED <<usage, sendIndex, recv, req, base, conn, queues>>

(* The switch (external) answers a request it has read. *)
ServerReply ==
    /\ conn = "open"
    /\ Len(wire) >= ReqLen
    /\ Len(net) + 3 <= QueueMax
    /\ net' = net \o Answered(wire)
    /\ wire' = SubSeq(wire, ReqLen + 1, Len(wire))
    /\ UNCHANGED <<usage, status, pc, timeout, sendIndex, recv, req, base, torn, conn,
                   cSend, cRecv>>

-----------------------------------------------------------------------------
Next ==
    \/ SwcInit \/ SwcDestroy
    \/ \E t \in Timeouts : SwcWaitConnect(t) \/ SwcSendRecv(t)
    \/ EvConnect \/ EvError \/ EvClose
    \/ \E k \in 1..Len(net) : EvRead(k)
    \/ \E n \in 1..Len(cSend) : EvWrite(n) \/ EvWriteBeyond(n)
    \/ PollEnd
    \/ ServerReply

Spec == Init /\ [][Next]_vars

\* The loops of the two blocking calls keep polling.
PollingSpec == Spec /\ WF_vars(PollEnd)

\* The network and the switch do their part.
Answering ==
    /\ WF_vars(\E n \in 1..Len(cSend) : EvWrite(n))
    /\ WF_vars(\E k \in 1..Len(net) : EvRead(k))
    /\ WF_vars(ServerReply)
=============================================================================
