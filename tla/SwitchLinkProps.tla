--------------------------- MODULE SwitchLinkProps ---------------------------
(***************************************************************************)
(* What SwitchLink is checked for, and what SwitchLinkProofs proves of it.  *)
(***************************************************************************)
EXTENDS SwitchLink

Bytes == Seq(Nat)

(* Every variable has its type (torn, a history, aside). *)
TypeOK ==
    /\ usage \in Usages
    /\ status \in Status
    /\ pc \in {"down", "out", "connect", "exchange", "overrun"}
    /\ timeout \in Nat \cup {-1}
    /\ sendIndex \in Nat
    /\ req \in Nat /\ base \in Nat
    /\ conn \in {"none", "opening", "open", "closing"}
    /\ recv \in Bytes /\ cSend \in Bytes /\ cRecv \in Bytes
    /\ wire \in Bytes /\ net \in Bytes

-----------------------------------------------------------------------------
(* The protocol of one exchange, as an inductive invariant: what each status *)
(* says of the bytes on their way, for a caller that gives the link up after *)
(* a failure and a socket that takes a whole request.                        *)

Quiet == cSend = <<>> /\ cRecv = <<>> /\ wire = <<>> /\ net = <<>>

SendingInv ==
    status = "SENDING" =>
        /\ pc = "exchange"
        /\ sendIndex = 0
        /\ cSend = Request(req) /\ cRecv = <<>> /\ wire = <<>> /\ net = <<>>
        /\ recv = IF SharedBuffer THEN Request(req) ELSE <<>>

ReceivingInv ==
    status = "RECEIVING" =>
        /\ pc = "exchange"
        /\ cSend = <<>> /\ cRecv = <<>>
        /\ \/ wire = Request(req) /\ net = <<>> /\ recv = <<>>
           \/ wire = <<>> /\ recv \o net = Reply(req)

IdleInv == status = "IDLE" => recv = Reply(req) /\ Quiet

\* Which statuses a call, and a connection, can be seen with.
CallInv ==
    /\ status \in {"PRE_CONNECT", "CONNECTED"} => Quiet /\ pc \in {"out", "connect"}
    /\ status = "IDLE" => pc \in {"out", "exchange"}
    /\ Polling => status \notin {"INIT", "TIMEOUT"}
    /\ conn = "opening" => status \in {"PRE_CONNECT", "TIMEOUT"}
    /\ conn = "none" => status \in Failed \cup {"INIT"}
    /\ pc = "down" => conn = "none"

\* The usages for which more is promised than that calls return.
Promised == Careful /\ ~PartialWrites

LinkInv == Promised => SendingInv /\ ReceivingInv /\ IdleInv /\ CallInv

-----------------------------------------------------------------------------
(* An answer delivered to a caller that gives the link up after a failure,   *)
(* and whose socket takes whole requests, is the answer to the request it    *)
(* has just sent: no timeout, disconnection or late reply before it, on this *)
(* connection or an earlier one, leaves bytes that are taken for it.         *)
(* (web.c 282-301, 349-384)                                                  *)
ReplyMatches ==
    Promised =>
        (pc = "out" /\ status = "IDLE" => recv = Reply(req))

(* A caller that goes on with a link after a timeout may be given the reply  *)
(* to an earlier request, but only a whole reply, and only to a request of   *)
(* the same connection: bytes that come late wait in c->recv. That is so as  *)
(* long as no call timed out in the middle of a reply: the next call forgets *)
(* the part it had, and takes the rest for the length of a reply.            *)
(* (web.c 282-301)                                                           *)
StaleButWhole ==
    ~PartialWrites /\ ~torn =>
        (pc = "out" /\ status = "IDLE" =>
            \E r \in (base + 1)..req : recv = Reply(r))

(* What is left of a request is counted from swc->send (web.c 304): when a    *)
(* write leaves nothing of it, the handler goes on to the reply. With a       *)
(* buffer for each way it does not: it compares with what it has read.        *)
(* (web.c 297)                                                                *)
WrittenIsReceiving ==
    [][status = "SENDING" /\ sendIndex # ReqLen /\ sendIndex' = ReqLen
        => status' = "RECEIVING"]_vars

(* While a call polls, nothing but the countdown replaces an error it has    *)
(* recorded: a CLOSE that follows, a late CONNECT or WRITE do not.           *)
(* (web.c 265-307, 337-341)                                                  *)
ErrorKept ==
    [][Polling /\ status = "ERROR" => status' \in {"ERROR", "TIMEOUT"}]_vars

(* A blocking call given a positive timeout returns, whatever the network    *)
(* and the switch do, the link's usage, and what the call finds there, but    *)
(* for a copy from beyond the request.                                        *)
(* (web.c 332-342, 372-382)                                                  *)
CallReturns ==
    (Polling /\ timeout > 0) ~> (pc \in {"out", "overrun"})

(* An exchange without a timeout ends too, as long as the network and the    *)
(* switch do not stop: for a careful caller no state of the handler waits    *)
(* for bytes that are not on their way. (web.c 282-308)                      *)
ExchangeEnds ==
    Answering =>
        ((Promised /\ SharedBuffer /\ pc = "exchange") ~> (pc = "out"))

-----------------------------------------------------------------------------
(* The link seen by its caller, as an Exchange. *)

phase ==
    CASE pc = "down"                                -> "down"
      [] pc # "down" /\ status \in {"PRE_CONNECT", "CONNECTED"} -> "ready"
      [] pc # "down" /\ status \in {"SENDING", "RECEIVING"}     -> "asking"
      [] pc # "down" /\ status = "IDLE"             -> "answered"
      [] OTHER                                      -> "failed"

\* Of other usages Exchange sees nothing.
X == INSTANCE Exchange WITH
        phase  <- IF Promised THEN phase ELSE "down",
        asked  <- IF Promised THEN req ELSE 0,
        answer <- IF Promised /\ phase = "answered" THEN recv[3] ELSE 0

(* For a caller that gives the link up after a failure, over a socket that    *)
(* takes whole requests, the link implements Exchange. (web.c 255-390)        *)
ExchangeSpec == X!Spec
=============================================================================
