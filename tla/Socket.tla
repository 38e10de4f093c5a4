------------------------------- MODULE Socket -------------------------------
(***************************************************************************)
(* A client of the socket helpers (socket.c): socket_init opens and connects  *)
(* a descriptor under a time limit, socket_send writes a request in as many   *)
(* pieces as the kernel takes, socket_recv collects one frame whose first two *)
(* bytes are its length. The client (external) makes one exchange after the   *)
(* other and closes the descriptor after any error. socket_recv is not told    *)
(* how long the client's buffer is: once it writes behind it the client is     *)
(* "overrun", and nothing is said of what follows.                             *)
(***************************************************************************)
EXTENDS Integers, Sequences

CONSTANTS
    Base,         \* 256: the weight of the first length byte
    Chunk,        \* sizeof(temp): bytes a recv takes at most
    Payloads,     \* what the frames of the peer may carry
    OutSize,      \* bytes the client's buffer has for socket_recv
    SocketTimeouts, \* the argument of socket_init; 0: no limit
    ReqLen,       \* bytes of a request
    PerRequest,   \* frames the peer sends for a request, at most
    MaxSockets,   \* bound: sockets created
    MaxRequests   \* bound: requests on a socket

ASSUME SizesAssumption ==
    /\ Base \in Nat \ {0} /\ Chunk \in Nat \ {0} /\ ReqLen \in Nat \ {0}
    /\ OutSize \in Nat /\ SocketTimeouts \subseteq Nat
ASSUME PayloadsAssumption ==
    /\ Payloads \subseteq Seq(0..Base-1)
    /\ \A p \in Payloads : Len(p) < Base * Base

VARIABLES
    pc,        \* where the client is
    sock,      \* its descriptor: open, blocking, the time limit that is
               \* asked for and the one that is set, the connection
    sockets,   \* sockets created so far
    requests,  \* requests begun on this socket
    sent,      \* bytes of the request the kernel has taken
    out,       \* socket_recv: out[0 .. i_out - 1]
    ret,       \* what the last call returned; a descriptor is 1
    said,      \* history: the bytes the peer sent on this socket
    ends,      \* history: where in them its frames end
    got,       \* history: how many calls of socket_recv returned one
    flight,    \* bytes of the peer that have not arrived
    wire,      \* bytes that have, not received yet
    left       \* the peer has closed its end

vars == <<pc, sock, sockets, requests, sent, out, ret, said, ends, got,
          flight, wire, left>>
local == <<requests, sent, out, said, ends, got>>
stream == <<flight, wire, left>>

NoSocket ==
    [open |-> FALSE, blocking |-> TRUE, timeout |-> 0, limit |-> 0, link |-> "none"]

Frame(p) == <<Len(p) \div Base, Len(p) % Base>> \o p

Init ==
    /\ pc = "closed" /\ sock = NoSocket /\ sockets = 0
    /\ requests = 0 /\ sent = 0 /\ out = <<>> /\ ret = 0
    /\ said = <<>> /\ ends = <<>> /\ got = 0
    /\ flight = <<>> /\ wire = <<>> /\ left = FALSE

-----------------------------------------------------------------------------
(* socket_init *)

Create ==
    /\ pc = "closed" /\ sockets < MaxSockets
    /\ sockets' = sockets + 1
    /\ \/ /\ pc' = "created" /\ ret' = 0
          /\ \E timeout \in SocketTimeouts :
                sock' = [NoSocket EXCEPT !.open = TRUE, !.timeout = timeout]
       \/ ret' = -1 /\ UNCHANGED <<pc, sock>>
    /\ requests' = 0 /\ sent' = 0 /\ out' = <<>>
    /\ said' = <<>> /\ ends' = <<>> /\ got' = 0
    /\ flight' = <<>> /\ wire' = <<>> /\ left' = FALSE

\* fcntl(F_GETFL), fcntl(F_SETFL)
SetNonBlocking ==
    /\ pc = "created"
    /\ pc' = "nonblocking" /\ sock' = [sock EXCEPT !.blocking = FALSE]
    /\ UNCHANGED <<sockets, ret, local, stream>>

\* connect: at once, or EINPROGRESS
Connect ==
    /\ pc = "nonblocking"
    /\ \/ pc' = "connected" /\ sock' = [sock EXCEPT !.link = "up"]
       \/ pc' = "selecting" /\ sock' = [sock EXCEPT !.link = "pending"]
    /\ UNCHANGED <<sockets, ret, local, stream>>

\* Mutant of SelectWritable: SO_ERROR is not looked at.
SelectWritableAny ==
    /\ pc = "selecting" /\ sock.link # "pending"
    /\ pc' = "connected"
    /\ UNCHANGED <<sock, sockets, ret, local, stream>>

\* select returns, and SO_ERROR says the connection is up.
SelectWritable ==
    /\ pc = "selecting" /\ sock.link = "up"
    /\ pc' = "connected"
    /\ UNCHANGED <<sock, sockets, ret, local, stream>>

SetBlocking ==
    /\ pc = "connected"
    /\ pc' = "blocking" /\ sock' = [sock EXCEPT !.blocking = TRUE]
    /\ UNCHANGED <<sockets, ret, local, stream>>

\* SO_RCVTIMEO and SO_SNDTIMEO, 0 for none; socket_init returns the descriptor.
SetTimeouts ==
    /\ pc = "blocking"
    /\ pc' = "ready" /\ sock' = [sock EXCEPT !.limit = sock.timeout] /\ ret' = 1
    /\ UNCHANGED <<sockets, local, stream>>

\* CLOSE_SOCKET(fd)
GivenUp == NoSocket

\* The exits of socket_init: a call that fails, 15 seconds without an answer,
\* a signal during select, a connection that is refused.
InitFails ==
    /\ pc \in {"created", "nonblocking", "selecting", "connected", "blocking"}
    /\ pc' = "closed" /\ sock' = GivenUp /\ ret' = -1
    /\ UNCHANGED <<sockets, local, stream>>

\* The connection is made or refused (the network, external).
Establish ==
    /\ sock.link = "pending"
    /\ sock' = [sock EXCEPT !.link = "up"]
    /\ UNCHANGED <<pc, sockets, ret, local, stream>>

Refuse ==
    /\ sock.link = "pending"
    /\ sock' = [sock EXCEPT !.link = "refused"]
    /\ UNCHANGED <<pc, sockets, ret, local, stream>>

-----------------------------------------------------------------------------
(* socket_send *)

Request ==
    /\ pc = "ready" /\ requests < MaxRequests
    /\ pc' = "sending" /\ requests' = requests + 1 /\ sent' = 0
    /\ UNCHANGED <<sock, sockets, out, ret, said, ends, got, stream>>

\* A send takes a piece; the last one ends the call, and the client receives.
SendPiece ==
    /\ pc = "sending"
    /\ \E res \in 1..(ReqLen - sent) :
          /\ sent' = sent + res
          /\ IF sent + res = ReqLen
             THEN pc' = "receiving" /\ ret' = sent + res /\ out' = <<>>
             ELSE UNCHANGED <<pc, ret, out>>
    /\ UNCHANGED <<sock, sockets, requests, said, ends, got, stream>>

SendFails ==
    /\ pc = "sending"
    /\ pc' = "failed" /\ ret' = -1
    /\ UNCHANGED <<sock, sockets, local, stream>>

-----------------------------------------------------------------------------
(* socket_recv *)

\* Mutant of Announced: the second byte only.
AnnouncedLow(bytes) == bytes[2]

\* out[0] * 256 + out[1]
Announced(bytes) == bytes[1] * Base + bytes[2]

Complete(bytes) == Len(bytes) > 2 /\ Announced(bytes) = Len(bytes) - 2

RecvBytes ==
    /\ pc = "receiving" /\ wire # <<>>
    /\ LET res == IF Len(wire) < Chunk THEN Len(wire) ELSE Chunk
           all == out \o SubSeq(wire, 1, res)
       IN  /\ wire' = SubSeq(wire, res + 1, Len(wire))
           /\ out' = all
           /\ IF Len(all) > OutSize
              THEN pc' = "overrun" /\ UNCHANGED <<ret, got>>
              ELSE IF Complete(all)
              THEN pc' = "ready" /\ ret' = Len(all) /\ got' = got + 1
              ELSE UNCHANGED <<pc, ret, got>>
    /\ UNCHANGED <<sock, sockets, requests, sent, said, ends, flight, left>>

\* recv returns 0; what is in out is no frame, or it had been returned.
RecvClosed ==
    /\ pc = "receiving" /\ wire = <<>> /\ left /\ flight = <<>>
    /\ pc' = "failed" /\ ret' = -1
    /\ UNCHANGED <<sock, sockets, local, stream>>

\* A recv fails, and what was collected is dropped.
RecvFails ==
    /\ pc = "receiving" /\ wire = <<>> /\ ~(left /\ flight = <<>>)
    /\ pc' = "failed" /\ ret' = -1
    /\ UNCHANGED <<sock, sockets, local, stream>>

\* SO_RCVTIMEO passes: it is the limit of one recv, not of the call.
RecvTimeout == sock.limit # 0 /\ RecvFails

\* The connection breaks.
RecvBreaks == RecvFails

-----------------------------------------------------------------------------
(* socket_close *)

Close ==
    /\ pc \in {"ready", "failed"}
    /\ pc' = "closed" /\ sock' = NoSocket /\ ret' = 0
    /\ UNCHANGED <<sockets, local, stream>>

-----------------------------------------------------------------------------
(* The peer and the network, external. *)

\* A frame in answer to the request the peer has whole.
Answer ==
    /\ pc \in {"receiving", "ready"} /\ ~left
    /\ Len(ends) < requests * PerRequest
    /\ \E p \in Payloads :
          /\ said' = said \o Frame(p)
          /\ ends' = Append(ends, Len(said'))
          /\ flight' = flight \o Frame(p)
    /\ UNCHANGED <<pc, sock, sockets, requests, sent, out, ret, got, wire, left>>

Arrive ==
    /\ flight # <<>>
    /\ \E n \in 1..Len(flight) :
          /\ wire' = wire \o SubSeq(flight, 1, n)
          /\ flight' = SubSeq(flight, n + 1, Len(flight))
    /\ UNCHANGED <<pc, sock, sockets, ret, local, left>>

Leave ==
    /\ pc \in {"sending", "receiving", "ready"} /\ ~left
    /\ left' = TRUE
    /\ UNCHANGED <<pc, sock, sockets, ret, local, flight, wire>>

Next ==
    \/ Create \/ SetNonBlocking \/ Connect \/ SelectWritable
    \/ SetBlocking \/ SetTimeouts \/ InitFails \/ Establish \/ Refuse
    \/ Request \/ SendPiece \/ SendFails
    \/ RecvBytes \/ RecvClosed \/ RecvTimeout \/ RecvBreaks \/ Close
    \/ Answer \/ Arrive \/ Leave

Spec == Init /\ [][Next]_vars

\* socket_recv goes on while it can, and each recv has the limit that was set.
Proceed == RecvBytes \/ RecvClosed \/ RecvTimeout

-----------------------------------------------------------------------------
\* Where the k-th frame of the peer ends
End(k) == IF k = 0 THEN 0 ELSE ends[k]

\* What the call under way has collected
Collected == IF pc = "receiving" THEN out ELSE <<>>

(* A descriptor socket_init returns is connected, blocking and has the time   *)
(* limit that was asked for, however the connection came about; once the      *)
(* client has none, all that were opened are closed again. (socket.c 98-223)  *)
DescriptorsKept ==
    /\ pc \in {"ready", "sending", "receiving", "failed"} =>
          sock.open /\ sock.blocking /\ sock.limit = sock.timeout /\ sock.link = "up"
    /\ pc = "closed" => ~sock.open

(* socket_recv returns bytes only if they are one whole frame of the peer, and *)
(* the next one: never a part, never two. (socket.c 282-326)                   *)
FrameWhole ==
    pc = "ready" /\ got > 0 =>
        out = SubSeq(said, End(got - 1) + 1, End(got)) /\ ret = Len(out)

(* No byte of the peer is dropped or doubled between two frames: what is      *)
(* still to be returned is collected, arrived or under way. (socket.c 289-315) *)
NoByteLost ==
    pc \in {"ready", "sending", "receiving"} =>
        SubSeq(said, End(got) + 1, Len(said)) = Collected \o (wire \o flight)

(* The last frame the peer sent is taken as soon as its last byte is received, *)
(* however the network cuts it and whatever it was glued to: the call only     *)
(* waits on when more than one frame is still to be returned, or one without   *)
(* a payload, which is never taken. (socket.c 289-315)                         *)
TakenWhenWhole ==
    pc = "receiving" /\ wire \o flight = <<>> /\ Len(ends) = got + 1 =>
        End(got + 1) = End(got) + 2

(* What socket_recv returns are the frames of the peer, whole, one by one and  *)
(* in their order, however the network cuts and glues them, and the last one   *)
(* without waiting for another byte. (socket.c 282-326)                        *)
FramesInOrder == FrameWhole /\ NoByteLost /\ TakenWhenWhole
=============================================================================
