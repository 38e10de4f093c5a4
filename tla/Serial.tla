------------------------------- MODULE Serial -------------------------------
(***************************************************************************)
(* The serial port (serial.c, POSIX): serial_open sets the line up as its     *)
(* protocol text says, serial_send and serial_recv move bytes to and from the *)
(* queues of the driver, serial_flush empties these, serial_drain waits for    *)
(* the output and serial_close discards what is left. The driver, the line     *)
(* and the station at its other end are external. A call that is refused with  *)
(* -1 at once changes nothing and is no step.                                  *)
(***************************************************************************)
EXTENDS Integers, Sequences

CONSTANTS
    TopBit,      \* bytes are below 2 * TopBit
    Protocols,   \* what sscanf finds in a text: rate, bit, p, sbit
    Rates,       \* rate_define
    SendSizes,   \* bytes of a message
    RecvMax,     \* max_size of serial_recv
    OutQueue,    \* bytes the driver holds for output
    MaxSerial    \* bound: bytes each way while the port is open

ASSUME SerialAssumption ==
    /\ TopBit \in Nat \ {0} /\ OutQueue \in Nat \ {0} /\ RecvMax \in Nat \ {0}
    /\ SendSizes \subseteq Nat \ {0}

VARIABLES
    serAt,      \* "closed", "opened" by open(), "ready", or the call under way
    newtio,     \* how the line is set up
    outq, inq,  \* the queues
    todo,       \* serial_send: bytes the driver has not taken yet
    line,       \* history: bytes transmitted since the open
    accepted,   \* history: bytes the driver took since the open
    came,       \* history: bytes the station sent since the open
    taken,      \* history: bytes serial_recv returned since the open
    purged,     \* history: queues a flush was asked to empty since the open
    drained     \* history: nothing was sent since the last drain

serVars == <<serAt, newtio, outq, inq, todo, line, accepted, came, taken, purged, drained>>
output == <<outq, todo, line, accepted, drained>>
input == <<inq, came, taken>>

SerInit ==
    /\ serAt = "closed" /\ newtio = [parity |-> FALSE, vmin |-> 0]
    /\ outq = <<>> /\ inq = <<>> /\ todo = <<>>
    /\ line = <<>> /\ accepted = <<>> /\ came = <<>> /\ taken = <<>>
    /\ purged = {} /\ drained = TRUE

-----------------------------------------------------------------------------
\* bzero: c_cc[VMIN] = c_cc[VTIME] = 0, a read never waits.
Zeroed == 0

Known(p) ==
    /\ p.rate \in Rates /\ p.bit \in {"5", "6", "7", "8"}
    /\ p.p \in {"n", "o", "e"} /\ p.sbit \in {"1", "2"}

\* ISTRIP is set with the parity: the top bit of what comes is dropped.
Stripped(b) == IF newtio.parity THEN b % TopBit ELSE b

SerialOpen ==
    /\ serAt = "closed" /\ serAt' = "opened"
    /\ \E p \in Protocols :
          Known(p) /\ newtio' = [parity |-> p.p # "n", vmin |-> Zeroed]
    /\ outq' = <<>> /\ inq' = <<>> /\ todo' = <<>>
    /\ line' = <<>> /\ accepted' = <<>> /\ came' = <<>> /\ taken' = <<>>
    /\ purged' = {} /\ drained' = TRUE

\* tcsetattr; if it fails the descriptor is closed.
SetUp ==
    /\ serAt = "opened" /\ serAt' \in {"ready", "closed"}
    /\ UNCHANGED <<newtio, output, input, purged>>

\* A message of numbered bytes
SerialSend ==
    /\ serAt = "ready" /\ serAt' = "writing"
    /\ \E n \in SendSizes :
          /\ Len(accepted) + n <= MaxSerial
          /\ todo' = [k \in 1..n |-> Len(accepted) + k]
    /\ drained' = FALSE
    /\ UNCHANGED <<newtio, outq, line, accepted, input, purged>>

\* The driver takes what it has room for.
WriteByte ==
    /\ serAt = "writing" /\ todo # <<>> /\ Len(outq) < OutQueue
    /\ outq' = Append(outq, Head(todo)) /\ accepted' = Append(accepted, Head(todo))
    /\ todo' = Tail(todo)
    /\ UNCHANGED <<serAt, newtio, line, drained, input, purged>>

\* write returns: all is taken, or a signal came and the rest is the caller's.
WriteReturns ==
    /\ serAt = "writing" /\ serAt' = "ready" /\ todo' = <<>>
    /\ UNCHANGED <<newtio, outq, line, accepted, drained, input, purged>>

\* ms > 0: select first. ms * 1000 may overflow; select then fails or is too short.
SerialRecv ==
    /\ serAt = "ready" /\ serAt' \in {"selecting", "reading"}
    /\ UNCHANGED <<newtio, output, input, purged>>

\* There is a byte; or the time is over, or select fails.
SelectReturns ==
    /\ serAt = "selecting"
    /\ serAt' \in (IF inq # <<>> THEN {"reading", "ready"} ELSE {"ready"})
    /\ UNCHANGED <<newtio, output, input, purged>>

ReadReturns ==
    /\ serAt = "reading" /\ serAt' = "ready"
    /\ Len(inq) >= newtio.vmin
    /\ LET n == IF Len(inq) < RecvMax THEN Len(inq) ELSE RecvMax
       IN  taken' = taken \o SubSeq(inq, 1, n) /\ inq' = SubSeq(inq, n + 1, Len(inq))
    /\ UNCHANGED <<newtio, output, came, purged>>

\* Mutant of Queues: TCIOFLUSH whatever is asked for.
QueuesBoth(queues) == {"in", "out"}

\* TCIOFLUSH, TCIFLUSH or TCOFLUSH
Queues(queues) == queues

Empty(queues) ==
    /\ outq' = IF "out" \in Queues(queues) THEN <<>> ELSE outq
    /\ inq' = IF "in" \in Queues(queues) THEN <<>> ELSE inq

SerialFlush ==
    /\ serAt = "ready"
    /\ \E queues \in SUBSET {"in", "out"} \ {{}} :
          Empty(queues) /\ purged' = purged \cup queues
    /\ UNCHANGED <<serAt, newtio, todo, line, accepted, drained, came, taken>>

SerialDrain ==
    /\ serAt = "ready" /\ serAt' = "draining"
    /\ UNCHANGED <<newtio, output, input, purged>>

\* tcdrain returns: all is sent, or a signal came.
DrainReturns ==
    /\ serAt = "draining" /\ serAt' = "ready"
    /\ drained' \in {drained} \cup {outq = <<>>}
    /\ UNCHANGED <<newtio, outq, todo, line, accepted, input, purged>>

\* serial_flush(fd, 1, 1), close
SerialClose ==
    /\ serAt = "ready" /\ serAt' = "closed"
    /\ Empty({"in", "out"})
    /\ UNCHANGED <<newtio, todo, line, accepted, drained, came, taken, purged>>

\* serial_has_buffer, while nothing is under way
HasBuffer(io) == Len(IF io = "in" THEN inq ELSE outq)

-----------------------------------------------------------------------------
(* The line and the station, external. There is no flow control. *)

Transmit ==
    /\ outq # <<>>
    /\ line' = Append(line, Head(outq)) /\ outq' = Tail(outq)
    /\ UNCHANGED <<serAt, newtio, todo, accepted, drained, input, purged>>

StationSends ==
    /\ serAt \notin {"closed", "opened"} /\ Len(came) < MaxSerial
    /\ \E b \in 0..(2 * TopBit - 1) :
          came' = Append(came, b) /\ inq' = Append(inq, Stripped(b))
    /\ UNCHANGED <<serAt, newtio, output, taken, purged>>

SerNext ==
    \/ SerialOpen \/ SetUp \/ SerialSend \/ WriteByte \/ WriteReturns
    \/ SerialRecv \/ SelectReturns \/ ReadReturns \/ SerialFlush
    \/ SerialDrain \/ DrainReturns \/ SerialClose \/ Transmit \/ StationSends

SerSpec == SerInit /\ [][SerNext]_serVars

\* A call returns when it can, and the line transmits, for the code turns CRTSCTS
\* and IXON off.
SerProceeds ==
    \/ SelectReturns \/ ReadReturns \/ Transmit \/ WriteByte
    \/ todo = <<>> /\ WriteReturns
    \/ outq = <<>> /\ DrainReturns

-----------------------------------------------------------------------------
(* Bytes are neither lost nor doubled nor put out of order on either way,     *)
(* unless a flush was asked to empty that queue; serial_has_buffer and         *)
(* serial_drain tell when the output is on the line, so that closing the port, *)
(* which discards, is safe after a drain. With a parity the top bit of what    *)
(* comes is lost even if there are eight data bits. (serial.c 72-164, 195-215) *)
DrainedSent ==
    /\ "out" \notin purged =>
          /\ serAt # "closed" => line \o outq = accepted
          /\ drained \/ (serAt = "ready" /\ HasBuffer("out") = 0) => line = accepted
    /\ "in" \notin purged /\ serAt # "closed" =>
          taken \o inq = [k \in DOMAIN came |-> Stripped(came[k])]
=============================================================================
