-------------------------------- MODULE Ntp --------------------------------
(***************************************************************************)
(* The time client (ntp.c): ntp() resolves the host, opens a UDP socket with  *)
(* a time limit, sends one packet, receives into the same packet and turns    *)
(* the transmit timestamp it then holds into a time. Its length, its origin   *)
(* time and its mode are not looked at. The network (external) delays, loses  *)
(* and doubles datagrams, and the system gives a port to more than one call.  *)
(***************************************************************************)
EXTENDS Integers, Sequences, FiniteSets

CONSTANTS
    Digit,          \* the timestamp is two digits of this base (four bytes)
    NTP_TIMESTAMP_DELTA,
    Timezone,
    NtpTimeouts,    \* arguments, 0: no limit
    Ports,
    MaxAnswers,     \* bound: answers under way
    MaxNtpCalls,    \* bound: calls of ntp
    MaxClock        \* bound: seconds since 1900

ASSUME NtpAssumption ==
    /\ Digit \in Nat \ {0, 1} /\ NTP_TIMESTAMP_DELTA \in Nat /\ Timezone \in Int
    /\ NtpTimeouts \subseteq Nat /\ Ports \subseteq Nat \ {0}

VARIABLES
    ntpAt,      \* the step of ntp() that is next, "idle" outside it
    ntpLimit,   \* timeout
    ntpPort,    \* the port of sockfd, 0: none is open
    ntpRet, ntpOut,
    ntpCalls,
    clock,      \* seconds since 1900, the true time
    asked,      \* ports the server has or will have a request from
    answers,    \* datagrams under way to the client
    begun,      \* history: the clock when the call began
    usedPorts   \* history: ports of the earlier calls

ntpVars == <<ntpAt, ntpLimit, ntpPort, ntpRet, ntpOut, ntpCalls, clock,
             asked, answers, begun, usedPorts>>
network == <<clock, asked, answers>>
call == <<ntpLimit, ntpCalls, begun>>

Era == Digit * Digit
Stamp(t) == <<(t % Era) \div Digit, t % Digit>>

NtpInit ==
    /\ ntpAt = "idle" /\ ntpLimit = 0 /\ ntpPort = 0
    /\ ntpRet = -1 /\ ntpOut = 0 /\ ntpCalls = 0
    /\ clock = NTP_TIMESTAMP_DELTA /\ asked = {} /\ answers = {}
    /\ begun = 0 /\ usedPorts = {}

-----------------------------------------------------------------------------
NtpCall ==
    /\ ntpAt = "idle" /\ ntpCalls < MaxNtpCalls
    /\ ntpAt' = "resolve" /\ ntpCalls' = ntpCalls + 1
    /\ ntpLimit' \in NtpTimeouts
    /\ begun' = clock /\ ntpRet' = -1 /\ ntpOut' = 0
    /\ UNCHANGED <<ntpPort, usedPorts, network>>

\* resolve_ip, socket and setsockopt succeed.
Step(from, to) ==
    /\ ntpAt = from /\ ntpAt' = to
    /\ UNCHANGED <<ntpPort, ntpRet, ntpOut, usedPorts, call, network>>

Resolve == Step("resolve", "socket")
OpenUdp == Step("socket", "limit")
SetLimit == Step("limit", "connect")

\* The socket gets a port.
ConnectUdp ==
    /\ ntpAt = "connect"
    /\ ntpAt' = "send" /\ ntpPort' \in Ports
    /\ UNCHANGED <<ntpRet, ntpOut, usedPorts, call, network>>

SendPacket ==
    /\ ntpAt = "send"
    /\ ntpAt' = "recv" /\ asked' = asked \cup {ntpPort}
    /\ UNCHANGED <<ntpPort, ntpRet, ntpOut, usedPorts, call, clock, answers>>

\* Mutant of NtpTime: without ntohl.
NtpTimeSwapped(p) == p[2] * Digit + p[1] - NTP_TIMESTAMP_DELTA + Timezone

\* (time_t) (ntohl(packet.txTm_s) - NTP_TIMESTAMP_DELTA + timezone), in 64 bits
NtpTime(p) == p[1] * Digit + p[2] - NTP_TIMESTAMP_DELTA + Timezone

\* CLOSE_SOCKET, and the port may be given again.
Closed ==
    /\ ntpAt' = "idle" /\ ntpPort' = 0
    /\ usedPorts' = usedPorts \cup ({ntpPort} \ {0})

\* What came over the zeroes the packet had, cut to its two digits
Packet(bytes) == bytes \o SubSeq(<<0, 0>>, Len(bytes) + 1, 2)

\* A datagram for the port, of any call and any length
RecvPacket(a) ==
    /\ ntpAt = "recv" /\ a.port = ntpPort
    /\ answers' \in {answers, answers \ {a}}
    /\ ntpRet' = 0 /\ ntpOut' = NtpTime(Packet(a.bytes))
    /\ Closed
    /\ UNCHANGED <<call, clock, asked>>

\* A system call fails, or there is no such host.
NtpFails ==
    /\ ntpAt \notin {"idle", "recv"}
    /\ ntpRet' = -1 /\ Closed
    /\ UNCHANGED <<ntpOut, call, network>>

\* Mutant of RecvExpires: the answer is asked for again.
RecvExpiresAgain ==
    /\ ntpAt = "recv" /\ ntpLimit # 0
    /\ ntpAt' = "send"
    /\ UNCHANGED <<ntpPort, ntpRet, ntpOut, usedPorts, call, network>>

\* SO_RCVTIMEO passes.
RecvExpires ==
    /\ ntpAt = "recv" /\ ntpLimit # 0
    /\ ntpRet' = -1 /\ Closed
    /\ UNCHANGED <<ntpOut, call, network>>

-----------------------------------------------------------------------------
(* The server, the clock and the network, external. *)

\* The server answers a request, once more if it was doubled; the answer may be cut.
Serve ==
    /\ Cardinality(answers) < MaxAnswers
    /\ \E p \in asked, n \in 0..2 :
          /\ asked' \in {asked, asked \ {p}}
          /\ answers' = answers \cup {[port |-> p, bytes |-> SubSeq(Stamp(clock), 1, n)]}
    /\ UNCHANGED <<ntpAt, ntpPort, ntpRet, ntpOut, usedPorts, call, clock>>

ClockTick ==
    /\ clock < MaxClock
    /\ clock' = clock + 1
    /\ UNCHANGED <<ntpAt, ntpPort, ntpRet, ntpOut, usedPorts, call,
                   asked, answers>>

NtpNext ==
    \/ NtpCall \/ Resolve \/ OpenUdp \/ SetLimit \/ ConnectUdp \/ SendPacket
    \/ (\E a \in answers : RecvPacket(a))
    \/ NtpFails \/ RecvExpires \/ Serve \/ ClockTick

NtpSpec == NtpInit /\ [][NtpNext]_ntpVars

\* ntp() goes on while it can.
NtpProceeds ==
    \/ Resolve \/ OpenUdp \/ SetLimit \/ ConnectUdp \/ SendPacket
    \/ (\E a \in answers : RecvPacket(a)) \/ NtpFails \/ RecvExpires

-----------------------------------------------------------------------------
(* A time that ntp() returns is never ahead of the true one, even from a cut  *)
(* or a late answer; and it is no older than the call if the answer is whole  *)
(* and the port was new, for only an earlier call's answer can be mistaken    *)
(* for its own. Both hold until the 32 bits of the timestamp start again.     *)
(* (ntp.c 94-176)                                                             *)
TimeFresh ==
    [][\A a \in answers : RecvPacket(a) /\ clock < Era =>
          LET told == ntpOut' - Timezone + NTP_TIMESTAMP_DELTA
          IN  /\ told <= clock
              /\ Len(a.bytes) = 2 /\ ntpPort \notin usedPorts => told >= begun]_ntpVars
=============================================================================
