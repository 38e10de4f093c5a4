----------------------------- MODULE MCDevices -----------------------------
(***************************************************************************)
(* The three clients of a device or a network that share no state: Socket     *)
(* with length bytes of one bit, so that both of them count (frames of two,    *)
(* four and five bytes, received three at a time into a buffer of six), Ntp     *)
(* with a timestamp of two bits that starts again within a call, and Serial     *)
(* with bytes of two bits. A behaviour uses one of them.                        *)
(***************************************************************************)
EXTENDS Socket, Ntp, Serial

VARIABLE subject

MCPayloads == {<<>>, <<0, 1>>, <<1, 0, 1>>}

MCProtocols ==
    [rate : {9600, 7}, bit : {"8", "9"}, p : {"n", "e"}, sbit : {"1"}]

devices == <<subject, vars, ntpVars, serVars>>

DevicesInit ==
    /\ subject \in {"socket", "ntp", "serial"}
    /\ Init /\ NtpInit /\ SerInit

DevicesNext ==
    \/ subject = "socket" /\ Next /\ UNCHANGED <<subject, ntpVars, serVars>>
    \/ subject = "ntp" /\ NtpNext /\ UNCHANGED <<subject, vars, serVars>>
    \/ subject = "serial" /\ SerNext /\ UNCHANGED <<subject, vars, ntpVars>>

\* The call under way goes on.
DevicesSpec ==
    /\ DevicesInit /\ [][DevicesNext]_devices
    /\ WF_devices(DevicesNext /\ CASE subject = "socket" -> Proceed
                                   [] subject = "ntp" -> NtpProceeds
                                   [] OTHER -> SerProceeds)

InCall ==
    \/ pc = "receiving" /\ sock.limit # 0
    \/ ntpAt # "idle" /\ ntpLimit # 0
    \/ serAt \in {"selecting", "reading", "writing", "draining"}

(* Calls end, and what a call of ntp opened is closed again: a call of         *)
(* socket_recv whose socket has a time limit, which is one of each recv: it     *)
(* returns, or what it collects is more than the client's buffer takes          *)
(* (socket.c 204-208, 289-315); a call of ntp with a time limit (ntp.c          *)
(* 120-164); a call of serial_recv, whatever its ms, because no read waits, and  *)
(* of serial_send and serial_drain, because nothing stops the line (serial.c    *)
(* 100-164, 178-186).                                                           *)
CallsEnd == InCall ~> (~InCall /\ (ntpAt = "idle" => ntpPort = 0))
=============================================================================
