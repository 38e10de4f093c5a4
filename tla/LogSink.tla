------------------------------ MODULE LogSink ------------------------------
(***************************************************************************)
(* The log (log.c): one file, one UDP socket to a syslog server and one       *)
(* callback of the application, opened together by log_open, and log_, which   *)
(* hands a message to those the caller names. The callback runs inside log_     *)
(* and may log, open, close or readdress the log itself.                        *)
(***************************************************************************)
EXTENDS Integers, Sequences

CONSTANTS
    Addresses,   \* servers log_set_syslog is given
    Levels,      \* levels of messages; log_config.level starts as the least
    MaxOpens,    \* bound: files and sockets ever opened
    MaxCalls,    \* bound: calls of log_ that print something
    MaxDepth     \* bound: calls of log_ inside each other's callbacks

ASSUME LevelsAssumption == Levels \subseteq Nat /\ Levels # {}
ASSUME AddressesAssumption == "broadcast" \notin Addresses /\ "none" \notin Addresses

VARIABLES
    level,      \* log_config.level
    file_fd,    \* the handle in log_config.file_fd, 0 for NULL
    socket_fd,  \* the one in log_config.socket_fd, 0 for -1
    serv_addr,  \* where sendto sends to
    callback,   \* log_config.callback is set
    res,        \* what the last log_open or log_set_syslog returned
    stack,      \* calls of log_ under way, the innermost last
    live,       \* the handles the system holds open for the program
    opens,      \* handles opened so far
    calls,      \* history: calls of log_ so far that passed the level
    chosen,     \* history: the server the application chose last
    written,    \* history: the calls whose message is in a file, in its order
    sent        \* history: what the last sendto sent, and where to

destinations == <<file_fd, socket_fd, serv_addr, callback>>
sinkVars == <<level, destinations, res, stack, live, opens, calls, chosen, written, sent>>
trace == <<stack, calls, written, sent>>

Modes == SUBSET {"SYSLOG", "FILE", "FUNC"}
Frame == [call : Nat, mode : Modes, at : {"SYSLOG", "FILE", "FUNC", "callback"}]

SinkInit ==
    /\ level = CHOOSE l \in Levels : \A k \in Levels : l <= k
    /\ file_fd = 0 /\ socket_fd = 0 /\ serv_addr = "none" /\ callback = FALSE
    /\ res = 0 /\ stack = <<>>
    /\ live = {} /\ opens = 0 /\ calls = 0
    /\ chosen = "none" /\ written = <<>>
    /\ sent = [call |-> 0, to |-> "none", wanted |-> "none"]

\* The call of log_ under way
Innermost == stack[Len(stack)]

\* The application runs: it is in no call of log_, or in a callback.
InControl == stack # <<>> => Innermost.at = "callback"

-----------------------------------------------------------------------------
(* Opening and closing. A configuration is a record of the four fields and    *)
(* the handles that are open and were opened.                                  *)

State == [file |-> file_fd, sock |-> socket_fd, addr |-> serv_addr,
          func |-> callback, live |-> live, opens |-> opens]

Become(s) ==
    /\ file_fd' = s.file /\ socket_fd' = s.sock /\ serv_addr' = s.addr
    /\ callback' = s.func /\ live' = s.live /\ opens' = s.opens

log_close_file(s)   == [s EXCEPT !.live = @ \ {s.file}, !.file = 0]
log_close_syslog(s) == [s EXCEPT !.live = @ \ {s.sock}, !.sock = 0]
log_close(s) == [log_close_syslog(log_close_file(s)) EXCEPT !.func = FALSE]

Opened(s, field) ==
    [s EXCEPT !.opens = @ + 1, !.live = @ \cup {s.opens + 1}, ![field] = s.opens + 1]

\* Mutant of log_open_syslog: a failing connect leaves the socket open.
OpenSyslogLeaving(s) ==
    IF s.sock # 0 THEN {<<s, 0>>}
    ELSE {<<s, -1>>,
          <<[Opened(s, "sock") EXCEPT !.addr = "broadcast", !.sock = 0], -1>>,
          <<[Opened(s, "sock") EXCEPT !.addr = "broadcast"], 0>>}

\* The outcomes: the socket is there; socket() fails, setsockopt fails, connect
\* fails; it is opened. The address becomes the broadcast address with it.
log_open_syslog(s) ==
    IF s.sock # 0 THEN {<<s, 0>>}
    ELSE {<<s, -1>>,
          <<log_close_syslog(Opened(s, "sock")), -1>>,
          <<log_close_syslog([Opened(s, "sock") EXCEPT !.addr = "broadcast"]), -1>>,
          <<[Opened(s, "sock") EXCEPT !.addr = "broadcast"], 0>>}

Failed(s) == <<log_close(s), -1>>

\* log_open's outcomes with this path (or none), syslog flag and callback
OpenResults(path, syslog, func) ==
    LET closed == [log_close(State) EXCEPT !.func = func]
        filed  == IF path THEN {<<Opened(closed, "file"), 0>>, <<closed, -1>>}
                  ELSE {<<closed, 0>>}
    IN  UNION {IF f[2] = -1 THEN {Failed(f[1])}
               ELSE IF ~syslog THEN {f}
               ELSE {IF o[2] = -1 THEN Failed(o[1]) ELSE o : o \in log_open_syslog(f[1])}
               : f \in filed}

LogOpen(path, syslog, func) ==
    /\ InControl /\ opens + 2 <= MaxOpens
    /\ \E o \in OpenResults(path, syslog, func) : Become(o[1]) /\ res' = o[2]
    /\ chosen' = IF syslog /\ res' = 0 THEN "broadcast" ELSE chosen
    /\ UNCHANGED <<level, trace>>

\* Mutant of LogSetSyslog: the address is set before the socket is opened.
LogSetSyslogFirst(ip) ==
    /\ InControl /\ opens + 1 <= MaxOpens
    /\ \E o \in log_open_syslog([State EXCEPT !.addr = ip]) : Become(o[1])
    /\ res' = 0 /\ chosen' = ip
    /\ UNCHANGED <<level, trace>>

\* log_set_syslog: whatever log_open_syslog returned.
LogSetSyslog(ip) ==
    /\ InControl /\ opens + 1 <= MaxOpens
    /\ \E o \in log_open_syslog(State) : Become([o[1] EXCEPT !.addr = ip])
    /\ res' = 0 /\ chosen' = ip
    /\ UNCHANGED <<level, trace>>

LogClose ==
    /\ InControl
    /\ Become(log_close(State)) /\ res' = 0
    /\ UNCHANGED <<level, chosen, trace>>

LogSetLevel(l) ==
    /\ InControl
    /\ level' = l
    /\ UNCHANGED <<destinations, res, live, opens, chosen, trace>>

-----------------------------------------------------------------------------
(* log_ *)

GoTo(at) == stack' = [stack EXCEPT ![Len(stack)].at = at]
At(at) == IF stack = <<>> THEN FALSE ELSE Innermost.at = at

\* A message above the level is dropped: nothing changes.
Log(l, mode) ==
    /\ InControl /\ l <= level
    /\ calls < MaxCalls /\ Len(stack) < MaxDepth
    /\ calls' = calls + 1
    /\ stack' = Append(stack, [call |-> calls + 1, mode |-> mode, at |-> "SYSLOG"])
    /\ UNCHANGED <<level, destinations, res, live, opens, chosen, written, sent>>

\* The order of the three parts of log_
After(at) == [SYSLOG |-> "FILE", FILE |-> "FUNC", FUNC |-> "end"][at]

\* The call goes on after its part "at", or returns.
Continue(at) == IF After(at) = "end" THEN stack' = SubSeq(stack, 1, Len(stack) - 1) ELSE GoTo(After(at))

\* sendto, to the address there is now
ToSyslog ==
    /\ At("SYSLOG")
    /\ sent' = IF "SYSLOG" \in Innermost.mode /\ socket_fd # 0
               THEN [call |-> Innermost.call, to |-> serv_addr, wanted |-> chosen]
               ELSE sent
    /\ Continue("SYSLOG")
    /\ UNCHANGED <<level, destinations, res, live, opens, calls, chosen, written>>

ToFile ==
    /\ At("FILE")
    /\ written' = IF "FILE" \in Innermost.mode /\ file_fd # 0
                  THEN Append(written, Innermost.call) ELSE written
    /\ Continue("FILE")
    /\ UNCHANGED <<level, destinations, res, live, opens, calls, chosen, sent>>

ToFunc ==
    /\ At("FUNC")
    /\ IF "FUNC" \in Innermost.mode /\ callback THEN GoTo("callback")
       ELSE Continue("FUNC")
    /\ UNCHANGED <<level, destinations, res, live, opens, calls, chosen, written, sent>>

\* The callback returns.
CallbackDone ==
    /\ At("callback")
    /\ Continue("FUNC")
    /\ UNCHANGED <<level, destinations, res, live, opens, calls, chosen, written, sent>>

SinkNext ==
    \/ \E path, syslog, func \in BOOLEAN : LogOpen(path, syslog, func)
    \/ \E ip \in Addresses : LogSetSyslog(ip)
    \/ LogClose
    \/ \E l \in Levels : LogSetLevel(l)
    \/ \E l \in Levels, mode \in Modes : Log(l, mode)
    \/ ToSyslog \/ ToFile \/ ToFunc \/ CallbackDone

SinkSpec == SinkInit /\ [][SinkNext]_sinkVars

-----------------------------------------------------------------------------
(* However often the log is opened again, closed or readdressed, in a callback *)
(* or not, and whichever call fails halfway, the handles the system holds for   *)
(* the program are those log_config still knows, and a log_open that failed      *)
(* leaves none. (log.c 46-145)                                                  *)
NoHandleLost ==
    /\ live = {file_fd, socket_fd} \ {0}
    /\ res = -1 => live = {} /\ ~callback

(* A message goes to the server chosen last: the one given to log_set_syslog,  *)
(* or the broadcast address of a log_open since, even if a socket could not be  *)
(* opened in between. The file has the messages in the order of the calls, also  *)
(* those a callback logs while the message that called it is under way.           *)
(* (log.c 98-100, 149-151, 190-211)                                                *)
SentInOrder ==
    /\ sent.to = sent.wanted
    /\ \A j, k \in DOMAIN written : j < k => written[j] < written[k]
=============================================================================
