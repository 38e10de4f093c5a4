------------------------------ MODULE HttpApi ------------------------------
(***************************************************************************)
(* A connection to the HTTP server of the terminal (web.c: fn_api,             *)
(* api_handlers, api_server). Mongoose (external) reads what the client sends,  *)
(* tells fn_api, and then cuts the requests out of its buffer, each with an     *)
(* event of its own; requests may come one behind the other without a wait for  *)
(* the answers. fn_api answers, and marks the connection for closing.           *)
(***************************************************************************)
EXTENDS Integers, Sequences

CONSTANTS
    MAX_REQUEST_SIZE,
    Requests,      \* what clients send, with the bytes it takes
    ReadMax,       \* bytes of one read
    MaxRequests    \* bound: requests on a connection

\* What fn_api looks at. body: the form's, or what is wrong with it.
Request == [size : Nat \ {0}, known : BOOLEAN, admin : BOOLEAN,
            method : {"GET", "POST"}, body : {"untyped", "empty", "strange", "form"}]

ASSUME RequestsAssumption == Requests \subseteq Request
ASSUME SizesAssumption == MAX_REQUEST_SIZE \in Nat \ {0} /\ ReadMax \in Nat \ {0}

VARIABLES
    running_flag,  \* *running_flag of api_server
    phase,     \* "poll", "parse": requests are cut out, "closed",
               \* "gone": the client has left
    stream,    \* the requests the client has sent
    unread,    \* bytes of them that were not read yet
    recv,      \* c->recv.len
    taken,     \* requests cut out of c->recv
    is_closing, is_draining, is_full,
    replies,   \* the statuses mg_http_reply was given
    handled,   \* the requests a handler was called with
    unsent     \* replies in c->send

apiVars == <<running_flag, phase, stream, unread, recv, taken, is_closing, is_draining,
          is_full, replies, handled, unsent>>
marks == <<is_closing, is_draining, is_full>>
answers == <<replies, handled, unsent>>

ApiInit ==
    /\ running_flag = TRUE /\ phase = "poll"
    /\ stream = <<>> /\ unread = 0 /\ recv = 0 /\ taken = 0
    /\ is_closing = FALSE /\ is_draining = FALSE /\ is_full = FALSE
    /\ replies = <<>> /\ handled = <<>> /\ unsent = 0

-----------------------------------------------------------------------------
(* fn_api *)

TooLong(len) == len >= MAX_REQUEST_SIZE

\* MG_EV_READ
EvRead(n) ==
    /\ running_flag /\ phase = "poll" /\ ~is_full /\ n <= unread
    /\ unread' = unread - n /\ recv' = recv + n
    /\ phase' = "parse"
    /\ IF TooLong(recv + n)
       THEN is_closing' = TRUE /\ is_draining' = TRUE /\ is_full' = TRUE
       ELSE UNCHANGED marks
    /\ UNCHANGED <<running_flag, stream, taken, answers>>

\* The status a request is answered with; 200 is test_api's.
Verdict(q) ==
    IF ~q.known THEN 404
    ELSE IF ~q.admin THEN 401
    ELSE IF q.method = "POST" /\ q.body # "form" THEN 400
    ELSE 200

\* Mutant of Refuse: does not close behind a 404.
RefuseNot404(status) ==
    is_draining' = (is_draining \/ status \in {400, 401}) /\ UNCHANGED is_closing

\* What every answer but 200 does to the connection
Refuse(status) ==
    is_draining' = (is_draining \/ status # 200) /\ UNCHANGED is_closing

\* Mutants of Ignored: what came with the end of a connection is answered too;
\* what came behind a refusal is not.
IgnoredNot == FALSE
IgnoredDraining == is_draining

Ignored == is_closing

\* MG_EV_HTTP_MSG, for the first request in c->recv, which is then deleted
EvHttpMsg ==
    /\ running_flag /\ phase = "parse"
    /\ taken < Len(stream)
    /\ LET q == stream[taken + 1]
           status == Verdict(q)
       IN  /\ q.size <= recv
           /\ recv' = recv - q.size
           /\ IF Ignored THEN UNCHANGED <<answers, is_closing, is_draining>>
              ELSE /\ replies' = Append(replies, status)
                   /\ unsent' = unsent + 1
                   /\ handled' = IF status = 200 THEN Append(handled, q) ELSE handled
                   /\ Refuse(status)
    /\ taken' = taken + 1
    /\ UNCHANGED <<running_flag, phase, stream, unread, is_full>>

-----------------------------------------------------------------------------
(* api_server *)

\* The flag is cleared, the loop ends, mg_mgr_free closes.
Stop ==
    /\ running_flag /\ phase = "poll"
    /\ running_flag' = FALSE /\ phase' = "closed"
    /\ UNCHANGED <<stream, unread, recv, taken, marks, answers>>

-----------------------------------------------------------------------------
(* Mongoose and the client, external. *)

Whole == IF taken < Len(stream) THEN stream[taken + 1].size <= recv ELSE FALSE

ParseEnd ==
    /\ running_flag /\ phase = "parse" /\ ~Whole
    /\ phase' = "poll"
    /\ UNCHANGED <<running_flag, stream, unread, recv, taken, marks, answers>>

\* c->send is written.
Write ==
    /\ running_flag /\ phase = "poll" /\ unsent > 0
    /\ unsent' = 0
    /\ UNCHANGED <<running_flag, phase, stream, unread, recv, taken, marks, replies, handled>>

\* The end of a poll closes what is closing, or drained.
CloseConn ==
    /\ running_flag /\ phase = "poll"
    /\ is_closing \/ (is_draining /\ unsent = 0)
    /\ phase' = "closed" /\ is_closing' = TRUE
    /\ UNCHANGED <<running_flag, stream, unread, recv, taken, is_draining, is_full, answers>>

ClientLeaves ==
    /\ running_flag /\ phase = "poll"
    /\ phase' = "gone"
    /\ UNCHANGED <<running_flag, stream, unread, recv, taken, marks, answers>>

Send(q) ==
    /\ phase \in {"poll", "parse"} /\ Len(stream) < MaxRequests
    /\ stream' = Append(stream, q) /\ unread' = unread + q.size
    /\ UNCHANGED <<running_flag, phase, recv, taken, marks, answers>>

ApiNext ==
    \/ \E n \in 1..ReadMax : EvRead(n)
    \/ EvHttpMsg \/ ParseEnd \/ Write \/ CloseConn \/ Stop
    \/ ClientLeaves
    \/ \E q \in Requests : Send(q)

ApiSpec == ApiInit /\ [][ApiNext]_apiVars

\* The loop of api_server polls while it is to run, and every poll writes and
\* closes what it can; the client reads its answers.
ApiFairSpec ==
    ApiSpec /\ WF_apiVars(EvHttpMsg) /\ WF_apiVars(ParseEnd)
         /\ SF_apiVars(Write) /\ SF_apiVars(CloseConn)

-----------------------------------------------------------------------------
(* Up to the limit every request that is cut out is answered, once and in      *)
(* turn, also those behind one that made the connection drain; and before the    *)
(* server closes it on its own, the answers are written. (web.c 148-230)          *)
AnsweredInTurn ==
    /\ Len(replies) <= taken
    /\ \A k \in DOMAIN replies : replies[k] = Verdict(stream[k])
    /\ ~is_full =>
         /\ Len(replies) = taken
         /\ phase = "closed" /\ running_flag => unsent = 0 /\ replies # <<>>

(* Once the buffer was too full nothing is answered or handled any more, though *)
(* it may hold whole requests, and it does not grow on. (web.c 148-156)          *)
NothingBeyondLimit ==
    [][is_full => replies' = replies /\ handled' = handled /\ recv' <= recv]_apiVars

(* A connection with a refused request, or whose buffer is full, is closed.   *)
(* (web.c 148-154, 177-229)                                *)
RefusedIsClosed ==
    is_full \/ (\E k \in DOMAIN replies : replies[k] # 200) ~> phase \in {"closed", "gone"}
=============================================================================
