--------------------------- MODULE DevicesProofs ---------------------------
(***************************************************************************)
(* Proofs about Socket, Ntp and Serial, for every size of a frame, a read, a  *)
(* queue and a timestamp, and every number of sockets, calls and ports.       *)
(***************************************************************************)
EXTENDS Socket, Ntp, Serial, SequenceTheorems, TLAPS

-----------------------------------------------------------------------------
(* Lengths and sequences *)

\* The two length bytes of a frame are bytes, and they say how long it is.
LEMMA LengthBytes ==
    ASSUME NEW B \in Nat \ {0}, NEW l \in Nat, l < B * B
    PROVE  /\ l \div B \in 0..B-1 /\ l % B \in 0..B-1
           /\ (l \div B) * B + (l % B) = l
<1> DEFINE q == l \div B
           r == l % B
<1>1. l \in Int /\ B \in Int /\ B > 0
    OBVIOUS
<1>2. q \in Int /\ r \in 0..(B - 1) /\ l = B * q + r
    BY <1>1
<1> HIDE DEF q, r
<1>3. q < B
    <2> SUFFICES ASSUME q >= B PROVE FALSE
        BY <1>2
    <2> DEFINE x == q - B
    <2>1. x \in Nat /\ q = x + B
        BY <1>1, <1>2
    <2> HIDE DEF x
    <2>2. B * x >= 0 /\ B * x \in Int
        BY <1>1, <2>1
    <2>3. B * (x + B) = B * x + B * B
        BY <1>1, <2>1
    <2> QED BY <1>1, <1>2, <2>1, <2>2, <2>3
<1>4. q >= 0
    <2> SUFFICES ASSUME q <= -1 PROVE FALSE
        BY <1>2
    <2> DEFINE x == -1 - q
    <2>1. x \in Nat /\ q = -1 - x
        BY <1>1, <1>2
    <2> HIDE DEF x
    <2>2. B * x >= 0 /\ B * x \in Int
        BY <1>1, <2>1
    <2>3. B * (-1 - x) = -B - B * x
        BY <1>1, <2>1
    <2> QED BY <1>1, <1>2, <2>1, <2>2, <2>3
<1> QED BY <1>2, <1>3, <1>4 DEF q, r

LEMMA JoinAssociates ==
    ASSUME NEW S, NEW s \in Seq(S), NEW t \in Seq(S), NEW u \in Seq(S)
    PROVE  (s \o t) \o u = s \o (t \o u)
    BY ConcatAssociative, SMTT(60)

\* A sequence is what is cut off its head and what is left.
LEMMA Cut ==
    ASSUME NEW S, NEW s \in Seq(S), NEW n \in 0..Len(s)
    PROVE  /\ SubSeq(s, 1, n) \in Seq(S) /\ Len(SubSeq(s, 1, n)) = n
           /\ SubSeq(s, n + 1, Len(s)) \in Seq(S)
           /\ SubSeq(s, 1, n) \o SubSeq(s, n + 1, Len(s)) = s
<1>1. Len(s) \in Nat /\ \A i \in 1..Len(s) : s[i] \in S
    BY ElementOfSeq, LenProperties
<1>2. SubSeq(s, 1, n) \in Seq(S) /\ Len(SubSeq(s, 1, n)) = n
    BY <1>1, SubSeqProperties
<1>3. SubSeq(s, n + 1, Len(s)) \in Seq(S)
    BY <1>1, SubSeqProperties
<1>4. SubSeq(s, 1, n) \o SubSeq(s, n + 1, Len(s)) = SubSeq(s, 1, Len(s))
    <2>1. 1 \in 1..Len(s)+1 /\ n \in 1-1..Len(s) /\ Len(s) \in n..Len(s)
        BY <1>1
    <2> QED BY <2>1, ConcatAdjacentSubSeq
<1> QED BY <1>2, <1>3, <1>4, SubSeqFull

\* What s has behind its first e elements
After(s, e) == SubSeq(s, e + 1, Len(s))

\* Behind its first e elements s goes on with a, and ends with b.
Ends(S, s, e, a, b) ==
    /\ s \in Seq(S) /\ a \in Seq(S) /\ b \in Seq(S)
    /\ e \in 0..Len(s) /\ After(s, e) = a \o b

\* If the end of s is a, then b, then a is where the end begins, and b after it.
LEMMA Glued ==
    ASSUME NEW S, NEW s, NEW e, NEW a, NEW b, Ends(S, s, e, a, b)
    PROVE  /\ Len(s) = e + Len(a) + Len(b)
           /\ \A i \in 1..Len(a) : a[i] = s[e + i]
           /\ a = SubSeq(s, e + 1, e + Len(a))
           /\ b = After(s, e + Len(a))
<1> USE DEF Ends
<1>1. /\ Len(s) \in Nat /\ Len(a) \in Nat /\ Len(b) \in Nat
      /\ \A i \in 1..Len(s) : s[i] \in S
    BY ElementOfSeq, LenProperties
<1> DEFINE c == a \o b
           l == Len(s)
           la == Len(a)
           lb == Len(b)
<1>2. /\ Len(c) = la + lb
      /\ \A i \in 1..(la + lb) : c[i] = IF i <= la THEN a[i] ELSE b[i - la]
    BY ConcatProperties
<1>3. /\ Len(SubSeq(s, e + 1, l)) = l - e
      /\ \A i \in 1..(l - e) : SubSeq(s, e + 1, l)[i] = s[e + i]
    <2>1. \A i \in (e + 1)..l : s[i] \in S
        BY <1>1
    <2>2. /\ Len(SubSeq(s, e + 1, l)) = IF e + 1 <= l THEN l - (e + 1) + 1 ELSE 0
          /\ \A i \in 1..(l - (e + 1) + 1) : SubSeq(s, e + 1, l)[i] = s[e + 1 + i - 1]
        BY <1>1, <2>1, SubSeqProperties
    <2> QED BY <1>1, <2>2
<1>4. SubSeq(s, e + 1, l) = c
    BY DEF After
<1> HIDE DEF c, l, la, lb
<1>5. l \in Nat /\ la \in Nat /\ lb \in Nat /\ e \in 0..l
    BY <1>1 DEF l, la, lb
<1>6. l = e + la + lb
    <2>1. Len(c) = la + lb
        BY <1>2
    <2>2. Len(c) = l - e
        BY <1>3, <1>4
    <2> QED BY ONLY <1>5, <2>1, <2>2
<1>7. \A i \in 1..la : a[i] = s[e + i]
    <2> SUFFICES ASSUME NEW i \in 1..la PROVE a[i] = s[e + i]
        OBVIOUS
    <2>1. i \in 1..(la + lb) /\ i \in 1..(l - e) /\ i <= la
        BY <1>5, <1>6
    <2> QED BY <1>2, <1>3, <1>4, <2>1
<1>8. \A i \in 1..lb : b[i] = s[e + la + i]
    <2> SUFFICES ASSUME NEW i \in 1..lb PROVE b[i] = s[e + la + i]
        OBVIOUS
    <2>1. la + i \in 1..(la + lb) /\ la + i \in 1..(l - e) /\ ~(la + i <= la)
          /\ (la + i) - la = i /\ e + (la + i) = e + la + i
        BY <1>5, <1>6
    <2> QED BY <1>2, <1>3, <1>4, <2>1
<1>9. a = SubSeq(s, e + 1, e + la)
    <2> DEFINE t == SubSeq(s, e + 1, e + la)
    <2>1. \A i \in (e + 1)..(e + la) : s[i] \in S
        BY <1>1, <1>5, <1>6 DEF l
    <2>2. /\ t \in Seq(S)
          /\ Len(t) = IF e + 1 <= e + la THEN e + la - (e + 1) + 1 ELSE 0
          /\ \A i \in 1..(e + la - (e + 1) + 1) : t[i] = s[e + 1 + i - 1]
        BY <1>5, <2>1, SubSeqProperties
    <2> HIDE DEF t
    <2>3. Len(t) = la /\ \A i \in 1..la : t[i] = s[e + i]
        <3>1. Len(t) = la
            BY <1>5, <2>2
        <3>2. ASSUME NEW i \in 1..la PROVE t[i] = s[e + i]
            <4>1. i \in 1..(e + la - (e + 1) + 1) /\ e + 1 + i - 1 = e + i
                BY <1>5
            <4> QED BY <2>2, <4>1
        <3> QED BY <3>1, <3>2
    <2>4. t = a
        BY <1>7, <2>2, <2>3, SeqEqual DEF la
    <2> QED BY <2>4 DEF t
<1>10. b = SubSeq(s, e + la + 1, l)
    <2> DEFINE t == SubSeq(s, e + la + 1, l)
    <2>1. \A i \in (e + la + 1)..l : s[i] \in S
        BY <1>1, <1>5, <1>6 DEF l
    <2>2. /\ t \in Seq(S)
          /\ Len(t) = IF e + la + 1 <= l THEN l - (e + la + 1) + 1 ELSE 0
          /\ \A i \in 1..(l - (e + la + 1) + 1) : t[i] = s[e + la + 1 + i - 1]
        BY <1>5, <2>1, SubSeqProperties
    <2> HIDE DEF t
    <2>3. Len(t) = lb /\ \A i \in 1..lb : t[i] = s[e + la + i]
        <3>1. Len(t) = lb
            BY <1>5, <1>6, <2>2
        <3>2. ASSUME NEW i \in 1..lb PROVE t[i] = s[e + la + i]
            <4>1. i \in 1..(l - (e + la + 1) + 1) /\ e + la + 1 + i - 1 = e + la + i
                BY <1>5, <1>6
            <4> QED BY <2>2, <4>1
        <3> QED BY <3>1, <3>2
    <2>4. t = b
        BY <1>8, <2>2, <2>3, SeqEqual DEF lb
    <2> QED BY <2>4 DEF t
<1> QED BY <1>6, <1>7, <1>9, <1>10 DEF l, la, lb, After

\* What is appended to s is appended to its end.
LEMMA EndGrows ==
    ASSUME NEW S, NEW s \in Seq(S), NEW f \in Seq(S), NEW e \in 0..Len(s)
    PROVE  After(s \o f, e) = After(s, e) \o f
<1> DEFINE t == After(s, e)
           h == SubSeq(s, 1, e)
           u == s \o f
           b == t \o f
<1>1. h \in Seq(S) /\ Len(h) = e /\ t \in Seq(S) /\ h \o t = s
    BY Cut DEF After
<1> HIDE DEF h, t
<1>2. b \in Seq(S) /\ u \in Seq(S)
    BY <1>1, ConcatProperties
<1>3. u = h \o b
    <2>1. h \in Seq(S) /\ t \in Seq(S)
        BY <1>1
    <2>2. (h \o t) \o f = h \o (t \o f)
        BY <2>1, JoinAssociates, SMTT(60)
    <2> QED BY <1>1, <2>2
<1> HIDE DEF u, b
<1>4. After(u, 0) = h \o b /\ 0 \in 0..Len(u)
    BY <1>2, <1>3, SubSeqFull, LenProperties DEF After
<1>5. b = After(u, 0 + Len(h))
    <2>1. Ends(S, u, 0, h, b)
        BY <1>1, <1>2, <1>4 DEF Ends
    <2> QED BY <2>1, Glued
<1>6. 0 + Len(h) = e
    BY <1>1
<1>7. b = After(u, e)
    BY <1>5, <1>6
<1> QED BY <1>7 DEF b, t, u

-----------------------------------------------------------------------------
(* Socket: the descriptor *)

Links == {"none", "pending", "up", "refused"}

Limits == SocketTimeouts \cup {0}

Descriptor ==
    [open : BOOLEAN, blocking : BOOLEAN, timeout : Limits, limit : Limits, link : Links]

\* Where the client is tells how its descriptor is set up.
SocketAt ==
    /\ sock \in Descriptor
    /\ pc \in {"closed", "created", "nonblocking", "selecting", "connected",
              "blocking", "ready", "sending", "receiving", "failed", "overrun"}
    /\ sock.open <=> pc # "closed"
    /\ sock.blocking <=> pc \notin {"nonblocking", "selecting", "connected"}
    /\ pc \in {"ready", "sending", "receiving", "failed"} => sock.limit = sock.timeout
    /\ pc \in {"connected", "blocking", "ready", "sending", "receiving", "failed"} =>
          sock.link = "up"
    /\ sock.link = "pending" => pc = "selecting"

LEMMA SocketAtStep == SocketAt /\ [Next]_vars => SocketAt'
<1> SUFFICES ASSUME SocketAt, [Next]_vars PROVE SocketAt'
    OBVIOUS
<1> USE DEF SocketAt, Descriptor, Links, Limits, NoSocket
<1>1. CASE Create
    BY <1>1 DEF Create
<1>2. CASE SetNonBlocking
    BY <1>2 DEF SetNonBlocking
<1>3. CASE Connect
    BY <1>3 DEF Connect
<1>4. CASE SelectWritable
    BY <1>4 DEF SelectWritable
<1>5. CASE SetBlocking
    BY <1>5 DEF SetBlocking
<1>6. CASE SetTimeouts
    BY <1>6 DEF SetTimeouts
<1>7. CASE InitFails \/ Close
    <2>1. sock' = NoSocket /\ pc' = "closed"
        BY <1>7 DEF InitFails, GivenUp, Close
    <2> QED BY <2>1
<1>8. CASE Establish \/ Refuse
    BY <1>8 DEF Establish, Refuse
<1>9. CASE Request \/ SendPiece \/ SendFails
    BY <1>9 DEF Request, SendPiece, SendFails
<1>10. CASE RecvBytes \/ RecvClosed \/ RecvTimeout \/ RecvBreaks
    BY <1>10 DEF RecvBytes, RecvClosed, RecvTimeout, RecvBreaks, RecvFails
<1>11. CASE Answer \/ Arrive \/ Leave \/ UNCHANGED vars
    BY <1>11 DEF Answer, Arrive, Leave, vars
<1> QED BY <1>1, <1>2, <1>3, <1>4, <1>5, <1>6, <1>7, <1>8, <1>9, <1>10, <1>11 DEF Next

(* A descriptor socket_init returned is connected, blocking and has the limit   *)
(* that was asked for, and every one that was opened is closed again. (socket.c 98-223)                *)
THEOREM SocketDescriptorsKept == Spec => []DescriptorsKept
<1>1. Init => SocketAt
    BY DEF Init, SocketAt, Descriptor, Links, Limits, NoSocket
<1>2. SocketAt => DescriptorsKept
    BY DEF SocketAt, DescriptorsKept
<1> QED BY <1>1, <1>2, SocketAtStep, PTL DEF Spec

-----------------------------------------------------------------------------
(* Socket: the bytes of the peer *)

Byte == 0..Base-1

StreamTypeOK ==
    /\ said \in Seq(Byte) /\ out \in Seq(Byte)
    /\ wire \in Seq(Byte) /\ flight \in Seq(Byte)
    /\ ends \in Seq(Nat) /\ got \in 0..Len(ends)

\* The bytes of the peer are frames that announce their lengths.
Framed ==
    /\ \A k \in 1..Len(ends) :
          /\ End(k - 1) + 2 <= End(k) /\ End(k) <= Len(said)
          /\ said[End(k - 1) + 1] * Base + said[End(k - 1) + 2] = End(k) - End(k - 1) - 2
    /\ End(Len(ends)) = Len(said)

Connecting == pc \in {"created", "nonblocking", "selecting", "connected", "blocking"}

StreamInv ==
    /\ StreamTypeOK /\ Framed
    /\ Connecting => said = <<>> /\ ends = <<>> /\ wire = <<>> /\ flight = <<>>
    /\ NoByteLost /\ FrameWhole
    /\ pc = "receiving" => ~Complete(out)

LEMMA StreamEnds ==
    ASSUME StreamTypeOK
    PROVE  /\ Base \in Nat \ {0} /\ Len(said) \in Nat /\ Len(ends) \in Nat
           /\ \A k \in 0..Len(ends) : End(k) \in Nat
           /\ \A i \in 1..Len(said) : said[i] \in Byte
<1>1. \A k \in 1..Len(ends) : ends[k] \in Nat
    BY ElementOfSeq DEF StreamTypeOK
<1>2. Len(said) \in Nat /\ Len(ends) \in Nat
    BY LenProperties DEF StreamTypeOK
<1>3. \A k \in 0..Len(ends) : End(k) \in Nat
    BY <1>1, <1>2 DEF End
<1>4. \A i \in 1..Len(said) : said[i] \in Byte
    BY ElementOfSeq DEF StreamTypeOK
<1> QED BY <1>2, <1>3, <1>4, SizesAssumption

LEMMA StreamInitial == Init => StreamInv
<1> SUFFICES ASSUME Init PROVE StreamInv
    OBVIOUS
<1>1. /\ <<>> \in Seq(Byte) /\ <<>> \in Seq(Nat) /\ Len(<<>>) = 0
    BY EmptySeq
<1>2. StreamTypeOK /\ Framed
    BY <1>1 DEF Init, StreamTypeOK, Framed, End
<1> QED BY <1>1, <1>2 DEF Init, StreamInv, NoByteLost, FrameWhole

\* A step that only opens, gives up or goes on with the descriptor.
LEMMA StreamQuiet ==
    ASSUME StreamInv, UNCHANGED <<out, said, ends, got, flight, wire>>,
           \/ UNCHANGED <<pc, ret>>
           \/ pc' \in {"closed", "failed"}
           \/ Connecting /\ (Connecting' \/ pc' = "ready")
           \/ pc = "ready" /\ pc' = "sending"
    PROVE  StreamInv'
<1>1. StreamTypeOK' /\ Framed' /\ Len(ends) \in Nat
    BY StreamEnds DEF StreamInv, StreamTypeOK, Framed, End
<1>2. CASE UNCHANGED <<pc, ret>>
    BY <1>1, <1>2 DEF StreamInv, NoByteLost, FrameWhole, Connecting, Collected, End
<1>3. CASE pc' \in {"closed", "failed"}
    BY <1>1, <1>3 DEF StreamInv, NoByteLost, FrameWhole, Connecting
<1>4. CASE Connecting /\ (Connecting' \/ pc' = "ready")
    <2>1. said = <<>> /\ ends = <<>> /\ wire = <<>> /\ flight = <<>> /\ got = 0 /\ got' = 0
        BY <1>4, EmptySeq DEF StreamInv, StreamTypeOK
    <2>2. pc' # "receiving"
        BY <1>4 DEF Connecting
    <2>3. FrameWhole'
        BY <2>1 DEF FrameWhole
    <2>4. NoByteLost'
        <3>1. SubSeq(said, 0 + 1, Len(said)) = <<>> /\ <<>> \o (wire \o flight) = <<>>
            BY <2>1, SubSeqEmpty, EmptySeq
        <3>2. End(got)' = 0 /\ Collected' = <<>>
            BY <2>1, <2>2 DEF End, Collected
        <3> QED BY <3>1, <3>2 DEF NoByteLost
    <2> QED BY <1>1, <2>1, <2>2, <2>3, <2>4 DEF StreamInv
<1>5. CASE pc = "ready" /\ pc' = "sending"
    BY <1>1, <1>5 DEF StreamInv, NoByteLost, FrameWhole, Connecting, Collected, End
<1> QED BY <1>2, <1>3, <1>4, <1>5

LEMMA StreamCreate ==
    ASSUME StreamInv, Create PROVE StreamInv'
<1>1. /\ <<>> \in Seq(Byte) /\ <<>> \in Seq(Nat) /\ Len(<<>>) = 0
    BY EmptySeq
<1>2. /\ said' = <<>> /\ ends' = <<>> /\ out' = <<>> /\ wire' = <<>> /\ flight' = <<>>
      /\ got' = 0 /\ pc' \in {"closed", "created"}
    BY DEF Create
<1>3. StreamTypeOK' /\ Framed'
    BY <1>1, <1>2 DEF StreamTypeOK, Framed, End
<1> QED BY <1>2, <1>3 DEF StreamInv, NoByteLost, FrameWhole

LEMMA StreamSendPiece ==
    ASSUME StreamInv, SendPiece PROVE StreamInv'
<1>1. CASE UNCHANGED <<pc, ret, out>>
    BY <1>1, StreamQuiet DEF SendPiece, stream
<1>2. CASE pc = "sending" /\ pc' = "receiving" /\ out' = <<>>
           /\ UNCHANGED <<said, ends, got, flight, wire>>
    <2>1. StreamTypeOK' /\ Framed'
        BY <1>2, EmptySeq DEF StreamInv, StreamTypeOK, Framed, End
    <2>2. NoByteLost' /\ FrameWhole'
        BY <1>2 DEF StreamInv, NoByteLost, FrameWhole, Collected, End
    <2>3. ~Complete(out')
        BY <1>2, EmptySeq DEF Complete
    <2> QED BY <1>2, <2>1, <2>2, <2>3 DEF StreamInv, Connecting
<1> QED BY <1>1, <1>2 DEF SendPiece, stream

\* What arrives is no longer under way.
LEMMA StreamArrive ==
    ASSUME StreamInv, Arrive PROVE StreamInv'
<1>1. PICK n \in 1..Len(flight) :
          /\ wire' = wire \o SubSeq(flight, 1, n)
          /\ flight' = SubSeq(flight, n + 1, Len(flight))
    BY DEF Arrive
<1> DEFINE a == SubSeq(flight, 1, n)
           b == SubSeq(flight, n + 1, Len(flight))
<1>2. wire \in Seq(Byte) /\ flight \in Seq(Byte) /\ n \in 0..Len(flight)
    BY LenProperties DEF StreamInv, StreamTypeOK
<1>3. a \in Seq(Byte) /\ b \in Seq(Byte) /\ a \o b = flight
    BY <1>2, Cut
<1>4. wire' = wire \o a /\ flight' = b /\ flight # <<>>
      /\ UNCHANGED <<pc, ret, out, said, ends, got>>
    BY <1>1 DEF Arrive, local
<1> HIDE DEF a, b
<1>5. (wire \o a) \o b = wire \o (a \o b)
    <2>1. wire \in Seq(Byte) /\ a \in Seq(Byte) /\ b \in Seq(Byte)
        BY <1>2, <1>3
    <2> QED BY <2>1, JoinAssociates, SMTT(60)
<1>6. wire' \o flight' = wire \o flight /\ wire' \in Seq(Byte) /\ flight' \in Seq(Byte)
    BY <1>2, <1>3, <1>4, <1>5, ConcatProperties
<1>7. ~Connecting
    BY <1>4 DEF StreamInv
<1> QED
    BY <1>4, <1>6, <1>7 DEF StreamInv, StreamTypeOK, Framed, NoByteLost, FrameWhole,
                            Connecting, Collected, End

\* How far the frames that were returned reach, and what the next one announces.
LEMMA StreamAt ==
    ASSUME StreamTypeOK, Framed
    PROVE  /\ End(got) \in 0..Len(said)
           /\ got < Len(ends) =>
                /\ End(got) + 2 <= End(got + 1) /\ End(got + 1) <= Len(said)
                /\ said[End(got) + 1] * Base + said[End(got) + 2]
                        = End(got + 1) - End(got) - 2
           /\ got = Len(ends) => End(got) = Len(said)
<1>1. /\ Len(said) \in Nat /\ Len(ends) \in Nat /\ got \in 0..Len(ends)
      /\ End(got) \in Nat
    BY StreamEnds DEF StreamTypeOK
<1>2. CASE got = 0
    <2>1. End(got) = 0
        BY <1>2 DEF End
    <2>2. got < Len(ends) => got + 1 \in 1..Len(ends) /\ (got + 1) - 1 = got
        BY <1>1
    <2> QED BY <1>1, <1>2, <2>1, <2>2 DEF Framed
<1>3. CASE got # 0
    <2>1. got \in 1..Len(ends)
        BY <1>1, <1>3
    <2>2. got < Len(ends) => got + 1 \in 1..Len(ends) /\ (got + 1) - 1 = got
        BY <1>1
    <2>3. End(got) <= Len(said)
        BY <2>1 DEF Framed
    <2> QED BY <1>1, <2>2, <2>3 DEF Framed
<1> QED BY <1>2, <1>3

\* Bytes of the stream are returned when they are the next frame, and only then.
LEMMA NextFrame ==
    ASSUME StreamTypeOK, Framed, NEW all \in Seq(Byte), NEW rest \in Seq(Byte),
           After(said, End(got)) = all \o rest
    PROVE  /\ rest = After(said, End(got) + Len(all))
           /\ Complete(all) =>
                /\ got < Len(ends) /\ End(got) + Len(all) = End(got + 1)
                /\ all = SubSeq(said, End(got) + 1, End(got + 1))
           /\ got < Len(ends) /\ End(got) + Len(all) = End(got + 1) /\ Len(all) # 2 =>
                Complete(all)
<1> DEFINE e == End(got)
           l == Len(said)
           n == Len(all)
           m == Len(rest)
           next == End(got + 1)
<1>1. /\ l \in Nat /\ Len(ends) \in Nat /\ got \in 0..Len(ends)
      /\ n \in Nat /\ m \in Nat /\ e \in 0..l
      /\ got < Len(ends) => next \in Nat
    BY StreamEnds, StreamAt, LenProperties DEF StreamTypeOK
<1>2. /\ After(said, e) = all \o rest
      /\ said \in Seq(Byte) /\ e \in 0..Len(said)
    BY <1>1 DEF StreamTypeOK
<1>3. got < Len(ends) =>
        /\ e + 2 <= next
        /\ said[e + 1] * Base + said[e + 2] = next - e - 2
    BY StreamAt
<1>4. got = Len(ends) => e = l
    BY StreamAt
<1> HIDE DEF e, next
<1>5. /\ l = e + n + m
      /\ \A i \in 1..n : all[i] = said[e + i]
      /\ all = SubSeq(said, e + 1, e + n)
      /\ rest = After(said, e + n)
    <2>1. Ends(Byte, said, e, all, rest)
        BY <1>2 DEF Ends
    <2> QED BY <2>1, Glued
<1> HIDE DEF l, n, m
<1>6. n > 2 => all[1] = said[e + 1] /\ all[2] = said[e + 2]
    BY <1>1, <1>5
<1>7. n > 2 => Announced(all) = said[e + 1] * Base + said[e + 2]
    BY <1>6 DEF Announced
<1>8. Complete(all) <=> n > 2 /\ Announced(all) = n - 2
    BY DEF Complete, n
<1>9. ASSUME Complete(all) PROVE got < Len(ends) /\ e + n = next
    <2>1. n > 2 /\ said[e + 1] * Base + said[e + 2] = n - 2
        BY <1>7, <1>8, <1>9
    <2>2. got # Len(ends)
        BY <1>1, <1>4, <1>5, <2>1
    <2>3. got < Len(ends)
        BY <1>1, <2>2
    <2>4. n - 2 = next - e - 2
        BY <1>3, <2>1, <2>3
    <2>5. next \in Int /\ e \in Int /\ n \in Int
        BY <1>1, <2>3
    <2>6. e + n = next
        BY <2>4, <2>5
    <2> QED BY <2>3, <2>6
<1>10. ASSUME got < Len(ends), e + n = next, n # 2 PROVE Complete(all)
    <2>1. n > 2 /\ next - e - 2 = n - 2
        BY <1>1, <1>3, <1>10
    <2> QED BY <1>3, <1>7, <1>8, <1>10, <2>1
<1> QED BY <1>5, <1>9, <1>10 DEF e, l, n, next

LEMMA StreamRecvBytes ==
    ASSUME StreamInv, RecvBytes PROVE StreamInv'
<1> DEFINE res == IF Len(wire) < Chunk THEN Len(wire) ELSE Chunk
           a == SubSeq(wire, 1, res)
           b == SubSeq(wire, res + 1, Len(wire))
           all == out \o a
<1>1. /\ pc = "receiving" /\ wire' = b /\ out' = all
      /\ UNCHANGED <<said, ends, flight>>
      /\ IF Len(all) > OutSize
         THEN pc' = "overrun" /\ UNCHANGED <<ret, got>>
         ELSE IF Complete(all)
         THEN pc' = "ready" /\ ret' = Len(all) /\ got' = got + 1
         ELSE UNCHANGED <<pc, ret, got>>
    BY DEF RecvBytes
<1>2. /\ wire \in Seq(Byte) /\ flight \in Seq(Byte) /\ out \in Seq(Byte)
      /\ said \in Seq(Byte) /\ res \in 0..Len(wire)
    BY LenProperties, SizesAssumption DEF StreamInv, StreamTypeOK
<1> HIDE DEF res
<1>3. a \in Seq(Byte) /\ b \in Seq(Byte) /\ a \o b = wire
    BY <1>2, Cut
<1> HIDE DEF a, b
<1>4. all \in Seq(Byte) /\ b \o flight \in Seq(Byte)
    BY <1>2, <1>3, ConcatProperties
<1>5. all \o (b \o flight) = out \o (wire \o flight)
    <2>1. /\ out \in Seq(Byte) /\ a \in Seq(Byte) /\ b \in Seq(Byte) /\ flight \in Seq(Byte)
          /\ b \o flight \in Seq(Byte)
        BY <1>2, <1>3, <1>4
    <2>2. (out \o a) \o (b \o flight) = out \o (a \o (b \o flight))
        BY <2>1, JoinAssociates, SMTT(60)
    <2>3. (a \o b) \o flight = a \o (b \o flight)
        BY <2>1, JoinAssociates, SMTT(60)
    <2> QED BY <1>3, <2>2, <2>3
<1> HIDE DEF all
<1> DEFINE rest == b \o flight
<1>6. After(said, End(got)) = all \o rest
    BY <1>1, <1>5 DEF StreamInv, NoByteLost, Collected, After
<1> HIDE DEF rest
<1>7. /\ rest = After(said, End(got) + Len(all))
      /\ Complete(all) =>
            /\ got < Len(ends) /\ End(got) + Len(all) = End(got + 1)
            /\ all = SubSeq(said, End(got) + 1, End(got + 1))
    BY <1>4, <1>6, NextFrame DEF StreamInv, rest
<1>8. StreamTypeOK'
    <2>1. got \in 0..Len(ends) /\ Len(ends) \in Nat
        BY StreamEnds DEF StreamInv, StreamTypeOK
    <2>2. got' \in 0..Len(ends)
        BY <1>1, <1>7, <2>1
    <2> QED BY <1>1, <1>3, <1>4, <2>2 DEF StreamInv, StreamTypeOK
<1>9. Framed' /\ ~Connecting'
    BY <1>1 DEF StreamInv, Framed, End, Connecting
<1>10. CASE ~(Len(all) > OutSize) /\ Complete(all)
    <2>1. got' = got + 1 /\ got \in Nat /\ got' - 1 = got /\ got' # 0
        BY <1>1, <1>10, StreamEnds DEF StreamInv, StreamTypeOK
    <2>2. End(got)' = End(got + 1) /\ End(got - 1)' = End(got)
        BY <1>1, <2>1 DEF End
    <2>3. FrameWhole'
        BY <1>1, <1>7, <1>10, <2>2 DEF FrameWhole
    <2>4. After(said, End(got)') = <<>> \o rest
        <3>1. <<>> \o rest = rest
            BY <1>4, ConcatEmptySeq DEF rest
        <3> QED BY <1>7, <1>10, <2>2, <3>1
    <2>5. NoByteLost'
        BY <1>1, <1>10, <2>4 DEF NoByteLost, Collected, rest, After
    <2> QED BY <1>1, <1>8, <1>9, <1>10, <2>3, <2>5 DEF StreamInv
<1>11. CASE ~(Len(all) > OutSize) /\ ~Complete(all)
    <2>1. NoByteLost'
        BY <1>1, <1>6, <1>11 DEF NoByteLost, Collected, rest, End, After
    <2>2. FrameWhole'
        BY <1>1, <1>11 DEF FrameWhole
    <2> QED BY <1>1, <1>8, <1>9, <1>11, <2>1, <2>2 DEF StreamInv
<1>12. CASE Len(all) > OutSize
    BY <1>1, <1>8, <1>9, <1>12 DEF StreamInv, NoByteLost, FrameWhole
<1> QED BY <1>10, <1>11, <1>12

LEMMA FrameBytes ==
    ASSUME NEW p \in Payloads
    PROVE  /\ Frame(p) \in Seq(Byte) /\ Len(Frame(p)) >= 2 /\ Len(Frame(p)) \in Nat
           /\ Frame(p)[1] * Base + Frame(p)[2] = Len(Frame(p)) - 2
<1> DEFINE l == Len(p)
           h == <<l \div Base, l % Base>>
<1>1. p \in Seq(Byte) /\ l \in Nat /\ l < Base * Base /\ Base \in Nat \ {0}
    BY PayloadsAssumption, SizesAssumption, EmptySeq DEF Byte
<1>2. /\ l \div Base \in Byte /\ l % Base \in Byte
      /\ (l \div Base) * Base + (l % Base) = l
    BY <1>1, LengthBytes DEF Byte
<1> HIDE DEF l
<1>3. h \in Seq(Byte) /\ Len(h) = 2 /\ h[1] = l \div Base /\ h[2] = l % Base
    BY <1>2
<1> HIDE DEF h
<1>4. /\ h \o p \in Seq(Byte) /\ Len(h \o p) = 2 + l
      /\ (h \o p)[1] = h[1] /\ (h \o p)[2] = h[2]
    <2>1. /\ h \o p \in Seq(Byte) /\ Len(h \o p) = Len(h) + Len(p)
          /\ \A i \in 1..Len(h) + Len(p) :
                (h \o p)[i] = IF i <= Len(h) THEN h[i] ELSE p[i - Len(h)]
        BY <1>1, <1>3, ConcatProperties
    <2>2. 1 \in 1..2 + l /\ 2 \in 1..2 + l
        BY <1>1
    <2> QED BY <1>3, <2>1, <2>2 DEF l
<1>5. Frame(p) = h \o p
    BY DEF Frame, h, l
<1>6. 2 + l >= 2 /\ 2 + l \in Nat /\ 2 + l - 2 = l
    BY <1>1
<1> QED BY <1>2, <1>3, <1>4, <1>5, <1>6 DEF l

\* A frame goes to the end of the stream and of what is still to be returned.
LEMMA StreamAnswer ==
    ASSUME StreamInv, Answer PROVE StreamInv'
<1>1. PICK p \in Payloads :
          /\ said' = said \o Frame(p)
          /\ ends' = Append(ends, Len(said'))
          /\ flight' = flight \o Frame(p)
    BY DEF Answer
<1> DEFINE f == Frame(p)
<1>2. /\ f \in Seq(Byte) /\ Len(f) >= 2 /\ Len(f) \in Nat
      /\ f[1] * Base + f[2] = Len(f) - 2
    BY FrameBytes
<1> HIDE DEF f
<1>3. /\ said \in Seq(Byte) /\ flight \in Seq(Byte) /\ wire \in Seq(Byte) /\ out \in Seq(Byte)
      /\ ends \in Seq(Nat) /\ Len(said) \in Nat /\ Len(ends) \in Nat
      /\ got \in 0..Len(ends) /\ \A k \in 0..Len(ends) : End(k) \in Nat
    BY StreamEnds DEF StreamInv, StreamTypeOK
<1> PICK l \in Nat, n \in Nat, g \in Nat :
        l = Len(said) /\ n = Len(ends) /\ g = got /\ g \in 0..n
    BY <1>3
<1>4. /\ said' = said \o f /\ flight' = flight \o f /\ ends' = Append(ends, Len(said'))
      /\ pc \in {"receiving", "ready"} /\ UNCHANGED <<pc, ret, out, got, wire>>
    BY <1>1 DEF Answer, f
<1>5. /\ said' \in Seq(Byte) /\ Len(said') = l + Len(f)
      /\ \A i \in 1..l : said'[i] = said[i]
      /\ said'[l + 1] = f[1] /\ said'[l + 2] = f[2]
    <2>1. /\ said \o f \in Seq(Byte) /\ Len(said \o f) = l + Len(f)
          /\ \A i \in 1..l + Len(f) : (said \o f)[i] = IF i <= l THEN said[i] ELSE f[i - l]
        BY <1>2, <1>3, ConcatProperties
    <2>2. /\ l + 1 \in 1..l + Len(f) /\ ~(l + 1 <= l) /\ (l + 1) - l = 1
          /\ l + 2 \in 1..l + Len(f) /\ ~(l + 2 <= l) /\ (l + 2) - l = 2
          /\ \A i \in 1..l : i \in 1..l + Len(f) /\ i <= l
        BY <1>2, <1>3
    <2> QED BY <1>4, <2>1, <2>2
<1>6. /\ ends' \in Seq(Nat) /\ Len(ends') = n + 1 /\ ends'[n + 1] = Len(said')
      /\ \A k \in 1..n : ends'[k] = ends[k]
    <2>1. Len(said') \in Nat
        BY <1>2, <1>3, <1>5
    <2> QED BY <1>3, <1>4, <2>1, AppendProperties
<1>7. /\ \A k \in 0..n : End(k)' = End(k)
      /\ End(n + 1)' = l + Len(f)
    <2>1. ASSUME NEW k \in 0..n PROVE End(k)' = End(k)
        <3>1. CASE k = 0
            BY <3>1 DEF End
        <3>2. CASE k # 0
            <4>1. k \in 1..n
                BY <1>3, <3>2
            <4> QED BY <1>6, <3>2, <4>1 DEF End
        <3> QED BY <3>1, <3>2
    <2>2. n + 1 # 0
        BY <1>3
    <2>3. End(n + 1)' = ends'[n + 1]
        BY <2>2 DEF End
    <2> QED BY <1>5, <1>6, <2>1, <2>3
<1>8. /\ \A k \in 1..n :
            /\ End(k - 1) + 2 <= End(k) /\ End(k) <= l
            /\ said[End(k - 1) + 1] * Base + said[End(k - 1) + 2] = End(k) - End(k - 1) - 2
      /\ End(n) = l
    BY DEF StreamInv, Framed
<1>9. StreamTypeOK'
    <2>1. flight' \in Seq(Byte)
        BY <1>2, <1>3, <1>4, ConcatProperties
    <2>2. got' \in 0..Len(ends')
        <3> QED BY <1>3, <1>4, <1>6
    <2> QED BY <1>3, <1>4, <1>5, <1>6, <2>1, <2>2 DEF StreamTypeOK
<1>10. Framed'
    <2>1. ASSUME NEW k \in 1..n
          PROVE  /\ End(k - 1)' + 2 <= End(k)' /\ End(k)' <= Len(said')
                 /\ said'[End(k - 1)' + 1] * Base + said'[End(k - 1)' + 2]
                        = End(k)' - End(k - 1)' - 2
        <3>1. k - 1 \in 0..n /\ k \in 0..n
            BY <1>3
        <3>2. End(k)' = End(k) /\ End(k - 1)' = End(k - 1) /\ End(k) \in Nat /\ End(k - 1) \in Nat
            BY <1>3, <1>7, <3>1
        <3>3. End(k - 1) + 2 <= End(k) /\ End(k) <= l
            BY <1>8
        <3>4. End(k - 1) + 1 \in 1..l /\ End(k - 1) + 2 \in 1..l
            BY <3>2, <3>3
        <3>5. /\ said'[End(k - 1) + 1] = said[End(k - 1) + 1]
              /\ said'[End(k - 1) + 2] = said[End(k - 1) + 2]
            BY <1>5, <3>4
        <3>6. End(k) <= Len(said')
            BY <1>2, <1>3, <1>5, <3>2, <3>3
        <3> QED BY <1>8, <3>2, <3>3, <3>5, <3>6
    <2>2. /\ End(n)' + 2 <= End(n + 1)' /\ End(n + 1)' <= Len(said')
          /\ said'[End(n)' + 1] * Base + said'[End(n)' + 2] = End(n + 1)' - End(n)' - 2
        <3>1. End(n)' = l /\ End(n + 1)' = l + Len(f)
            <4>1. n \in 0..n
                OBVIOUS
            <4>2. End(n)' = End(n)
                BY <1>7, <4>1
            <4> QED BY <1>7, <1>8, <4>2
        <3>2. Len(f) \in Nat /\ Len(f) >= 2 /\ f[1] * Base + f[2] = Len(f) - 2
            BY ONLY <1>2
        <3>3. l + 2 <= l + Len(f) /\ l + Len(f) <= Len(said') /\ l + Len(f) - l - 2 = Len(f) - 2
            <4> DEFINE m == Len(f)
            <4>1. m \in Nat /\ m >= 2 /\ l \in Nat /\ Len(said') = l + m
                BY ONLY <3>2, <1>5, l \in Nat
            <4> HIDE DEF m
            <4>2. l + 2 <= l + m /\ l + m <= Len(said') /\ l + m - l - 2 = m - 2
                BY ONLY <4>1
            <4> QED BY <4>2 DEF m
        <3>4. said'[l + 1] * Base + said'[l + 2] = Len(f) - 2
            BY ONLY <1>5, <3>2
        <3> QED BY ONLY <3>1, <3>3, <3>4
    <2>3. \A k \in 1..Len(ends') : k \in 1..n \/ (k = n + 1 /\ k - 1 = n)
        BY <1>3, <1>6
    <2>4. End(Len(ends))' = Len(said')
        <3>1. End(Len(ends))' = End(n + 1)'
            BY <1>6 DEF End
        <3> QED BY <1>5, <1>7, <3>1
    <2> QED BY <2>1, <2>2, <2>3, <2>4 DEF Framed
<1>11. End(g)' = End(got)' /\ End(g)' = End(g) /\ End(g) \in 0..l
    BY <1>3, <1>4, <1>7, StreamAt DEF End, StreamInv
<1>12. FrameWhole'
    <2> SUFFICES ASSUME pc = "ready", g > 0
                 PROVE  out = SubSeq(said', End(g - 1)' + 1, End(g)') /\ ret = Len(out)
        BY <1>4 DEF FrameWhole, End
    <2>1. g \in 1..n /\ g - 1 \in 0..n
        BY <1>3
    <2>2. End(g - 1)' = End(g - 1) /\ End(g - 1) \in Nat /\ End(g)' = End(g)
        BY <1>3, <1>7, <2>1
    <2>3. End(g - 1) + 2 <= End(g) /\ End(g) <= l
        BY <1>8, <2>1
    <2>4. End(g - 1) + 1 \in 1..l /\ End(g) \in 1..l
        BY <1>3, <2>2, <2>3
    <2>5. SubSeq(said', End(g - 1) + 1, End(g)) = SubSeq(said, End(g - 1) + 1, End(g))
        BY <1>2, <1>3, <1>4, <2>4, SubSeqOfConcat1
    <2> QED BY <2>2, <2>5 DEF StreamInv, FrameWhole
<1>13. NoByteLost'
    <2> DEFINE c == Collected
               x == wire \o flight
               y == flight \o f
    <2>1. c \in Seq(Byte) /\ Collected' = c
        BY <1>3, <1>4, EmptySeq DEF Collected
    <2> HIDE DEF c
    <2>2. x \in Seq(Byte) /\ y \in Seq(Byte) /\ x \o f \in Seq(Byte)
        BY <1>2, <1>3, ConcatProperties
    <2>3. x \o f = wire \o y
        <3>1. wire \in Seq(Byte) /\ flight \in Seq(Byte) /\ f \in Seq(Byte)
            BY <1>2, <1>3
        <3>2. (wire \o flight) \o f = wire \o (flight \o f)
            BY <3>1, JoinAssociates, SMTT(60)
        <3> QED BY <3>2
    <2>4. (c \o x) \o f = c \o (x \o f)
        <3> HIDE DEF x
        <3> QED BY <1>2, <2>1, <2>2, JoinAssociates, SMTT(60)
    <2>5. After(said, End(g)) = c \o x
        BY <1>4 DEF StreamInv, NoByteLost, After, c
    <2>6. After(said', End(g)) = After(said, End(g)) \o f
        BY <1>2, <1>3, <1>4, <1>11, EndGrows
    <2>7. After(said', End(got)') = c \o (wire \o y)
        BY <1>11, <2>3, <2>4, <2>5, <2>6
    <2> QED BY <1>4, <2>1, <2>7 DEF NoByteLost, After
<1> QED BY <1>4, <1>9, <1>10, <1>12, <1>13 DEF StreamInv, Connecting

LEMMA StreamStep == StreamInv /\ [Next]_vars => StreamInv'
<1> SUFFICES ASSUME StreamInv, [Next]_vars PROVE StreamInv'
    OBVIOUS
<1>1. CASE SetNonBlocking \/ Connect \/ SelectWritable \/ SetBlocking \/ SetTimeouts
    <2>1. UNCHANGED <<out, said, ends, got, flight, wire>>
        BY <1>1 DEF SetNonBlocking, Connect, SelectWritable, SetBlocking, SetTimeouts,
                    local, stream
    <2>2. Connecting /\ (Connecting' \/ pc' = "ready")
        BY <1>1 DEF SetNonBlocking, Connect, SelectWritable, SetBlocking, SetTimeouts,
                    Connecting
    <2> QED BY <2>1, <2>2, StreamQuiet
<1>2. CASE InitFails \/ Close \/ SendFails \/ RecvClosed \/ RecvTimeout \/ RecvBreaks
    <2>1. UNCHANGED <<out, said, ends, got, flight, wire>> /\ pc' \in {"closed", "failed"}
        BY <1>2 DEF InitFails, Close, SendFails, RecvClosed, RecvTimeout, RecvBreaks, RecvFails,
                    local, stream
    <2> QED BY <2>1, StreamQuiet
<1>3. CASE Establish \/ Refuse \/ Leave \/ UNCHANGED vars
    <2>1. UNCHANGED <<out, said, ends, got, flight, wire, pc, ret>>
        BY <1>3 DEF Establish, Refuse, Leave, vars, local, stream
    <2> QED BY <2>1, StreamQuiet
<1>4. CASE Request
    BY <1>4, StreamQuiet DEF Request, stream
<1> QED
    BY <1>1, <1>2, <1>3, <1>4, StreamCreate, StreamSendPiece, StreamRecvBytes,
       StreamAnswer, StreamArrive DEF Next

\* When nothing of the stream is left and one frame is due, it was returned.
LEMMA StreamTaken == StreamInv => TakenWhenWhole
<1> SUFFICES ASSUME StreamInv, pc = "receiving", wire \o flight = <<>>, Len(ends) = got + 1,
                    End(got + 1) # End(got) + 2
             PROVE  FALSE
    BY DEF TakenWhenWhole
<1>1. After(said, End(got)) = out \o <<>>
    BY DEF StreamInv, NoByteLost, Collected, After
<1>2. /\ said \in Seq(Byte) /\ out \in Seq(Byte) /\ <<>> \in Seq(Byte)
      /\ End(got) \in 0..Len(said) /\ got \in Nat /\ Len(out) \in Nat
    BY EmptySeq, LenProperties, StreamAt, StreamEnds DEF StreamInv, StreamTypeOK
<1>3. Len(said) = End(got) + Len(out)
    <2>1. Ends(Byte, said, End(got), out, <<>>)
        BY <1>1, <1>2 DEF Ends
    <2>2. Len(said) = End(got) + Len(out) + Len(<<>>)
        BY <2>1, Glued
    <2> QED BY <1>2, <2>2, EmptySeq
<1>4. got < Len(ends) /\ End(got) + Len(out) = End(got + 1)
    BY <1>2, <1>3 DEF StreamInv, Framed
<1>5. Complete(out)
    <2>1. Len(out) # 2
        BY <1>2, <1>4
    <2> QED BY <1>1, <1>2, <1>4, <2>1, NextFrame DEF StreamInv
<1> QED BY <1>5 DEF StreamInv

(* What socket_recv returns are the frames of the peer, whole, one by one and  *)
(* in their order, without waiting for more than the last one.                 *)
(* (socket.c 282-326)                                                          *)
THEOREM SocketFramesInOrder == Spec => []FramesInOrder
<1>1. StreamInv => FramesInOrder
    BY StreamTaken DEF StreamInv, FramesInOrder
<1> QED BY <1>1, StreamInitial, StreamStep, PTL DEF Spec
-----------------------------------------------------------------------------
(* Ntp: where an answer comes from, and when it was stamped *)

InUse == {ntpPort} \ {0}

\* An answer carries a time that has been, and is this call's, or comes to a
\* port that an earlier call has had.
Stamped(a) ==
    \E t \in Nat, n \in 0..2 :
        /\ t <= clock /\ a.bytes = SubSeq(Stamp(t), 1, n)
        /\ a.port \in usedPorts \/ (a.port \in InUse /\ t >= begun)

AnswersInv == \A a \in answers : Stamped(a)

NtpInv ==
    /\ clock \in Nat /\ begun \in Nat /\ begun <= clock
    /\ ntpAt \in {"idle", "resolve", "socket", "limit", "connect"} => ntpPort = 0
    /\ ntpAt \in {"send", "recv"} => ntpPort \in Ports
    /\ ntpAt \in {"idle", "resolve", "socket", "limit", "connect", "send", "recv"}
    /\ asked \subseteq usedPorts \cup InUse
    /\ AnswersInv

\* b is what is left of the stamp of t when it is cut to n bytes.
CutStamp(b, t, n) == t \in Nat /\ n \in 0..2 /\ b = SubSeq(Stamp(t), 1, n)

\* Zeroes take the place of what is cut off a stamp.
LEMMA PaddedStamp ==
    ASSUME NEW t, NEW n, NEW b, CutStamp(b, t, n)
    PROVE  /\ Len(b) = n
           /\ Packet(b)[1] = IF n = 0 THEN 0 ELSE (t % Era) \div Digit
           /\ Packet(b)[2] = IF n = 2 THEN t % Digit ELSE 0
<1> DEFINE d1 == (t % Era) \div Digit
           d2 == t % Digit
           S == {d1, d2, 0}
           w == <<0, 0>>
           z == SubSeq(w, n + 1, 2)
           p == Packet(b)
<1> USE DEF CutStamp
<1>1. Stamp(t) = <<d1, d2>>
    BY DEF Stamp
<1> HIDE DEF d1, d2
<1>2. /\ b \in Seq(S) /\ Len(b) = n
      /\ n >= 1 => b[1] = d1
      /\ n = 2 => b[2] = d2
    <2> DEFINE s == <<d1, d2>>
    <2>1. \A i \in 1..n : s[i] \in S
        OBVIOUS
    <2>2. s[1] = d1 /\ s[2] = d2 /\ b = SubSeq(s, 1, n)
        BY <1>1
    <2> HIDE DEF s, S
    <2>3. /\ b \in Seq(S) /\ Len(b) = IF 1 <= n THEN n - 1 + 1 ELSE 0
          /\ \A i \in 1..n - 1 + 1 : b[i] = s[1 + i - 1]
        BY <2>1, <2>2, SubSeqProperties
    <2> QED BY <2>2, <2>3
<1>3. z \in Seq(S) /\ Len(z) = 2 - n /\ \A i \in 1..2 - n : z[i] = 0
    <2>1. \A i \in 1..2 : w[i] = 0
        OBVIOUS
    <2>2. \A i \in n + 1..2 : w[i] \in S
        BY <2>1
    <2> HIDE DEF w, S
    <2>3. /\ z \in Seq(S) /\ Len(z) = IF n + 1 <= 2 THEN 2 - (n + 1) + 1 ELSE 0
          /\ \A i \in 1..2 - (n + 1) + 1 : z[i] = w[n + 1 + i - 1]
        BY <2>2, SubSeqProperties
    <2> QED BY <2>1, <2>3
<1>0. p = b \o z
    BY <1>2 DEF Packet
<1> HIDE DEF z, S, p
<1>4. \A i \in 1..Len(b) + Len(z) : p[i] = IF i <= Len(b) THEN b[i] ELSE z[i - Len(b)]
    BY <1>0, <1>2, <1>3, ConcatProperties
<1>5. \A i \in 1..2 : p[i] = IF i <= n THEN b[i] ELSE 0
    BY <1>2, <1>3, <1>4
<1>6. (p[1] = IF n = 0 THEN 0 ELSE d1) /\ (p[2] = IF n = 2 THEN d2 ELSE 0)
    BY <1>2, <1>5
<1> QED BY <1>2, <1>6 DEF d1, d2, p

\* Before the 32 bits start again a stamp tells its time; a cut one an earlier time.
LEMMA StampTells ==
    ASSUME NEW t, NEW n, NEW b, CutStamp(b, t, n), t < Era
    PROVE  LET told == NtpTime(Packet(b)) - Timezone + NTP_TIMESTAMP_DELTA
           IN  told \in Int /\ told <= t /\ (Len(b) = 2 => told = t)
<1> DEFINE d1 == t \div Digit
           d2 == t % Digit
           p == Packet(b)
           told == NtpTime(p) - Timezone + NTP_TIMESTAMP_DELTA
<1>1. /\ Digit \in Nat \ {0} /\ Timezone \in Int /\ NTP_TIMESTAMP_DELTA \in Nat
      /\ t \in Nat /\ n \in 0..2
    BY NtpAssumption DEF CutStamp
<1>2. d1 \in Nat /\ d2 \in Nat /\ d1 * Digit + d2 = t
    <2>1. t < Digit * Digit /\ t \in Nat /\ Digit \in Nat \ {0}
        BY <1>1 DEF Era
    <2>2. /\ d1 \in 0..Digit-1 /\ d2 \in 0..Digit-1
          /\ d1 * Digit + d2 = t
        BY ONLY <2>1, LengthBytes
    <2> QED BY <1>1, <2>2
<1>3. t % Era = t
    BY <1>1 DEF Era
<1>4. /\ Len(b) = n
      /\ p[1] = IF n = 0 THEN 0 ELSE d1
      /\ p[2] = IF n = 2 THEN d2 ELSE 0
    <2>1. /\ Len(b) = n
          /\ p[1] = IF n = 0 THEN 0 ELSE (t % Era) \div Digit
          /\ p[2] = IF n = 2 THEN t % Digit ELSE 0
        BY PaddedStamp
    <2> QED BY <1>3, <2>1
<1>5. NtpTime(p) = p[1] * Digit + p[2] - NTP_TIMESTAMP_DELTA + Timezone
    <2> HIDE DEF p
    <2> QED BY DEF NtpTime
<1> HIDE DEF d1, d2, p
<1>6. d1 * Digit \in Nat
    BY <1>1, <1>2
<1>7. /\ p[1] * Digit \in Nat /\ p[1] * Digit <= d1 * Digit
      /\ p[2] \in Nat /\ p[2] <= d2
      /\ n = 2 => p[1] * Digit = d1 * Digit /\ p[2] = d2
    BY <1>1, <1>2, <1>4, <1>6
<1>8. told = p[1] * Digit + p[2]
    BY <1>1, <1>5, <1>7
<1> HIDE DEF told
<1>9. told \in Int /\ told <= t /\ (n = 2 => told = t)
    BY <1>2, <1>6, <1>7, <1>8
<1> QED BY <1>4, <1>9 DEF told, p

LEMMA NtpInitial == NtpInit => NtpInv
    BY NtpAssumption DEF NtpInit, NtpInv, AnswersInv, Stamped, InUse

\* An answer stays good while the clock and the used ports only grow.
LEMMA StampedKept ==
    ASSUME NEW a, Stamped(a), clock' \in Nat, clock \in Nat, clock' >= clock,
           usedPorts \subseteq usedPorts',
           \/ UNCHANGED begun /\ InUse \subseteq InUse' \cup usedPorts'
           \/ InUse \subseteq usedPorts'
    PROVE  Stamped(a)'
<1>1. PICK t \in Nat, n \in 0..2 :
          /\ t <= clock /\ a.bytes = SubSeq(Stamp(t), 1, n)
          /\ a.port \in usedPorts \/ (a.port \in InUse /\ t >= begun)
    BY DEF Stamped
<1>2. t <= clock'
    BY <1>1
<1>3. a.port \in usedPorts' \/ (a.port \in InUse' /\ t >= begun')
    BY <1>1
<1> QED BY <1>1, <1>2, <1>3 DEF Stamped

LEMMA NtpCloses ==
    ASSUME NtpInv, Closed, answers' \subseteq answers, UNCHANGED <<clock, begun, asked>>
    PROVE  NtpInv'
<1>1. usedPorts' = usedPorts \cup InUse /\ ntpAt' = "idle" /\ ntpPort' = 0
    BY DEF Closed, InUse
<1>2. clock \in Nat /\ clock' \in Nat /\ clock' >= clock
    BY DEF NtpInv
<1>3. \A a \in answers' : Stamped(a)'
    BY <1>1, <1>2, StampedKept DEF NtpInv, AnswersInv
<1>4. asked' \subseteq usedPorts' \cup InUse'
    BY <1>1 DEF NtpInv
<1> QED BY <1>1, <1>3, <1>4 DEF NtpInv, AnswersInv

LEMMA NtpServe ==
    ASSUME NtpInv, Serve PROVE NtpInv'
<1>1. PICK p \in asked, n \in 0..2 :
          /\ asked' \in {asked, asked \ {p}}
          /\ answers' = answers \cup {[port |-> p, bytes |-> SubSeq(Stamp(clock), 1, n)]}
    BY DEF Serve
<1> DEFINE new == [port |-> p, bytes |-> SubSeq(Stamp(clock), 1, n)]
<1>2. UNCHANGED <<clock, begun, usedPorts, ntpAt, ntpPort>>
    BY DEF Serve, call
<1>3. Stamped(new)
    <2>1. new.port = p /\ new.bytes = SubSeq(Stamp(clock), 1, n)
        OBVIOUS
    <2> HIDE DEF new
    <2>2. clock \in Nat /\ clock <= clock /\ clock >= begun /\ p \in usedPorts \cup InUse
        BY DEF NtpInv
    <2> QED BY <2>1, <2>2 DEF Stamped
<1> HIDE DEF new
<1>4. \A a \in answers' : Stamped(a)
    BY <1>1, <1>3 DEF NtpInv, AnswersInv, new
<1>5. \A a \in answers' : Stamped(a)'
    BY <1>2, <1>4 DEF Stamped, InUse
<1>6. asked' \subseteq usedPorts' \cup InUse'
    BY <1>1, <1>2 DEF NtpInv, InUse
<1> QED BY <1>2, <1>5, <1>6 DEF NtpInv, AnswersInv

LEMMA NtpStep == NtpInv /\ [NtpNext]_ntpVars => NtpInv'
<1> SUFFICES ASSUME NtpInv, [NtpNext]_ntpVars PROVE NtpInv'
    OBVIOUS
<1>1. clock \in Nat /\ begun \in Nat /\ begun <= clock /\ AnswersInv
    BY DEF NtpInv
<1>2. CASE NtpCall
    <2>1. /\ InUse = {} /\ ntpPort' = 0 /\ ntpAt' = "resolve" /\ begun' = clock
          /\ UNCHANGED <<clock, asked, answers, usedPorts>>
        BY <1>2 DEF NtpCall, network, NtpInv, InUse
    <2>2. \A a \in answers' : Stamped(a)'
        BY <1>1, <2>1, StampedKept DEF AnswersInv
    <2> QED BY <1>1, <2>1, <2>2 DEF NtpInv, AnswersInv
<1>3. CASE Resolve \/ OpenUdp \/ SetLimit
    <2>1. /\ ntpAt' \in {"socket", "limit", "connect"} /\ ntpPort = 0 /\ ntpPort' = 0
          /\ UNCHANGED <<clock, asked, answers, usedPorts, begun>>
        BY <1>3 DEF Resolve, OpenUdp, SetLimit, Step, network, call, NtpInv
    <2>2. InUse' = InUse
        BY <2>1 DEF InUse
    <2>3. \A a \in answers' : Stamped(a)'
        BY <1>1, <2>1, <2>2, StampedKept DEF AnswersInv
    <2> QED BY <1>1, <2>1, <2>2, <2>3 DEF NtpInv, AnswersInv
<1>4. CASE ConnectUdp
    <2>1. /\ ntpAt' = "send" /\ ntpPort' \in Ports /\ InUse = {}
          /\ UNCHANGED <<clock, asked, answers, usedPorts, begun>>
        BY <1>4 DEF ConnectUdp, network, call, NtpInv, InUse
    <2>2. \A a \in answers' : Stamped(a)'
        BY <1>1, <2>1, StampedKept DEF AnswersInv
    <2> QED BY <1>1, <2>1, <2>2 DEF NtpInv, AnswersInv
<1>5. CASE SendPacket
    <2>1. /\ ntpAt' = "recv" /\ ntpPort' = ntpPort /\ ntpPort \in Ports
          /\ asked' = asked \cup {ntpPort}
          /\ UNCHANGED <<clock, answers, usedPorts, begun>>
        BY <1>5 DEF SendPacket, call, NtpInv
    <2>2. InUse' = InUse /\ ntpPort \in InUse
        BY <2>1, NtpAssumption DEF InUse
    <2>3. \A a \in answers' : Stamped(a)'
        BY <1>1, <2>1, <2>2, StampedKept DEF AnswersInv
    <2> QED BY <1>1, <2>1, <2>2, <2>3 DEF NtpInv, AnswersInv
<1>6. ASSUME NEW a \in answers, RecvPacket(a) PROVE NtpInv'
    <2>1. Closed /\ answers' \subseteq answers /\ UNCHANGED <<clock, begun, asked>>
        BY <1>6 DEF RecvPacket, call
    <2> QED BY <2>1, NtpCloses
<1>7. CASE NtpFails \/ RecvExpires
    <2>1. Closed /\ answers' \subseteq answers /\ UNCHANGED <<clock, begun, asked>>
        BY <1>7 DEF NtpFails, RecvExpires, call, network
    <2> QED BY <2>1, NtpCloses
<1>8. CASE ClockTick
    <2>1. clock' = clock + 1 /\ UNCHANGED <<ntpAt, ntpPort, asked, answers, usedPorts, begun>>
        BY <1>8 DEF ClockTick, call
    <2>2. InUse' = InUse /\ clock' \in Nat /\ clock' >= clock /\ begun' <= clock'
        BY <1>1, <2>1 DEF InUse
    <2>3. \A a \in answers' : Stamped(a)'
        BY <1>1, <2>1, <2>2, StampedKept DEF AnswersInv
    <2> QED BY <1>1, <2>1, <2>2, <2>3 DEF NtpInv, AnswersInv
<1>9. CASE UNCHANGED ntpVars
    BY <1>9 DEF ntpVars, NtpInv, AnswersInv, Stamped, InUse
<1> QED
    BY <1>2, <1>3, <1>4, <1>5, <1>6, <1>7, <1>8, <1>9, NtpServe DEF NtpNext

\* What ntp() makes of an answer it may receive
LEMMA NtpTold ==
    ASSUME NtpInv, NEW a \in answers, RecvPacket(a), clock < Era
    PROVE  LET told == ntpOut' - Timezone + NTP_TIMESTAMP_DELTA
           IN  /\ told <= clock
               /\ Len(a.bytes) = 2 /\ ntpPort \notin usedPorts => told >= begun
<1>1. PICK t \in Nat, n \in 0..2 :
          /\ t <= clock /\ a.bytes = SubSeq(Stamp(t), 1, n)
          /\ a.port \in usedPorts \/ (a.port \in InUse /\ t >= begun)
    BY DEF NtpInv, AnswersInv, Stamped
<1> DEFINE told == ntpOut' - Timezone + NTP_TIMESTAMP_DELTA
           b == a.bytes
<1>2. clock \in Nat /\ begun \in Nat /\ Era \in Nat /\ t < Era
    BY <1>1, NtpAssumption DEF NtpInv, Era
<1>3. told \in Int /\ told <= t /\ (Len(b) = 2 => told = t)
    <2>1. ntpOut' = NtpTime(Packet(b))
        BY DEF RecvPacket
    <2>2. CutStamp(b, t, n)
        BY <1>1 DEF CutStamp
    <2> HIDE DEF b
    <2> QED BY <1>2, <2>1, <2>2, StampTells
<1> HIDE DEF told, b
<1>4. told <= clock
    BY <1>1, <1>2, <1>3
<1>5. ntpPort \notin usedPorts => t >= begun
    BY <1>1 DEF RecvPacket, InUse
<1>6. Len(b) = 2 /\ ntpPort \notin usedPorts => told >= begun
    BY <1>2, <1>3, <1>5
<1> QED BY <1>4, <1>6 DEF told, b

(* A time ntp() returns is not ahead of the true one, and from a new port, whole *)
(* and before the 32 bits start again, no older than the call. (ntp.c 94-176)    *)
THEOREM NtpTimeFresh == NtpSpec => TimeFresh
<1>1. NtpInv => \A a \in answers : RecvPacket(a) /\ clock < Era =>
          LET told == ntpOut' - Timezone + NTP_TIMESTAMP_DELTA
          IN  /\ told <= clock
              /\ Len(a.bytes) = 2 /\ ntpPort \notin usedPorts => told >= begun
    BY NtpTold
<1> QED BY <1>1, NtpInitial, NtpStep, PTL DEF NtpSpec, TimeFresh
-----------------------------------------------------------------------------
(* Serial: the bytes on their way out *)

OutputInv ==
    /\ outq \in Seq(Nat) /\ todo \in Seq(Nat) /\ line \in Seq(Nat) /\ accepted \in Seq(Nat)
    /\ "out" \notin purged =>
          /\ serAt # "closed" => line \o outq = accepted
          /\ drained => outq = <<>> /\ todo = <<>> /\ line = accepted
          /\ serAt # "writing" => todo = <<>>

\* A byte that leaves one queue for the other's end keeps its turn.
LEMMA ByteMoves ==
    ASSUME NEW S, NEW s \in Seq(S), NEW t \in Seq(S), t # <<>>
    PROVE  Append(s, Head(t)) \o Tail(t) = s \o t
<1> DEFINE h == Head(t)
           u == Tail(t)
<1>1. h \in S /\ u \in Seq(S) /\ t = <<h>> \o u
    <2>1. h \in S /\ u \in Seq(S) /\ Len(u) = Len(t) - 1 /\ Len(t) \in Nat \ {0}
          /\ \A i \in 1..Len(u) : u[i] = t[i + 1]
        BY HeadTailProperties, EmptySeq
    <2>2. h = t[1]
        BY <2>1
    <2>3. <<h>> \in Seq(S) /\ Len(<<h>>) = 1 /\ <<h>>[1] = h
        BY <2>1
    <2> HIDE DEF h, u
    <2>4. /\ <<h>> \o u \in Seq(S) /\ Len(<<h>> \o u) = 1 + Len(u)
          /\ \A i \in 1..1 + Len(u) : (<<h>> \o u)[i] = IF i <= 1 THEN <<h>>[i] ELSE u[i - 1]
        BY <2>1, <2>3, ConcatProperties
    <2>5. Len(<<h>> \o u) = Len(t)
        BY <2>1, <2>4
    <2>6. ASSUME NEW i \in 1..Len(t) PROVE t[i] = (<<h>> \o u)[i]
        <3>1. CASE i = 1
            BY <2>1, <2>2, <2>3, <2>4, <3>1
        <3>2. CASE i # 1
            <4>1. i - 1 \in 1..Len(u) /\ (i - 1) + 1 = i /\ ~(i <= 1) /\ i \in 1..1 + Len(u)
                BY <2>1, <3>2
            <4> QED BY <2>1, <2>4, <4>1
        <3> QED BY <3>1, <3>2
    <2>7. t = <<h>> \o u
        BY <2>4, <2>5, <2>6, SeqEqual
    <2> QED BY <2>1, <2>7
<1>2. Append(s, h) = s \o <<h>> /\ <<h>> \in Seq(S)
    BY <1>1, AppendIsConcat
<1> HIDE DEF h, u
<1>3. (s \o <<h>>) \o u = s \o (<<h>> \o u)
    BY <1>1, <1>2, JoinAssociates, SMTT(60)
<1> QED BY <1>1, <1>2, <1>3 DEF h, u

LEMMA ByteJoins ==
    ASSUME NEW S, NEW s \in Seq(S), NEW t \in Seq(S), NEW e \in S
    PROVE  s \o Append(t, e) = Append(s \o t, e)
<1>1. <<e>> \in Seq(S) /\ s \o t \in Seq(S)
    BY ConcatProperties
<1>2. Append(t, e) = t \o <<e>> /\ Append(s \o t, e) = (s \o t) \o <<e>>
    BY <1>1, AppendIsConcat
<1>3. (s \o t) \o <<e>> = s \o (t \o <<e>>)
    BY <1>1, JoinAssociates, SMTT(60)
<1> QED BY <1>2, <1>3

LEMMA OutputStep == OutputInv /\ [SerNext]_serVars => OutputInv'
<1> SUFFICES ASSUME OutputInv, [SerNext]_serVars PROVE OutputInv'
    OBVIOUS
<1>1. /\ outq \in Seq(Nat) /\ todo \in Seq(Nat) /\ line \in Seq(Nat) /\ accepted \in Seq(Nat)
      /\ Len(accepted) \in Nat /\ <<>> \in Seq(Nat) /\ line \o <<>> = line
      /\ <<>> \o <<>> = <<>>
    BY EmptySeq, ConcatEmptySeq, LenProperties DEF OutputInv
<1>2. CASE SerialOpen
    BY <1>1, <1>2 DEF SerialOpen, OutputInv
<1>3. CASE SetUp \/ SerialRecv \/ SelectReturns \/ SerialDrain
    <2>1. /\ serAt # "closed" /\ serAt # "writing" /\ serAt' # "writing"
          /\ UNCHANGED <<outq, todo, line, accepted, drained, purged>>
        BY <1>3 DEF SetUp, SerialRecv, SelectReturns, SerialDrain, output
    <2> QED BY <2>1 DEF OutputInv
<1>4. CASE SerialSend
    <2>1. PICK n \in SendSizes : todo' = [k \in 1..n |-> Len(accepted) + k]
        BY <1>4 DEF SerialSend
    <2>2. n \in Nat
        BY SerialAssumption
    <2>3. \A k \in 1..n : Len(accepted) + k \in Nat
        BY <1>1, <2>2
    <2>4. todo' \in Seq(Nat)
        BY <2>1, <2>2, <2>3
    <2> QED BY <1>4, <2>4 DEF SerialSend, OutputInv
<1>5. CASE WriteByte
    <2>1. /\ serAt = "writing" /\ todo # <<>>
          /\ outq' = Append(outq, Head(todo)) /\ accepted' = Append(accepted, Head(todo))
          /\ todo' = Tail(todo) /\ UNCHANGED <<serAt, line, drained, purged>>
        BY <1>5 DEF WriteByte
    <2>2. Head(todo) \in Nat /\ Tail(todo) \in Seq(Nat)
        BY <1>1, <2>1, HeadTailProperties
    <2>3. line \o Append(outq, Head(todo)) = Append(line \o outq, Head(todo))
        <3>1. line \in Seq(Nat) /\ outq \in Seq(Nat) /\ Head(todo) \in Nat
            BY <1>1, <2>2
        <3> QED BY ONLY <3>1, ByteJoins
    <2>4. outq' \in Seq(Nat) /\ accepted' \in Seq(Nat)
        BY <1>1, <2>1, <2>2, AppendProperties
    <2>5. "out" \notin purged => line \o outq = accepted /\ ~drained
        BY <2>1 DEF OutputInv
    <2>6. "out" \notin purged' => line' \o outq' = accepted' /\ ~drained'
        BY <2>1, <2>3, <2>5
    <2> QED BY <1>1, <2>1, <2>2, <2>4, <2>6 DEF OutputInv
<1>6. CASE WriteReturns
    BY <1>1, <1>6 DEF WriteReturns, OutputInv
<1>7. CASE ReadReturns \/ StationSends \/ UNCHANGED serVars
    <2>1. /\ serAt' # "closed" => serAt # "closed"
          /\ serAt' # "writing" => serAt # "writing"
          /\ UNCHANGED <<outq, todo, line, accepted, drained, purged>>
        BY <1>7 DEF ReadReturns, StationSends, serVars, output
    <2> QED BY <2>1 DEF OutputInv
<1>8. CASE SerialFlush
    <2>1. PICK queues \in SUBSET {"in", "out"} \ {{}} :
              Empty(queues) /\ purged' = purged \cup queues
        BY <1>8 DEF SerialFlush
    <2>2. UNCHANGED <<serAt, todo, line, accepted, drained>>
        BY <1>8 DEF SerialFlush
    <2>3. outq' \in Seq(Nat) /\ ("out" \notin purged' => "out" \notin purged /\ outq' = outq)
        BY <1>1, <2>1 DEF Empty, Queues
    <2> QED BY <1>1, <2>2, <2>3 DEF OutputInv
<1>9. CASE DrainReturns
    <2>1. /\ serAt = "draining" /\ serAt' = "ready" /\ drained' \in {drained} \cup {outq = <<>>}
          /\ UNCHANGED <<outq, todo, line, accepted, purged>>
        BY <1>9 DEF DrainReturns
    <2>2. "out" \notin purged' /\ drained' => outq' = <<>> /\ todo' = <<>> /\ line' = accepted'
        BY <1>1, <2>1 DEF OutputInv
    <2> QED BY <1>1, <2>1, <2>2 DEF OutputInv
<1>10. CASE SerialClose
    <2>1. /\ serAt = "ready" /\ serAt' = "closed" /\ outq' = <<>>
          /\ UNCHANGED <<todo, line, accepted, drained, purged>>
        BY <1>10 DEF SerialClose, Empty, Queues
    <2> QED BY <1>1, <2>1 DEF OutputInv
<1>11. CASE Transmit
    <2>1. /\ outq # <<>> /\ line' = Append(line, Head(outq)) /\ outq' = Tail(outq)
          /\ UNCHANGED <<serAt, todo, accepted, drained, purged>>
        BY <1>11 DEF Transmit
    <2>2. Head(outq) \in Nat /\ Tail(outq) \in Seq(Nat)
        BY <1>1, <2>1, HeadTailProperties
    <2>3. line' \o outq' = line \o outq
        BY <1>1, <2>1, ByteMoves
    <2>4. line' \in Seq(Nat)
        BY <1>1, <2>1, <2>2, AppendProperties
    <2> QED BY <1>1, <2>1, <2>2, <2>3, <2>4 DEF OutputInv
<1> QED
    BY <1>2, <1>3, <1>4, <1>5, <1>6, <1>7, <1>8, <1>9, <1>10, <1>11 DEF SerNext

-----------------------------------------------------------------------------
(* Serial: the bytes that came *)

Shown(bytes) == [k \in DOMAIN bytes |-> Stripped(bytes[k])]

InputInv ==
    /\ inq \in Seq(Nat) /\ came \in Seq(Nat) /\ taken \in Seq(Nat)
    /\ "in" \notin purged /\ serAt # "closed" => taken \o inq = Shown(came)

LEMMA StrippedByte == ASSUME NEW b \in Nat PROVE Stripped(b) \in Nat
    BY SerialAssumption DEF Stripped

LEMMA ShownGrows ==
    ASSUME NEW s \in Seq(Nat), NEW b \in Nat
    PROVE  Shown(Append(s, b)) = Append(Shown(s), Stripped(b)) /\ Shown(s) \in Seq(Nat)
<1> DEFINE n == Len(s)
           x == Append(s, b)
<1>1. /\ n \in Nat /\ DOMAIN s = 1..n /\ \A k \in 1..n : s[k] \in Nat
      /\ x \in Seq(Nat) /\ Len(x) = n + 1 /\ x[n + 1] = b /\ \A k \in 1..n : x[k] = s[k]
    BY LenProperties, AppendProperties, ElementOfSeq
<1>2. DOMAIN x = 1..n + 1
    BY <1>1, LenProperties
<1> HIDE DEF x
<1>3. /\ Shown(s) = [k \in 1..n |-> Stripped(s[k])]
      /\ \A k \in 1..n : Stripped(s[k]) \in Nat
    BY <1>1, StrippedByte DEF Shown
<1>4. Shown(s) \in Seq(Nat) /\ Len(Shown(s)) = n
    <2> HIDE DEF n
    <2> QED BY <1>1, <1>3
<1>5. /\ Shown(x) = [k \in 1..n + 1 |-> Stripped(x[k])]
      /\ \A k \in 1..n + 1 : Stripped(x[k]) \in Nat
    <2>1. \A k \in 1..n + 1 : x[k] \in Nat
        BY <1>1, ElementOfSeq
    <2> QED BY <1>2, <2>1, StrippedByte DEF Shown
<1>6. Shown(x) \in Seq(Nat) /\ Len(Shown(x)) = n + 1
    <2> HIDE DEF n
    <2> QED BY <1>1, <1>5
<1> DEFINE y == Append(Shown(s), Stripped(b))
<1>7. /\ y \in Seq(Nat) /\ Len(y) = n + 1 /\ y[n + 1] = Stripped(b)
      /\ \A k \in 1..n : y[k] = Shown(s)[k]
    <2> DEFINE v == Stripped(b)
               z == Shown(s)
    <2>1. v \in Nat /\ z \in Seq(Nat) /\ Len(z) = n
        BY <1>4, StrippedByte
    <2> HIDE DEF v, z
    <2> QED BY <2>1, AppendProperties DEF v, z
<1> HIDE DEF n, y
<1>8. \A k \in 1..n + 1 : Shown(x)[k] = y[k]
    BY <1>1, <1>3, <1>5, <1>7
<1>9. Shown(x) = y
    BY <1>6, <1>7, <1>8, SeqEqual
<1> QED BY <1>4, <1>9 DEF x, y

LEMMA InputStep == InputInv /\ [SerNext]_serVars => InputInv'
<1> SUFFICES ASSUME InputInv, [SerNext]_serVars PROVE InputInv'
    OBVIOUS
<1>1. /\ inq \in Seq(Nat) /\ came \in Seq(Nat) /\ taken \in Seq(Nat)
      /\ <<>> \in Seq(Nat) /\ <<>> \o <<>> = <<>> /\ DOMAIN <<>> = {}
    BY EmptySeq, ConcatEmptySeq DEF InputInv
<1>2. CASE SerialOpen
    <2>1. inq' = <<>> /\ came' = <<>> /\ taken' = <<>>
        BY <1>2 DEF SerialOpen
    <2>2. Shown(came)' = <<>>
        BY <2>1, <1>1 DEF Shown
    <2> QED BY <1>1, <2>1, <2>2 DEF InputInv
<1>3. CASE \/ SetUp \/ SerialSend \/ WriteByte \/ WriteReturns \/ SerialRecv
           \/ SelectReturns \/ SerialDrain \/ DrainReturns \/ Transmit \/ UNCHANGED serVars
    <2>1. /\ serAt' # "closed" => serAt # "closed"
          /\ UNCHANGED <<newtio, inq, came, taken, purged>>
        BY <1>3 DEF SetUp, SerialSend, WriteByte, WriteReturns, SerialRecv, SelectReturns,
                    SerialDrain, DrainReturns, Transmit, serVars, input
    <2>2. Shown(came)' = Shown(came)
        BY <2>1 DEF Shown, Stripped
    <2> QED BY <2>1, <2>2 DEF InputInv
<1>4. CASE ReadReturns
    <2> DEFINE n == IF Len(inq) < RecvMax THEN Len(inq) ELSE RecvMax
               a == SubSeq(inq, 1, n)
               b == SubSeq(inq, n + 1, Len(inq))
    <2>1. /\ taken' = taken \o a /\ inq' = b /\ serAt # "closed"
          /\ UNCHANGED <<newtio, came, purged>>
        BY <1>4 DEF ReadReturns
    <2>2. n \in 0..Len(inq)
        BY <1>1, LenProperties, SerialAssumption
    <2> HIDE DEF n
    <2>3. a \in Seq(Nat) /\ b \in Seq(Nat) /\ a \o b = inq
        BY <1>1, <2>2, Cut
    <2> HIDE DEF a, b
    <2>4. (taken \o a) \o b = taken \o (a \o b)
        <3>1. taken \in Seq(Nat) /\ a \in Seq(Nat) /\ b \in Seq(Nat)
            BY <1>1, <2>3
        <3> QED BY <3>1, JoinAssociates, SMTT(60)
    <2>5. taken' \in Seq(Nat)
        BY <1>1, <2>1, <2>3, ConcatProperties
    <2>6. taken' \o inq' = taken \o inq
        BY <2>1, <2>3, <2>4
    <2>7. Shown(came)' = Shown(came)
        BY <2>1 DEF Shown, Stripped
    <2> QED BY <1>1, <2>1, <2>3, <2>5, <2>6, <2>7 DEF InputInv
<1>5. CASE SerialFlush
    <2>1. PICK queues \in SUBSET {"in", "out"} \ {{}} :
              Empty(queues) /\ purged' = purged \cup queues
        BY <1>5 DEF SerialFlush
    <2>2. UNCHANGED <<serAt, newtio, came, taken>>
        BY <1>5 DEF SerialFlush
    <2>3. inq' \in Seq(Nat) /\ ("in" \notin purged' => "in" \notin purged /\ inq' = inq)
        BY <1>1, <2>1 DEF Empty, Queues
    <2>4. Shown(came)' = Shown(came)
        BY <2>2 DEF Shown, Stripped
    <2> QED BY <1>1, <2>2, <2>3, <2>4 DEF InputInv
<1>6. CASE SerialClose
    <2>1. serAt' = "closed" /\ inq' = <<>> /\ UNCHANGED <<came, taken>>
        BY <1>6 DEF SerialClose, Empty, Queues
    <2> QED BY <1>1, <2>1 DEF InputInv
<1>7. CASE StationSends
    <2>1. PICK b \in 0..(2 * TopBit - 1) :
              came' = Append(came, b) /\ inq' = Append(inq, Stripped(b))
        BY <1>7 DEF StationSends
    <2>2. UNCHANGED <<serAt, newtio, taken, purged>>
        BY <1>7 DEF StationSends
    <2>3. b \in Nat /\ Stripped(b) \in Nat
        BY SerialAssumption, StrippedByte
    <2>4. Shown(came)' = Append(Shown(came), Stripped(b))
        <3>1. Shown(came)' = Shown(Append(came, b))
            BY <2>1, <2>2 DEF Shown, Stripped
        <3> QED BY <1>1, <2>3, <3>1, ShownGrows
    <2>5. taken \o Append(inq, Stripped(b)) = Append(taken \o inq, Stripped(b))
        <3>1. taken \in Seq(Nat) /\ inq \in Seq(Nat) /\ Stripped(b) \in Nat
            BY <1>1, <2>3
        <3> QED BY ONLY <3>1, ByteJoins
    <2>6. came' \in Seq(Nat) /\ inq' \in Seq(Nat)
        BY <1>1, <2>1, <2>3, AppendProperties
    <2>7. "in" \notin purged /\ serAt # "closed" => taken \o inq = Shown(came)
        BY DEF InputInv
    <2>8. "in" \notin purged' /\ serAt' # "closed" => taken' \o inq' = Shown(came)'
        BY <2>1, <2>2, <2>4, <2>5, <2>7
    <2> QED BY <1>1, <2>2, <2>6, <2>8 DEF InputInv
<1> QED BY <1>2, <1>3, <1>4, <1>5, <1>6, <1>7 DEF SerNext

(* The bytes that go out and those that come in are neither lost nor doubled,  *)
(* and after a drain all of the output is on the line. (serial.c 72-164)       *)
THEOREM SerialDrainedSent == SerSpec => []DrainedSent
<1>1. SerInit => OutputInv /\ InputInv
    <2> SUFFICES ASSUME SerInit PROVE OutputInv /\ InputInv
        OBVIOUS
    <2>1. <<>> \in Seq(Nat) /\ <<>> \o <<>> = <<>> /\ Shown(<<>>) = <<>>
        BY EmptySeq, ConcatEmptySeq DEF Shown
    <2> QED BY <2>1 DEF SerInit, OutputInv, InputInv
<1>2. OutputInv /\ InputInv => DrainedSent
    <2> SUFFICES ASSUME OutputInv, InputInv PROVE DrainedSent
        OBVIOUS
    <2>1. Len(outq) = 0 => outq = <<>>
        BY EmptySeq DEF OutputInv
    <2>2. line \o <<>> = line
        BY ConcatEmptySeq DEF OutputInv
    <2>3. "in" \notin purged /\ serAt # "closed" =>
              taken \o inq = [k \in DOMAIN came |-> Stripped(came[k])]
        BY DEF InputInv, Shown
    <2>4. "out" \notin purged =>
              /\ serAt # "closed" => line \o outq = accepted
              /\ drained \/ (serAt = "ready" /\ HasBuffer("out") = 0) => line = accepted
        BY <2>1, <2>2 DEF OutputInv, HasBuffer
    <2> QED BY <2>3, <2>4 DEF DrainedSent
<1> QED BY <1>1, <1>2, OutputStep, InputStep, PTL DEF SerSpec
=============================================================================
