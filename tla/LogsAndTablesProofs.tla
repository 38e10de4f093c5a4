------------------------ MODULE LogsAndTablesProofs ------------------------
(***************************************************************************)
(* What the program records and keeps: a reader of the log table misses no    *)
(* row, the log sink loses no handle and keeps the order of messages, an item  *)
(* of the settings is what was saved, and a backup is whole. For any page size  *)
(* and any rotations, keys and values, and any number of calls, failures and     *)
(* crashes.                                                                        *)
(***************************************************************************)
EXTENDS LogTable, LogSink, Settings, Backup, SequenceTheorems, FiniteSetTheorems, TLAPS

(* The log table. *)

LogTypeOK ==
    /\ logs \in Seq(Row) /\ inserted \in Nat
    /\ page \in Nat /\ cursor \in Nat /\ rest \in Nat
    /\ seen \in Seq(Nat) /\ start \subseteq Nat
    /\ page = 0 => cursor = 0
    /\ cursor > 0 => rest < Limit

\* Rows are in the order of their rowids and of their messages.
Sorted ==
    /\ \A k \in DOMAIN logs : logs[k].message <= inserted
    /\ \A m \in start : m <= inserted
    /\ \A j, k \in DOMAIN logs :
          j < k => logs[j].rowid < logs[k].rowid /\ logs[j].message < logs[k].message

\* Rows of the table, the newest, that the pages so far have passed
Passed == Offset(page) + (Limit - rest)

\* Is there a row left that was there when the reader began? Then the table was
\* never empty since, and rowids did not start again.
Remains == \E k \in DOMAIN logs : logs[k].message \in start

\* What was there when the reader began and is passed, is shown.
MissInv ==
    /\ cursor > 0 =>
        /\ \A k \in DOMAIN logs :
              logs[k].message \in start /\ logs[k].rowid >= cursor => logs[k].message \in Shown
        /\ Remains => /\ cursor <= logs[Len(logs)].rowid
                      /\ \A k \in DOMAIN logs :
                            logs[k].rowid < cursor => k <= Len(logs) - Passed
    /\ cursor = 0 /\ page > 0 =>
        \A k \in DOMAIN logs :
            k > Len(logs) - Offset(page) /\ logs[k].message \in start => logs[k].message \in Shown

\* What is not passed is older than what is shown.
TwiceInv ==
    fresh =>
        /\ \A j, k \in DOMAIN seen : j < k => seen[k] < seen[j]
        /\ cursor > 0 => \A k \in DOMAIN logs :
              /\ logs[k].rowid < cursor => \A m \in Shown : logs[k].message < m
              /\ k <= Len(logs) - Passed => logs[k].rowid < cursor
        /\ cursor = 0 /\ page > 0 => \A k \in DOMAIN logs :
              k <= Len(logs) - Offset(page) => \A m \in Shown : logs[k].message < m

LogInv == LogTypeOK /\ Sorted /\ MissInv /\ TwiceInv

LEMMA Pages ==
    /\ Limit \in Nat \ {0} /\ Offset(1) = 0
    /\ \A p \in Nat \ {0} : Offset(p) \in Nat
<1>1. \A p \in Nat \ {0} : p - 1 \in Nat
    OBVIOUS
<1>2. \A c, q \in Nat : c * q \in Nat /\ c * 0 = 0
    OBVIOUS
<1>3. CountPerPage \in Nat /\ CountPerPage \in Nat \ {0}
    BY PageAssumption
<1> QED BY <1>1, <1>2, <1>3 DEF Offset, Limit

LEMMA NextPage ==
    ASSUME NEW p \in Nat \ {0} PROVE Offset(p + 1) = Offset(p) + Limit
<1>1. p - 1 \in Nat /\ (p + 1) - 1 = (p - 1) + 1
    OBVIOUS
<1>2. \A c, q \in Nat : c * (q + 1) = c * q + c
    OBVIOUS
<1> QED BY <1>1, <1>2, PageAssumption DEF Offset, Limit

LEMMA LogRows ==
    ASSUME LogTypeOK
    PROVE  /\ Len(logs) \in Nat /\ DOMAIN logs = 1..Len(logs)
           /\ \A k \in DOMAIN logs : logs[k].rowid \in Nat \ {0} /\ logs[k].message \in Nat \ {0}
           /\ Len(seen) \in Nat /\ DOMAIN seen = 1..Len(seen) /\ \A k \in DOMAIN seen : seen[k] \in Nat
<1>1. /\ Len(logs) \in Nat /\ DOMAIN logs = 1..Len(logs)
      /\ Len(seen) \in Nat /\ DOMAIN seen = 1..Len(seen)
    BY LenProperties DEF LogTypeOK
<1>2. \A k \in DOMAIN logs : logs[k] \in Row
    BY <1>1, ElementOfSeq DEF LogTypeOK
<1>3. \A k \in DOMAIN seen : seen[k] \in Nat
    BY <1>1, ElementOfSeq DEF LogTypeOK
<1> QED BY <1>1, <1>2, <1>3 DEF Row

LEMMA LogInitial == Init => LogInv
<1> SUFFICES ASSUME Init PROVE LogInv
    OBVIOUS
<1>1. /\ logs \in Seq(Row) /\ seen \in Seq(Nat)
      /\ DOMAIN logs = {} /\ DOMAIN seen = {}
    BY EmptySeq DEF Init
<1> QED BY <1>1 DEF Init, LogInv, LogTypeOK, Sorted, MissInv, TwiceInv

\* One row more in seen
LEMMA SeenOneMore ==
    ASSUME LogTypeOK, NEW m \in Nat, seen' = Append(seen, m)
    PROVE  /\ seen' \in Seq(Nat) /\ Shown' = Shown \cup {m}
           /\ (\A j, k \in DOMAIN seen : j < k => seen[k] < seen[j]) /\ (\A s \in Shown : m < s)
                 => \A j, k \in DOMAIN seen' : j < k => seen'[k] < seen'[j]
<1> DEFINE n == Len(seen)
<1>1. /\ n \in Nat /\ DOMAIN seen = 1..n
      /\ \A k \in 1..n : seen[k] \in Shown
    BY LogRows DEF Shown
<1>2. /\ seen' \in Seq(Nat) /\ DOMAIN seen' = 1..(n + 1) /\ seen'[n + 1] = m
      /\ \A k \in 1..n : seen'[k] = seen[k]
    BY AppendProperties, LenProperties DEF LogTypeOK
<1> HIDE DEF n
<1>3. Shown' = Shown \cup {m}
    <2>1. ASSUME NEW s PROVE s \in Shown' <=> s \in Shown \/ s = m
        <3>1. s \in Shown' <=> \E k \in 1..(n + 1) : s = seen'[k]
            BY <1>2 DEF Shown
        <3>2. s \in Shown <=> \E k \in 1..n : s = seen[k]
            BY <1>1 DEF Shown
        <3>3. \A k \in 1..(n + 1) : k \in 1..n \/ k = n + 1
            BY <1>1
        <3>4. \A k \in 1..n : k \in 1..(n + 1)
            BY <1>1
        <3>5. n + 1 \in 1..(n + 1)
            BY <1>1
        <3> QED BY <1>2, <3>1, <3>2, <3>3, <3>4, <3>5
    <2> QED BY <2>1
<1> QED BY <1>1, <1>2, <1>3

LEMMA LogInsert ==
    ASSUME LogInv, Insert PROVE LogInv'
<1> DEFINE n == Len(logs)
           r == [rowid |-> Rowid, message |-> inserted + 1]
<1>1. n \in Nat /\ DOMAIN logs = 1..n
      /\ \A k \in 1..n : logs[k].rowid \in Nat \ {0} /\ logs[k].message \in Nat \ {0}
    BY LogRows DEF LogInv
<1>2. Rowid \in Nat \ {0} /\ (n # 0 => Rowid = logs[n].rowid + 1)
    BY <1>1, EmptySeq DEF Rowid, LogInv, LogTypeOK
<1>3. r \in Row /\ r.rowid = Rowid /\ r.message = inserted + 1
    BY <1>2 DEF Row, LogInv, LogTypeOK
<1> HIDE DEF r
<1>4. /\ logs' \in Seq(Row) /\ Len(logs') = n + 1 /\ DOMAIN logs' = 1..(n + 1)
      /\ logs'[n + 1] = r
      /\ \A k \in 1..n : logs'[k] = logs[k]
    BY <1>3, AppendProperties, LenProperties DEF Insert, r, LogInv, LogTypeOK
<1> HIDE DEF n
<1>5. /\ inserted \in Nat /\ inserted' = inserted + 1 /\ fresh' = FALSE
      /\ page' = page /\ cursor' = cursor /\ rest' = rest /\ seen' = seen /\ start' = start
      /\ Shown' = Shown /\ Passed' = Passed /\ Offset(page)' = Offset(page)
    BY DEF Insert, reader, Shown, Passed, Offset, LogInv, LogTypeOK
<1>6. LogTypeOK'
    BY <1>4, <1>5 DEF LogInv, LogTypeOK, Limit
<1>7. Sorted'
    <2>1. \A k \in 1..n : k # n => logs[k].rowid < logs[n].rowid
        BY <1>1 DEF LogInv, Sorted
    <2>2. \A k \in 1..n : logs[k].rowid < Rowid
        BY <1>1, <1>2, <2>1
    <2>3. \A k \in 1..n : logs[k].message <= inserted
        BY <1>1 DEF LogInv, Sorted
    <2>4. \A k \in DOMAIN logs' : logs'[k].message <= inserted'
        BY <1>1, <1>3, <1>4, <1>5, <2>3
    <2>5. \A m \in start' : m <= inserted'
        BY <1>5 DEF LogInv, Sorted, LogTypeOK
    <2>6. ASSUME NEW j \in DOMAIN logs', NEW k \in DOMAIN logs', j < k
          PROVE  logs'[j].rowid < logs'[k].rowid /\ logs'[j].message < logs'[k].message
        <3>1. CASE k \in 1..n
            <4>1. j \in 1..n
                BY <1>1, <1>4, <2>6, <3>1
            <4> QED BY <1>1, <1>4, <2>6, <3>1, <4>1 DEF LogInv, Sorted
        <3>2. CASE k = n + 1
            BY <1>1, <1>3, <1>4, <1>5, <2>2, <2>3, <2>6, <3>2
        <3> QED BY <1>1, <1>4, <3>1, <3>2
    <2> QED BY <2>4, <2>5, <2>6 DEF Sorted
<1>8. inserted + 1 \notin start
    BY <1>5 DEF LogInv, Sorted
<1>9. Remains' => Remains /\ n # 0
    BY <1>1, <1>3, <1>4, <1>5, <1>8 DEF Remains
<1>10. page > 0 => Offset(page) \in Nat
    BY Pages DEF LogInv, LogTypeOK
<1>11. MissInv'
    <2>1. ASSUME cursor > 0
          PROVE  \A k \in DOMAIN logs' :
                    logs'[k].message \in start /\ logs'[k].rowid >= cursor => logs'[k].message \in Shown
        BY <1>1, <1>3, <1>4, <1>8, <2>1 DEF LogInv, MissInv
    <2>2. ASSUME cursor > 0, Remains'
          PROVE  cursor <= logs'[n + 1].rowid
                 /\ \A k \in DOMAIN logs' : logs'[k].rowid < cursor => k <= (n + 1) - Passed
        <3>1. cursor <= logs[n].rowid /\ \A k \in 1..n : logs[k].rowid < cursor => k <= n - Passed
            BY <1>1, <1>9, <2>2 DEF LogInv, MissInv, n
        <3>2. Passed \in Int
            BY <1>5, <1>10, Pages, <2>2 DEF Passed, LogInv, LogTypeOK
        <3>3. logs[n].rowid \in Nat /\ logs'[n + 1].rowid = logs[n].rowid + 1 /\ cursor \in Nat
            BY <1>1, <1>2, <1>3, <1>4, <1>9, <2>2 DEF LogInv, LogTypeOK
        <3>4. ASSUME NEW k \in DOMAIN logs', logs'[k].rowid < cursor
              PROVE  k <= (n + 1) - Passed
            <4>1. k \in 1..n
                BY <1>1, <1>4, <3>1, <3>3, <3>4
            <4> QED BY <1>1, <1>4, <3>1, <3>2, <3>4, <4>1
        <3> QED BY <3>1, <3>3, <3>4
    <2>3. ASSUME cursor = 0, page > 0, NEW k \in DOMAIN logs', k > (n + 1) - Offset(page),
                 logs'[k].message \in start
          PROVE  logs'[k].message \in Shown
        <3>1. k \in 1..n /\ k > n - Offset(page)
            BY <1>1, <1>3, <1>4, <1>8, <1>10, <2>3
        <3> QED BY <1>1, <1>4, <2>3, <3>1 DEF LogInv, MissInv, n
    <2> QED BY <1>4, <1>5, <2>1, <2>2, <2>3 DEF MissInv
<1>12. TwiceInv'
    BY <1>5 DEF TwiceInv
<1> QED BY <1>6, <1>7, <1>11, <1>12 DEF LogInv

\* A rotation drops the d oldest rows.
LEMMA LogRotate ==
    ASSUME LogInv, NEW i \in Remaining, Rotate(i) PROVE LogInv'
<1> DEFINE n == Len(logs)
           d == n - Len(logs')
<1>1. n \in Nat /\ DOMAIN logs = 1..n
      /\ \A k \in 1..n : logs[k].rowid \in Nat \ {0} /\ logs[k].message \in Nat \ {0}
    BY LogRows DEF LogInv
<1>2. i \in Nat
    BY RemainingAssumption
<1>3. /\ logs' \in Seq(Row) /\ Len(logs') \in Nat /\ DOMAIN logs' = 1..Len(logs')
      /\ d \in Nat
      /\ \A k \in 1..Len(logs') : k + d \in 1..n /\ logs'[k] = logs[k + d]
    <2>1. CASE i < n
        <3> DEFINE r == SubSeq(logs, n - i + 1, n)
        <3>1. /\ r \in Seq(Row) /\ Len(r) = i /\ DOMAIN r = 1..i
              /\ \A k \in 1..i : r[k] = logs[k + (n - i)]
            BY <1>1, <1>2, <2>1, SMT DEF LogInv, LogTypeOK
        <3>2. logs' = r
            BY <2>1 DEF Rotate, Rotated
        <3> HIDE DEF r
        <3>3. Len(logs') = i
            BY <3>1, <3>2
        <3> HIDE DEF n
        <3>4. n - i \in Nat /\ \A k \in 1..i : k + (n - i) \in 1..n
            BY <1>1, <1>2, <2>1
        <3>5. d = n - i
            BY <3>3
        <3> HIDE DEF d
        <3> QED BY <1>2, <3>1, <3>2, <3>3, <3>4, <3>5
    <2>2. CASE ~(i < n)
        BY <1>1, <2>2 DEF Rotate, LogInv, LogTypeOK
    <2> QED BY <2>1, <2>2
<1> HIDE DEF n, d
<1>4. Len(logs') = n - d
    BY <1>1, <1>3 DEF d
<1>5. /\ inserted' = inserted /\ fresh' = fresh
      /\ page' = page /\ cursor' = cursor /\ rest' = rest /\ seen' = seen /\ start' = start
      /\ Shown' = Shown /\ Passed' = Passed /\ Offset(page)' = Offset(page)
    BY DEF Rotate, reader, Shown, Passed, Offset
<1>6. LogTypeOK'
    BY <1>3, <1>5 DEF LogInv, LogTypeOK, Limit
<1>7. Sorted'
    <2>1. \A j, k \in 1..n :
              j < k => logs[j].rowid < logs[k].rowid /\ logs[j].message < logs[k].message
        BY <1>1 DEF LogInv, Sorted
    <2>2. ASSUME NEW j \in 1..Len(logs'), NEW k \in 1..Len(logs'), j < k
          PROVE  logs'[j].rowid < logs'[k].rowid /\ logs'[j].message < logs'[k].message
        <3>1. j + d \in 1..n /\ k + d \in 1..n /\ j + d < k + d
            BY <1>1, <1>3, <2>2
        <3> QED BY <1>3, <2>1, <3>1
    <2>3. \A k \in 1..Len(logs') : logs'[k].message <= inserted
        BY <1>1, <1>3 DEF LogInv, Sorted
    <2> QED BY <1>3, <1>5, <2>2, <2>3 DEF LogInv, Sorted
<1>8. /\ page > 0 => Offset(page) \in Nat
      /\ page > 0 => Passed \in Int
    BY Pages DEF LogInv, LogTypeOK, Passed
<1>9. cursor > 0 => page > 0
    BY DEF LogInv, LogTypeOK
<1>10. Remains' => Remains /\ n - d \in 1..(n - d)
    <2>1. \A k \in DOMAIN logs' : k + d \in DOMAIN logs /\ logs'[k].message = logs[k + d].message
        BY <1>1, <1>3
    <2>2. DOMAIN logs' # {} => n - d \in 1..(n - d)
        BY <1>1, <1>3, <1>4
    <2> QED BY <1>5, <2>1, <2>2 DEF Remains
<1>11. MissInv'
    <2>1. ASSUME cursor > 0
          PROVE  \A k \in DOMAIN logs' :
                    logs'[k].message \in start /\ logs'[k].rowid >= cursor => logs'[k].message \in Shown
        BY <1>1, <1>3, <2>1 DEF LogInv, MissInv
    <2>2. ASSUME cursor > 0, Remains'
          PROVE  cursor <= logs'[n - d].rowid
                 /\ \A k \in DOMAIN logs' : logs'[k].rowid < cursor => k <= (n - d) - Passed
        <3>1. cursor <= logs[n].rowid /\ \A k \in 1..n : logs[k].rowid < cursor => k <= n - Passed
            BY <1>1, <1>10, <2>2 DEF LogInv, MissInv, n
        <3>2. Passed \in Int
            BY <1>8, <1>9, <2>2
        <3>3. logs'[n - d] = logs[n]
            BY <1>1, <1>3, <1>4, <1>10, <2>2
        <3> QED BY <1>1, <1>3, <1>4, <3>1, <3>2, <3>3
    <2>3. ASSUME cursor = 0, page > 0, NEW k \in DOMAIN logs', k > (n - d) - Offset(page),
                 logs'[k].message \in start
          PROVE  logs'[k].message \in Shown
        <3>1. k + d \in 1..n /\ k + d > n - Offset(page) /\ logs'[k] = logs[k + d]
            BY <1>1, <1>3, <1>4, <1>8, <2>3
        <3> QED BY <1>1, <2>3, <3>1 DEF LogInv, MissInv, n
    <2> QED BY <1>4, <1>5, <2>1, <2>2, <2>3 DEF MissInv
<1>12. TwiceInv'
    <2> SUFFICES ASSUME fresh PROVE TwiceInv'
        BY <1>5 DEF TwiceInv
    <2>1. ASSUME cursor > 0, NEW k \in DOMAIN logs'
          PROVE  /\ logs'[k].rowid < cursor => \A m \in Shown : logs'[k].message < m
                 /\ k <= (n - d) - Passed => logs'[k].rowid < cursor
        <3>1. k + d \in 1..n /\ logs'[k] = logs[k + d] /\ (k <= (n - d) - Passed => k + d <= n - Passed)
            BY <1>1, <1>3, <1>8, <1>9, <2>1
        <3> QED BY <1>1, <2>1, <3>1 DEF LogInv, TwiceInv, n
    <2>2. ASSUME cursor = 0, page > 0, NEW k \in DOMAIN logs', k <= (n - d) - Offset(page)
          PROVE  \A m \in Shown : logs'[k].message < m
        <3>1. k + d \in 1..n /\ logs'[k] = logs[k + d] /\ k + d <= n - Offset(page)
            BY <1>1, <1>3, <1>8, <2>2
        <3> QED BY <1>1, <2>2, <3>1 DEF LogInv, TwiceInv, n
    <2> QED BY <1>4, <1>5, <2>1, <2>2 DEF LogInv, TwiceInv
<1> QED BY <1>6, <1>7, <1>11, <1>12 DEF LogInv

-----------------------------------------------------------------------------
(* The reader *)

LEMMA LogRead ==
    ASSUME LogInv, Read PROVE LogInv'
<1>1. Len(logs) \in Nat /\ DOMAIN logs = 1..Len(logs)
      /\ \A k \in DOMAIN logs : logs[k].message \in Nat \ {0}
    BY LogRows DEF LogInv
<1>2. /\ logs' = logs /\ inserted' = inserted /\ cursor' = 0 /\ rest' = rest
      /\ page' = 1 /\ seen' = <<>> /\ start' = Messages
    BY DEF Read, LogInv, LogTypeOK
<1>3. seen' \in Seq(Nat) /\ DOMAIN seen' = {} /\ Shown' = {}
    BY <1>2, EmptySeq DEF Shown
<1>4. Messages \subseteq Nat /\ \A m \in Messages : m <= inserted
    BY <1>1 DEF Messages, LogInv, Sorted
<1>5. LogTypeOK' /\ Sorted'
    BY <1>2, <1>3, <1>4 DEF LogInv, LogTypeOK, Sorted, Limit
<1>6. MissInv' /\ TwiceInv'
    BY <1>1, <1>2, <1>3, Pages DEF MissInv, TwiceInv, Offset
<1> QED BY <1>5, <1>6 DEF LogInv

\* The row at k is shown: those behind it are not passed yet, those before it are.
LEMMA LogShow ==
    ASSUME LogInv, NEW k \in DOMAIN logs, page > 0,
           seen' = Append(seen, logs[k].message), cursor' = logs[k].rowid,
           rest' \in Nat, rest' < Limit,
           UNCHANGED <<logs, inserted, page, start, fresh>>,
           \A n \in DOMAIN logs : n > k /\ logs[n].message \in start => logs[n].message \in Shown,
           Remains => k - 1 <= Len(logs) - Passed',
           fresh => \A s \in Shown : logs[k].message < s,
           fresh => Len(logs) - Passed' <= k - 1
    PROVE  LogInv'
<1>1. /\ Len(logs) \in Nat /\ DOMAIN logs = 1..Len(logs) /\ k \in Nat \ {0}
      /\ \A n \in DOMAIN logs : logs[n].rowid \in Nat \ {0} /\ logs[n].message \in Nat \ {0}
    BY LogRows DEF LogInv
<1>2. /\ seen' \in Seq(Nat) /\ Shown' = Shown \cup {logs[k].message}
      /\ (\A i, j \in DOMAIN seen : i < j => seen[j] < seen[i]) /\ (\A s \in Shown : logs[k].message < s)
                 => \A i, j \in DOMAIN seen' : i < j => seen'[j] < seen'[i]
    BY <1>1, SeenOneMore DEF LogInv
<1>3. LogTypeOK' /\ cursor' > 0
    BY <1>1, <1>2 DEF LogInv, LogTypeOK, Limit
<1>9. Sorted'
    BY DEF LogInv, Sorted
<1>4. /\ \A n \in DOMAIN logs : n < k => logs[n].rowid < logs[k].rowid /\ logs[n].message < logs[k].message
      /\ \A n \in DOMAIN logs : n > k => logs[k].rowid < logs[n].rowid
    BY DEF LogInv, Sorted
<1>5. \A n \in DOMAIN logs : logs[n].rowid < logs[k].rowid <=> n < k
    BY <1>1, <1>4
<1>6. page > 0 => Passed' \in Int
    <2>1. Offset(page) \in Nat /\ Limit \in Nat
        BY Pages DEF LogInv, LogTypeOK
    <2> QED BY <2>1 DEF Passed, Offset, Limit
<1>7. MissInv'
    <2>1. \A n \in DOMAIN logs : logs[n].message \in start /\ logs[n].rowid >= logs[k].rowid
                                  => logs[n].message \in Shown'
        <3> SUFFICES ASSUME NEW n \in DOMAIN logs, logs[n].message \in start, logs[n].rowid >= logs[k].rowid
                     PROVE  logs[n].message \in Shown'
            OBVIOUS
        <3>1. n = k \/ n > k
            BY <1>1, <1>5
        <3> QED BY <1>2, <3>1
    <2>2. logs[k].rowid <= logs[Len(logs)].rowid
        BY <1>1, <1>4
    <2>3. Remains' => \A n \in DOMAIN logs : logs[n].rowid < logs[k].rowid => n <= Len(logs) - Passed'
        BY <1>1, <1>5, <1>6 DEF Remains
    <2> QED BY <1>3, <2>1, <2>2, <2>3 DEF MissInv, LogInv, LogTypeOK
<1>8. TwiceInv'
    <2> SUFFICES ASSUME fresh PROVE TwiceInv'
        BY DEF TwiceInv
    <2>1. ASSUME NEW n \in DOMAIN logs, logs[n].rowid < logs[k].rowid
          PROVE  \A m \in Shown' : logs[n].message < m
        <3>1. logs[n].message < logs[k].message
            BY <1>4, <1>5, <2>1
        <3>2. \A s \in Shown : s \in Nat
            BY LogRows DEF LogInv, Shown
        <3> QED BY <1>1, <1>2, <3>1, <3>2
    <2>2. ASSUME NEW n \in DOMAIN logs, n <= Len(logs) - Passed' PROVE logs[n].rowid < logs[k].rowid
        BY <1>1, <1>5, <1>6, <2>2
    <2>3. \A i, j \in DOMAIN seen' : i < j => seen'[j] < seen'[i]
        BY <1>2 DEF LogInv, TwiceInv
    <2> QED BY <1>3, <2>1, <2>2, <2>3 DEF TwiceInv
<1> QED BY <1>3, <1>7, <1>8, <1>9 DEF LogInv

LEMMA LogFirstRow ==
    ASSUME LogInv, FirstRow PROVE LogInv'
<1> DEFINE n == Len(logs)
           k == n - Offset(page)
<1>1. /\ n \in Nat /\ DOMAIN logs = 1..n
      /\ page > 0 /\ cursor = 0 /\ Offset(page) < n
      /\ Offset(page) \in Nat /\ Limit \in Nat \ {0}
    BY LogRows, Pages DEF FirstRow, LogInv, LogTypeOK
<1>2. /\ k \in DOMAIN logs
      /\ seen' = Append(seen, logs[k].message) /\ cursor' = logs[k].rowid
      /\ rest' = Limit - 1
      /\ UNCHANGED <<logs, inserted, page, start, fresh>>
    BY <1>1 DEF FirstRow
<1>3. rest' \in Nat /\ rest' < Limit
    BY <1>1, <1>2
<1>4. Passed' = Offset(page) + 1
    <2>1. Passed' = Offset(page) + (Limit - (Limit - 1))
        BY <1>2 DEF Passed, Offset, Limit
    <2> QED BY <1>1, <2>1
<1>5. n - Passed' = k - 1
    BY <1>1, <1>4
<1>6. \A j \in DOMAIN logs : j > k /\ logs[j].message \in start => logs[j].message \in Shown
    BY <1>1 DEF LogInv, MissInv
<1>7. fresh => \A s \in Shown : logs[k].message < s
    BY <1>1, <1>2 DEF LogInv, TwiceInv
<1>8. k - 1 \in Int
    BY <1>1
<1> HIDE DEF k
<1> QED BY <1>1, <1>2, <1>3, <1>5, <1>6, <1>7, <1>8, LogShow

LEMMA LogNextRow ==
    ASSUME LogInv, NextRow PROVE LogInv'
<1> DEFINE n == Len(logs)
<1>1. /\ n \in Nat /\ DOMAIN logs = 1..n
      /\ cursor > 0 /\ rest > 0 /\ rest \in Nat /\ page > 0 /\ rest < Limit /\ cursor \in Nat
      /\ Offset(page) \in Nat /\ Limit \in Nat \ {0}
    BY LogRows, Pages DEF NextRow, LogInv, LogTypeOK
<1>2. \A j \in DOMAIN logs : logs[j].rowid \in Nat
    BY LogRows DEF LogInv
<1>3. PICK k \in Below(cursor) : (\A j \in Below(cursor) : j <= k) /\ Visit(k)
    BY DEF NextRow
<1>6. /\ k \in DOMAIN logs /\ logs[k].rowid < cursor
      /\ seen' = Append(seen, logs[k].message) /\ cursor' = logs[k].rowid
      /\ rest' = rest - 1
      /\ UNCHANGED <<logs, inserted, page, start, fresh>>
    BY <1>3 DEF NextRow, Visit, Below
<1>7. \A j \in DOMAIN logs : logs[j].rowid < cursor => j <= k
    BY <1>3 DEF Below
<1>8. rest' \in Nat /\ rest' < Limit
    BY <1>1, <1>6
<1>9. Passed \in Int /\ Passed' = Passed + 1
    <2>1. Passed' = Offset(page) + (Limit - (rest - 1))
        BY <1>6 DEF Passed, Offset, Limit
    <2> QED BY <1>1, <2>1 DEF Passed
<1>10. \A j \in DOMAIN logs : j > k /\ logs[j].message \in start => logs[j].message \in Shown
    <2> SUFFICES ASSUME NEW j \in DOMAIN logs, j > k, logs[j].message \in start
                 PROVE  logs[j].message \in Shown
        OBVIOUS
    <2>1. logs[j].rowid >= cursor
        BY <1>1, <1>2, <1>6, <1>7
    <2> QED BY <1>1, <2>1 DEF LogInv, MissInv
<1>11. Remains => k - 1 <= n - Passed'
    <2>1. Remains => k <= n - Passed
        BY <1>1, <1>6 DEF LogInv, MissInv
    <2> QED BY <1>1, <1>6, <1>9, <2>1
<1>12. fresh => \A s \in Shown : logs[k].message < s
    BY <1>1, <1>6 DEF LogInv, TwiceInv
<1>13. fresh => n - Passed' <= k - 1
    <2> SUFFICES ASSUME fresh, n - Passed' > k - 1 PROVE FALSE
        BY <1>1, <1>6, <1>9
    <2>0. Passed >= 0 /\ n \in Nat /\ k \in 1..n /\ DOMAIN logs = 1..n
        BY <1>1, <1>6 DEF Passed
    <2> HIDE DEF n
    <2>1. k + 1 <= n - Passed /\ k + 1 \in DOMAIN logs
        BY <1>9, <2>0
    <2>2. logs[k + 1].rowid < cursor
        BY <1>1, <2>1 DEF LogInv, TwiceInv
    <2> QED BY <1>1, <1>6, <1>7, <2>1, <2>2
<1> QED BY <1>1, <1>6, <1>8, <1>10, <1>11, <1>12, <1>13, LogShow

LEMMA LogPageFull ==
    ASSUME LogInv, PageFull PROVE LogInv'
<1> DEFINE n == Len(logs)
<1>1. /\ n \in Nat /\ DOMAIN logs = 1..n
      /\ cursor > 0 /\ rest = 0 /\ page \in Nat \ {0} /\ cursor \in Nat
      /\ page' = page + 1 /\ cursor' = 0
      /\ UNCHANGED <<logs, inserted, rest, seen, start, fresh>>
      /\ \A k \in DOMAIN logs : logs[k].rowid \in Nat
    BY LogRows DEF PageFull, LogInv, LogTypeOK
<1>2. /\ Offset(page) \in Nat /\ Limit \in Nat
      /\ Offset(page)' = Passed /\ Passed \in Int
    <2>1. Offset(page)' = Offset(page + 1)
        BY <1>1 DEF Offset
    <2>2. Offset(page + 1) = Offset(page) + Limit /\ Offset(page) \in Nat /\ Limit \in Nat
        BY <1>1, NextPage, Pages
    <2>3. Passed = Offset(page) + (Limit - 0)
        BY <1>1 DEF Passed
    <2> QED BY <2>1, <2>2, <2>3
<1>3. LogTypeOK' /\ Sorted' /\ Shown' = Shown
    BY <1>1 DEF LogInv, LogTypeOK, Sorted, Shown
<1>4. ASSUME NEW k \in DOMAIN logs, k > n - Passed, logs[k].message \in start
      PROVE  logs[k].message \in Shown
    <2>1. ~(logs[k].rowid < cursor)
        BY <1>1, <1>2, <1>4 DEF LogInv, MissInv, Remains
    <2>2. logs[k].rowid >= cursor
        BY <1>1, <2>1
    <2> QED BY <1>1, <1>4, <2>2 DEF LogInv, MissInv
<1>5. fresh => \A k \in DOMAIN logs : k <= n - Passed => \A m \in Shown : logs[k].message < m
    BY <1>1 DEF LogInv, TwiceInv
<1>6. MissInv'
    BY <1>1, <1>2, <1>3, <1>4 DEF MissInv
<1>7. TwiceInv'
    BY <1>1, <1>2, <1>3, <1>5 DEF LogInv, TwiceInv
<1> QED BY <1>3, <1>6, <1>7 DEF LogInv

LEMMA LogEnds ==
    ASSUME LogInv, PageShort \/ GiveUp PROVE LogInv'
<1>1. /\ page' = 0 /\ cursor' = 0
      /\ UNCHANGED <<logs, inserted, rest, seen, start, fresh>>
    BY DEF PageShort, GiveUp
<1>2. LogTypeOK' /\ Sorted' /\ MissInv'
    BY <1>1 DEF LogInv, LogTypeOK, Sorted, MissInv
<1>3. TwiceInv'
    BY <1>1 DEF LogInv, TwiceInv
<1> QED BY <1>2, <1>3 DEF LogInv

LEMMA LogInductive == LogInv /\ [Next]_vars => LogInv'
<1>1. ASSUME LogInv, UNCHANGED vars PROVE LogInv'
    BY <1>1 DEF vars, LogInv, LogTypeOK, Sorted, MissInv, TwiceInv, Shown, Passed, Offset, Remains
<1> QED BY <1>1, LogInsert, LogRotate, LogRead, LogFirstRow, LogNextRow, LogPageFull, LogEnds
        DEF Next

(* A reader that comes to the end of the log has seen every message that was     *)
(* there when it began and still is, for any page size, any rotations and any     *)
(* messages that come in between. (db.c 150-151, 924-942)                          *)
THEOREM LogNothingMissed == Spec => []NothingMissed
<1>1. LogInv => NothingMissed
    <2> SUFFICES ASSUME LogInv, Finished, NEW m \in start, m \in Messages PROVE m \in Shown
        BY DEF NothingMissed
    <2>1. PICK k \in DOMAIN logs : m = logs[k].message
        BY DEF Messages
    <2>2. Len(logs) \in Nat /\ DOMAIN logs = 1..Len(logs) /\ logs[k].rowid \in Nat /\ page \in Nat
          /\ cursor \in Nat
        BY LogRows DEF LogInv, LogTypeOK
    <2>3. CASE cursor = 0
        <3>1. Offset(page) \in Nat
            BY <2>2, Pages DEF Finished
        <3> QED BY <2>1, <2>2, <2>3, <3>1 DEF Finished, LogInv, MissInv
    <2>4. CASE cursor # 0
        <3>1. logs[k].rowid >= cursor
            BY <2>2, <2>4 DEF Finished, Below
        <3> QED BY <2>1, <2>2, <2>4, <3>1 DEF LogInv, MissInv
    <2> QED BY <2>3, <2>4
<1> QED BY <1>1, LogInitial, LogInductive, PTL DEF Spec

(* It has seen none of them twice, if no message came in since it began,         *)
(* however much was rotated away. (db.c 150-151, 931)                             *)
THEOREM LogNoneTwice == Spec => []NoneTwice
<1>1. LogInv => NoneTwice
    <2> SUFFICES ASSUME LogInv, fresh PROVE Cardinality(Shown) = Len(seen)
        BY DEF NoneTwice
    <2> DEFINE n == Len(seen)
    <2>1. n \in Nat /\ DOMAIN seen = 1..n /\ \A k \in 1..n : seen[k] \in Nat
        BY LogRows DEF LogInv
    <2>2. \A j, k \in 1..n : j # k => seen[j] # seen[k]
        BY <2>1 DEF LogInv, TwiceInv
    <2>3. Shown = {seen[k] : k \in 1..n}
        BY <2>1 DEF Shown
    <2>4. [k \in 1..n |-> seen[k]] \in Bijection(1..n, Shown)
        BY <2>2, <2>3 DEF Bijection, Injection, Surjection, IsInjective
    <2>5. ExistsBijection(1..n, Shown)
        BY <2>4 DEF ExistsBijection
    <2>6. IsFiniteSet(1..n) /\ Cardinality(1..n) = n
        BY <2>1, FS_Interval
    <2> QED BY <2>5, <2>6, FS_Bijection
<1> QED BY <1>1, LogInitial, LogInductive, PTL DEF Spec

-----------------------------------------------------------------------------
(* The log sink *)

Servers == Addresses \cup {"none", "broadcast"}
States == [file : Nat, sock : Nat, addr : Servers, func : BOOLEAN, live : SUBSET Nat, opens : Nat]

\* The open handles are the two of the configuration, and these are not the same.
Kept(s) ==
    /\ s \in States /\ s.file <= s.opens /\ s.sock <= s.opens
    /\ s.file = s.sock => s.file = 0
    /\ s.live = {s.file, s.sock} \ {0}

LEMMA KeptFileClosed ==
    ASSUME NEW s, Kept(s)
    PROVE  LET f == log_close_file(s) IN Kept(f) /\ f.file = 0
<1> DEFINE f == log_close_file(s)
<1>1. s \in States
    BY DEF Kept
<1>2. f \in States
    BY <1>1 DEF States, log_close_file
<1>3. f.file = 0 /\ f.sock = s.sock /\ f.opens = s.opens /\ f.live = s.live \ {s.file}
    BY <1>1 DEF States, log_close_file
<1> HIDE DEF f
<1>4. f.file <= f.opens /\ f.sock <= f.opens
    BY <1>1, <1>3 DEF Kept, States
<1> QED BY <1>2, <1>3, <1>4 DEF Kept, f

LEMMA KeptSyslogClosed ==
    ASSUME NEW s, Kept(s)
    PROVE  LET f == log_close_syslog(s) IN Kept(f) /\ f.sock = 0 /\ f.file = s.file
<1> DEFINE f == log_close_syslog(s)
<1>1. s \in States
    BY DEF Kept
<1>2. f \in States
    BY <1>1 DEF States, log_close_syslog
<1>3. f.sock = 0 /\ f.file = s.file /\ f.opens = s.opens /\ f.live = s.live \ {s.sock}
    BY <1>1 DEF States, log_close_syslog
<1> HIDE DEF f
<1>4. f.file <= f.opens /\ f.sock <= f.opens
    BY <1>1, <1>3 DEF Kept, States
<1> QED BY <1>2, <1>3, <1>4 DEF Kept, f

\* Nor does it matter who is called back and where messages go.
LEMMA KeptCallback ==
    ASSUME NEW s, Kept(s), NEW b \in BOOLEAN
    PROVE  LET f == [s EXCEPT !.func = b] IN
           Kept(f) /\ f.func = b /\ f.file = s.file /\ f.sock = s.sock
<1> DEFINE f == [s EXCEPT !.func = b]
<1>1. s \in States
    BY DEF Kept
<1>2. f \in States
    BY <1>1 DEF States
<1>3. f.func = b /\ f.file = s.file /\ f.sock = s.sock /\ f.live = s.live /\ f.opens = s.opens
    BY <1>1 DEF States
<1> HIDE DEF f
<1> QED BY <1>2, <1>3 DEF Kept, f

LEMMA KeptAddress ==
    ASSUME NEW s, Kept(s), NEW a \in Servers
    PROVE  LET f == [s EXCEPT !.addr = a] IN Kept(f) /\ f.addr = a
<1> DEFINE f == [s EXCEPT !.addr = a]
<1>1. s \in States
    BY DEF Kept
<1>2. f \in States
    BY <1>1 DEF States
<1>3. f.addr = a /\ f.file = s.file /\ f.sock = s.sock /\ f.live = s.live /\ f.opens = s.opens
    BY <1>1 DEF States
<1> HIDE DEF f
<1> QED BY <1>2, <1>3 DEF Kept, f

LEMMA KeptClosed ==
    ASSUME NEW s, Kept(s)
    PROVE  LET c == log_close(s) IN
           Kept(c) /\ c.file = 0 /\ c.sock = 0 /\ c.live = {} /\ c.func = FALSE
<1> DEFINE g == log_close_syslog(log_close_file(s))
           c == log_close(s)
<1>1. Kept(g) /\ g.file = 0 /\ g.sock = 0
    BY KeptFileClosed, KeptSyslogClosed
<1> HIDE DEF g
<1>2. c = [g EXCEPT !.func = FALSE]
    BY DEF log_close, g
<1> HIDE DEF c
<1>3. Kept(c) /\ c.file = 0 /\ c.sock = 0 /\ c.func = FALSE
    BY <1>1, <1>2, KeptCallback
<1>4. c.live = {}
    BY <1>3 DEF Kept
<1> QED BY <1>3, <1>4 DEF c

LEMMA KeptFileOpened ==
    ASSUME NEW s, Kept(s), s.file = 0
    PROVE  LET o == Opened(s, "file") IN Kept(o) /\ o.sock = s.sock
<1> DEFINE o == Opened(s, "file")
<1>1. s \in States /\ s.opens \in Nat /\ s.opens + 1 \in Nat /\ s.sock \in Nat
    BY DEF Kept, States
<1>2. s.live \cup {s.opens + 1} \in SUBSET Nat
    BY <1>1 DEF States
<1>3. o \in States
    BY <1>1, <1>2 DEF States, Opened
<1>4. /\ o.file = s.opens + 1 /\ o.sock = s.sock /\ o.opens = s.opens + 1
      /\ o.live = s.live \cup {s.opens + 1}
    BY <1>1 DEF States, Opened
<1> HIDE DEF o
<1>5. o.file <= o.opens /\ o.sock <= o.opens /\ o.file # o.sock
    BY <1>1, <1>4 DEF Kept
<1>6. o.live = {o.file, o.sock} \ {0}
    BY <1>1, <1>4 DEF Kept
<1> QED BY <1>3, <1>4, <1>5, <1>6 DEF Kept, o

LEMMA KeptSyslogOpened ==
    ASSUME NEW s, Kept(s), s.sock = 0
    PROVE  Kept(Opened(s, "sock"))
<1> DEFINE o == Opened(s, "sock")
<1>1. s \in States /\ s.opens \in Nat /\ s.opens + 1 \in Nat /\ s.file \in Nat
    BY DEF Kept, States
<1>2. s.live \cup {s.opens + 1} \in SUBSET Nat
    BY <1>1 DEF States
<1>3. o \in States
    BY <1>1, <1>2 DEF States, Opened
<1>4. /\ o.sock = s.opens + 1 /\ o.file = s.file /\ o.opens = s.opens + 1
      /\ o.live = s.live \cup {s.opens + 1}
    BY <1>1 DEF States, Opened
<1> HIDE DEF o
<1>5. o.file <= o.opens /\ o.sock <= o.opens /\ o.file # o.sock
    BY <1>1, <1>4 DEF Kept
<1>6. o.live = {o.file, o.sock} \ {0}
    BY <1>1, <1>4 DEF Kept
<1> QED BY <1>3, <1>4, <1>5, <1>6 DEF Kept, o

\* What log_open_syslog leaves: nothing lost, and a new socket has the broadcast address.
LEMMA KeptOpeningSyslog ==
    ASSUME NEW s, Kept(s), NEW o \in log_open_syslog(s)
    PROVE  /\ Kept(o[1]) /\ o[2] \in {0, -1}
           /\ s.sock = 0 /\ o[2] = 0 => o[1].addr = "broadcast"
<1>1. CASE s.sock # 0
    BY <1>1 DEF log_open_syslog
<1>2. CASE s.sock = 0
    <2> DEFINE n == Opened(s, "sock")
               b == [n EXCEPT !.addr = "broadcast"]
    <2>1. Kept(n) /\ Kept(b) /\ b.addr = "broadcast"
        BY <1>2, KeptSyslogOpened, KeptAddress DEF Servers
    <2> HIDE DEF n, b
    <2>2. Kept(log_close_syslog(n)) /\ Kept(log_close_syslog(b))
        BY <2>1, KeptSyslogClosed
    <2>3. o \in {<<s, -1>>, <<log_close_syslog(n), -1>>, <<log_close_syslog(b), -1>>, <<b, 0>>}
        BY <1>2 DEF log_open_syslog, n, b
    <2> QED BY <2>1, <2>2, <2>3
<1> QED BY <1>1, <1>2

LEMMA KeptOpening ==
    ASSUME Kept(State), NEW path \in BOOLEAN, NEW syslog \in BOOLEAN, NEW func \in BOOLEAN,
           NEW o \in OpenResults(path, syslog, func)
    PROVE  /\ Kept(o[1]) /\ o[2] \in {0, -1}
           /\ o[2] = -1 => o[1].live = {} /\ o[1].func = FALSE /\ o[1].sock = 0
           /\ o[2] = 0 => IF syslog THEN o[1].addr = "broadcast" ELSE o[1].sock = 0
<1> DEFINE closed == [log_close(State) EXCEPT !.func = func]
           filed  == IF path THEN {<<Opened(closed, "file"), 0>>, <<closed, -1>>}
                     ELSE {<<closed, 0>>}
<1>1. Kept(closed) /\ closed.file = 0 /\ closed.sock = 0
    <2> DEFINE c == log_close(State)
    <2>1. Kept(c) /\ c.file = 0 /\ c.sock = 0
        BY KeptClosed
    <2> HIDE DEF c
    <2>2. LET d == [c EXCEPT !.func = func] IN Kept(d) /\ d.file = c.file /\ d.sock = c.sock
        BY <2>1, KeptCallback, Zenon
    <2> QED BY <2>1, <2>2 DEF c
<1>2. PICK f \in filed :
          o \in (IF f[2] = -1 THEN {Failed(f[1])}
                 ELSE IF ~syslog THEN {f}
                 ELSE {IF p[2] = -1 THEN Failed(p[1]) ELSE p : p \in log_open_syslog(f[1])})
    BY DEF OpenResults
<1> HIDE DEF closed
<1>3. Kept(f[1]) /\ f[1].sock = 0 /\ f[2] \in {0, -1}
    BY <1>1, KeptFileOpened
<1> HIDE DEF filed
<1>4. ASSUME NEW s, Kept(s), o = Failed(s)
      PROVE  Kept(o[1]) /\ o[2] \in {0, -1} /\ o[2] # 0 /\ o[1].live = {} /\ o[1].func = FALSE /\ o[1].sock = 0
    <2>1. o[1] = log_close(s) /\ o[2] \in {0, -1} /\ o[2] # 0
        BY <1>4 DEF Failed
    <2> QED BY <1>4, <2>1, KeptClosed
<1>5. CASE f[2] = -1
    <2>1. o = Failed(f[1])
        BY <1>2, <1>5
    <2> QED BY <1>3, <1>4, <2>1
<1>6. CASE f[2] # -1 /\ ~syslog
    BY <1>2, <1>3, <1>6
<1>7. CASE f[2] # -1 /\ syslog
    <2>1. PICK p \in log_open_syslog(f[1]) : o = IF p[2] = -1 THEN Failed(p[1]) ELSE p
        BY <1>2, <1>7
    <2>2. Kept(p[1]) /\ p[2] \in {0, -1} /\ (p[2] = 0 => p[1].addr = "broadcast")
        BY <1>3, KeptOpeningSyslog
    <2>3. CASE p[2] = -1
        <3>1. o = Failed(p[1])
            BY <2>1, <2>3
        <3> QED BY <1>4, <2>2, <3>1
    <2>4. CASE p[2] # -1
        BY <1>7, <2>1, <2>2, <2>4
    <2> QED BY <2>3, <2>4
<1> QED BY <1>5, <1>6, <1>7

-----------------------------------------------------------------------------
(* What is open, and where messages go *)

HandlesInv ==
    /\ Kept(State)
    /\ res = -1 => live = {} /\ callback = FALSE
    /\ socket_fd # 0 => serv_addr = chosen
    /\ sent.to = sent.wanted

LEMMA Became ==
    ASSUME NEW s, Kept(s), Become(s)
    PROVE  Kept(State)' /\ file_fd' = s.file /\ socket_fd' = s.sock /\ serv_addr' = s.addr
           /\ live' = s.live /\ callback' = s.func
<1>1. /\ file_fd' = s.file /\ socket_fd' = s.sock /\ serv_addr' = s.addr
      /\ callback' = s.func /\ live' = s.live /\ opens' = s.opens
    BY DEF Become
<1>2. s \in States
    BY DEF Kept
<1>3. State' \in States
    BY <1>1, <1>2 DEF State, States
<1>4. /\ State'.file = s.file /\ State'.sock = s.sock /\ State'.live = s.live
      /\ State'.opens = s.opens
    BY <1>1 DEF State
<1> QED BY <1>1, <1>3, <1>4 DEF Kept

\* An action that opens and closes nothing
LEMMA HandlesSame ==
    ASSUME HandlesInv, UNCHANGED <<destinations, live, opens, chosen>>, res' \in {res, 0},
           sent'.to = sent'.wanted
    PROVE  HandlesInv'
<1>1. State' = State
    BY DEF State, destinations
<1>2. Kept(State)'
    BY <1>1 DEF HandlesInv, Kept
<1> QED BY <1>2 DEF HandlesInv, destinations

LEMMA HandlesInitial == SinkInit => HandlesInv
<1> SUFFICES ASSUME SinkInit PROVE HandlesInv
    OBVIOUS
<1>1. State = [file |-> 0, sock |-> 0, addr |-> "none", func |-> FALSE, live |-> {}, opens |-> 0]
    BY DEF State, SinkInit
<1>2. State \in States
    BY <1>1 DEF States, Servers
<1>3. State.file = 0 /\ State.sock = 0 /\ State.live = {} /\ State.opens = 0
    BY <1>1
<1>4. Kept(State)
    BY <1>2, <1>3 DEF Kept
<1> QED BY <1>4 DEF HandlesInv, SinkInit

LEMMA HandlesStep == HandlesInv /\ [SinkNext]_sinkVars => HandlesInv'
<1> SUFFICES ASSUME HandlesInv, [SinkNext]_sinkVars PROVE HandlesInv'
    OBVIOUS
<1>1. ASSUME NEW path \in BOOLEAN, NEW syslog \in BOOLEAN, NEW func \in BOOLEAN,
             LogOpen(path, syslog, func)
      PROVE  HandlesInv'
    <2>1. PICK o \in OpenResults(path, syslog, func) : Become(o[1]) /\ res' = o[2]
        BY <1>1 DEF LogOpen
    <2>2. Kept(State)
        BY DEF HandlesInv
    <2>3. /\ Kept(o[1]) /\ o[2] \in {0, -1}
          /\ o[2] = -1 => o[1].live = {} /\ o[1].func = FALSE /\ o[1].sock = 0
          /\ o[2] = 0 => IF syslog THEN o[1].addr = "broadcast" ELSE o[1].sock = 0
        BY <2>2, KeptOpening, Zenon
    <2>4. /\ Kept(State)' /\ socket_fd' = o[1].sock /\ serv_addr' = o[1].addr
          /\ live' = o[1].live /\ callback' = o[1].func
        BY <2>1, <2>3, Became
    <2>5. chosen' = (IF syslog /\ res' = 0 THEN "broadcast" ELSE chosen) /\ sent' = sent
        BY <1>1 DEF LogOpen, trace
    <2> QED BY <2>1, <2>3, <2>4, <2>5 DEF HandlesInv
<1>2. ASSUME NEW ip \in Addresses, LogSetSyslog(ip) PROVE HandlesInv'
    <2>1. PICK o \in log_open_syslog(State) : Become([o[1] EXCEPT !.addr = ip])
        BY <1>2 DEF LogSetSyslog
    <2> DEFINE s == [o[1] EXCEPT !.addr = ip]
    <2>2. Kept(o[1])
        BY KeptOpeningSyslog DEF HandlesInv
    <2>3. Kept(s) /\ s.addr = ip
        BY <2>2, KeptAddress DEF Servers
    <2> HIDE DEF s
    <2>4. Kept(State)' /\ serv_addr' = ip
        BY <2>1, <2>3, Became DEF s
    <2>5. res' = 0 /\ chosen' = ip /\ sent' = sent
        BY <1>2 DEF LogSetSyslog, trace
    <2> QED BY <2>4, <2>5 DEF HandlesInv
<1>3. CASE LogClose
    <2> DEFINE c == log_close(State)
    <2>1. Kept(c) /\ c.sock = 0
        BY KeptClosed DEF HandlesInv
    <2>2. Become(c) /\ res' = 0 /\ sent' = sent
        BY <1>3 DEF LogClose, trace
    <2> HIDE DEF c
    <2>3. Kept(State)' /\ socket_fd' = 0
        BY <2>1, <2>2, Became
    <2> QED BY <2>2, <2>3 DEF HandlesInv
<1>4. ASSUME NEW l \in Levels, LogSetLevel(l) PROVE HandlesInv'
    BY <1>4, HandlesSame DEF LogSetLevel, trace, HandlesInv
<1>5. ASSUME NEW l \in Levels, NEW mode \in Modes, Log(l, mode) PROVE HandlesInv'
    BY <1>5, HandlesSame DEF Log, HandlesInv
<1>6. CASE ToSyslog
    <2>1. /\ UNCHANGED <<destinations, live, opens, chosen>> /\ res' = res
          /\ \/ sent' = sent
             \/ socket_fd # 0 /\ sent' = [call |-> Innermost.call, to |-> serv_addr, wanted |-> chosen]
        BY <1>6 DEF ToSyslog
    <2>2. sent'.to = sent'.wanted
        BY <2>1 DEF HandlesInv
    <2> QED BY <2>1, <2>2, HandlesSame
<1>7. CASE ToFile \/ ToFunc \/ CallbackDone \/ UNCHANGED sinkVars
    <2>1. UNCHANGED <<destinations, live, opens, chosen>> /\ res' = res /\ sent' = sent
        BY <1>7 DEF ToFile, ToFunc, CallbackDone, sinkVars
    <2> QED BY <2>1, HandlesSame DEF HandlesInv
<1> QED BY <1>1, <1>2, <1>3, <1>4, <1>5, <1>6, <1>7 DEF SinkNext

(* However often the log is opened again, closed or readdressed, and whichever  *)
(* call fails halfway, no handle is lost, and none is left by a log_open that    *)
(* failed. (log.c 46-145)                                                         *)
THEOREM SinkNoHandleLost == SinkSpec => []NoHandleLost
<1>1. HandlesInv => NoHandleLost
    <2> SUFFICES ASSUME HandlesInv PROVE NoHandleLost
        OBVIOUS
    <2>1. State.file = file_fd /\ State.sock = socket_fd /\ State.live = live
        BY DEF State
    <2> QED BY <2>1 DEF HandlesInv, NoHandleLost, Kept
<1> QED BY <1>1, HandlesInitial, HandlesStep, PTL DEF SinkSpec

-----------------------------------------------------------------------------
(* The order of the messages in the file *)

\* Below the innermost call each is in its callback; the innermost is the last that
\* began as long as its message is not in the file.
TraceInv ==
    /\ calls \in Nat /\ stack \in Seq(Frame) /\ written \in Seq(Nat)
    /\ \A k \in DOMAIN stack : k # Len(stack) => stack[k].at = "callback"
    /\ \A k \in DOMAIN written : written[k] <= calls
    /\ \A j, k \in DOMAIN written : j < k => written[j] < written[k]
    /\ At("SYSLOG") \/ At("FILE") =>
          Innermost.call = calls /\ \A k \in DOMAIN written : written[k] < calls

LEMMA SinkStack ==
    ASSUME TraceInv
    PROVE  /\ Len(stack) \in Nat /\ DOMAIN stack = 1..Len(stack)
           /\ stack # <<>> => Len(stack) \in Nat \ {0} /\ Innermost \in Frame
           /\ DOMAIN written = 1..Len(written) /\ Len(written) \in Nat
           /\ \A k \in DOMAIN written : written[k] \in Nat
<1>1. /\ Len(stack) \in Nat /\ DOMAIN stack = 1..Len(stack)
      /\ DOMAIN written = 1..Len(written) /\ Len(written) \in Nat
    BY LenProperties DEF TraceInv
<1>2. stack # <<>> => Len(stack) \in 1..Len(stack)
    BY <1>1, EmptySeq DEF TraceInv
<1>3. stack # <<>> => Innermost \in Frame
    BY <1>2, ElementOfSeq DEF Innermost, TraceInv
<1>4. \A k \in DOMAIN written : written[k] \in Nat
    BY <1>1, ElementOfSeq DEF TraceInv
<1> QED BY <1>1, <1>2, <1>3, <1>4

\* The innermost call goes on to its part "to", or returns.
LEMMA TraceGoTo ==
    ASSUME TraceInv, stack # <<>>, NEW to \in {"FILE", "FUNC", "callback"}, GoTo(to)
    PROVE  /\ stack' \in Seq(Frame)
           /\ \A k \in DOMAIN stack' : k # Len(stack') => stack'[k].at = "callback"
           /\ Innermost' = [Innermost EXCEPT !.at = to] /\ Innermost'.call = Innermost.call
           /\ \A at : At(at)' => at = to
<1> DEFINE n == Len(stack)
           f == [Innermost EXCEPT !.at = to]
<1>1. n \in Nat \ {0} /\ DOMAIN stack = 1..n /\ Innermost \in Frame
    BY SinkStack
<1>2. f \in Frame /\ f.at = to /\ f.call = Innermost.call
    BY <1>1 DEF Frame
<1>3. stack' = [stack EXCEPT ![n] = f]
    BY DEF GoTo, Innermost
<1> HIDE DEF f
<1>4. /\ stack' \in Seq(Frame) /\ Len(stack') = n /\ DOMAIN stack' = 1..n /\ stack'[n] = f
      /\ \A k \in 1..n : k # n => stack'[k] = stack[k]
    <2>1. stack \in Seq(Frame) /\ n \in 1..Len(stack)
        BY <1>1 DEF TraceInv
    <2>2. /\ stack' \in Seq(Frame) /\ Len(stack') = n
          /\ \A k \in 1..n : stack'[k] = IF k = n THEN f ELSE stack[k]
        BY <1>2, <1>3, <2>1, ExceptSeq
    <2>3. DOMAIN stack' = 1..n
        BY <2>2, LenProperties
    <2> HIDE DEF n
    <2> QED BY <1>1, <2>2, <2>3
<1>5. Innermost' = f
    BY <1>4 DEF Innermost
<1>6. \A k \in DOMAIN stack' : k # Len(stack') => stack'[k].at = "callback"
    BY <1>1, <1>4 DEF TraceInv
<1>7. \A at : At(at)' => at = to
    BY <1>2, <1>5 DEF At
<1> QED BY <1>2, <1>4, <1>5, <1>6, <1>7 DEF f

LEMMA TraceReturn ==
    ASSUME TraceInv, stack # <<>>, stack' = SubSeq(stack, 1, Len(stack) - 1)
    PROVE  /\ stack' \in Seq(Frame)
           /\ \A k \in DOMAIN stack' : k # Len(stack') => stack'[k].at = "callback"
           /\ \A at : At(at)' => at = "callback"
<1> DEFINE n == Len(stack)
<1>1. n \in Nat \ {0} /\ DOMAIN stack = 1..n /\ stack \in Seq(Frame)
    BY SinkStack DEF TraceInv
<1>2. /\ stack' \in Seq(Frame) /\ Len(stack') = n - 1 /\ DOMAIN stack' = 1..(n - 1)
      /\ \A k \in 1..(n - 1) : stack'[k] = stack[k]
    BY <1>1, SMT
<1>3. \A k \in 1..(n - 1) : stack'[k].at = "callback"
    BY <1>1, <1>2 DEF TraceInv
<1> HIDE DEF n
<1>4. ASSUME stack' # <<>> PROVE Innermost'.at = "callback"
    <2>1. n - 1 # 0
        BY <1>2, <1>4, EmptySeq
    <2>2. n - 1 \in 1..(n - 1)
        BY <1>1, <2>1
    <2>3. Innermost' = stack'[n - 1]
        BY <1>2 DEF Innermost
    <2> QED BY <1>3, <2>2, <2>3
<1>5. \A at : At(at)' => at = "callback"
    BY <1>4 DEF At
<1> QED BY <1>2, <1>3, <1>5

LEMMA TraceInitial == SinkInit => TraceInv
<1> SUFFICES ASSUME SinkInit PROVE TraceInv
    OBVIOUS
<1>1. /\ stack = <<>> /\ stack \in Seq(Frame) /\ DOMAIN stack = {}
      /\ written \in Seq(Nat) /\ DOMAIN written = {} /\ calls = 0
    BY EmptySeq DEF SinkInit
<1>2. ~At("SYSLOG") /\ ~At("FILE")
    BY <1>1 DEF At
<1> QED BY <1>1, <1>2 DEF TraceInv

LEMMA TraceStep == TraceInv /\ [SinkNext]_sinkVars => TraceInv'
<1> SUFFICES ASSUME TraceInv, [SinkNext]_sinkVars PROVE TraceInv'
    OBVIOUS
<1>1. ASSUME UNCHANGED <<stack, calls, written>> PROVE TraceInv'
    BY <1>1 DEF TraceInv, At, Innermost
<1>2. ASSUME NEW path \in BOOLEAN, NEW syslog \in BOOLEAN, NEW func \in BOOLEAN,
             LogOpen(path, syslog, func)
      PROVE  TraceInv'
    BY <1>1, <1>2 DEF LogOpen, trace
<1>3. CASE \/ \E ip \in Addresses : LogSetSyslog(ip)
           \/ LogClose
           \/ \E l \in Levels : LogSetLevel(l)
           \/ UNCHANGED sinkVars
    BY <1>1, <1>3 DEF LogSetSyslog, LogClose, LogSetLevel, trace, sinkVars
<1>4. ASSUME NEW l \in Levels, NEW mode \in Modes, Log(l, mode) PROVE TraceInv'
    <2> DEFINE n == Len(stack)
               f == [call |-> calls + 1, mode |-> mode, at |-> "SYSLOG"]
    <2>1. f \in Frame /\ f.call = calls + 1 /\ n \in Nat /\ DOMAIN stack = 1..n /\ calls \in Nat
          /\ stack \in Seq(Frame)
        BY SinkStack DEF Frame, TraceInv
    <2>2. stack' = Append(stack, f) /\ calls' = calls + 1 /\ written' = written
        BY <1>4 DEF Log
    <2> HIDE DEF f
    <2>3. /\ stack' \in Seq(Frame) /\ Len(stack') = n + 1 /\ DOMAIN stack' = 1..(n + 1)
          /\ stack'[n + 1] = f
          /\ \A k \in 1..n : stack'[k] = stack[k]
        BY <2>1, <2>2, AppendProperties, LenProperties
    <2>4. n # 0 => stack[n].at = "callback"
        BY <1>4, <2>1, EmptySeq DEF Log, InControl, Innermost
    <2>5. \A k \in 1..n : stack'[k].at = "callback"
        <3>1. \A k \in 1..n : stack[k].at = "callback"
            BY <2>1, <2>4 DEF TraceInv
        <3> QED BY <2>3, <3>1
    <2>6. Innermost'.call = calls'
        BY <2>1, <2>2, <2>3 DEF Innermost
    <2>7. \A k \in DOMAIN written : written[k] < calls'
        BY <2>1, <2>2, SinkStack DEF TraceInv
    <2> QED BY <2>1, <2>2, <2>3, <2>5, <2>6, <2>7 DEF TraceInv
<1>5. CASE ToSyslog
    <2>1. /\ stack # <<>> /\ At("SYSLOG") /\ GoTo("FILE")
          /\ calls' = calls /\ written' = written
        BY <1>5 DEF ToSyslog, At, Continue, After
    <2> QED BY <2>1, TraceGoTo DEF TraceInv
<1>6. CASE ToFile
    <2>1. /\ stack # <<>> /\ At("FILE") /\ GoTo("FUNC")
          /\ calls' = calls /\ Innermost.call = calls
          /\ written' = written \/ written' = Append(written, calls)
        BY <1>6 DEF ToFile, At, Continue, After, TraceInv
    <2>2. CASE written' = written
        BY <2>1, <2>2, TraceGoTo DEF TraceInv
    <2>3. CASE written' = Append(written, calls)
        <3> DEFINE n == Len(written)
        <3>1. /\ n \in Nat /\ DOMAIN written = 1..n /\ written \in Seq(Nat) /\ calls \in Nat
              /\ \A k \in 1..n : written[k] < calls /\ written[k] \in Nat
            BY <2>1, SinkStack DEF TraceInv
        <3>2. /\ written' \in Seq(Nat) /\ DOMAIN written' = 1..(n + 1) /\ written'[n + 1] = calls
              /\ \A k \in 1..n : written'[k] = written[k]
            BY <2>3, <3>1, AppendProperties, LenProperties
        <3>3. \A j, k \in 1..n : j < k => written[j] < written[k]
            BY <3>1 DEF TraceInv
        <3> HIDE DEF n
        <3>4. \A j, k \in DOMAIN written' : j < k => written'[j] < written'[k]
            <4> SUFFICES ASSUME NEW j \in 1..(n + 1), NEW k \in 1..(n + 1), j < k
                         PROVE  written'[j] < written'[k]
                BY <3>2
            <4>1. j \in 1..n /\ (k \in 1..n \/ k = n + 1)
                BY <3>1
            <4> QED BY <3>1, <3>2, <3>3, <4>1
        <3>5. \A k \in DOMAIN written' : written'[k] <= calls'
            BY <2>1, <3>1, <3>2
        <3> QED BY <2>1, <3>1, <3>2, <3>4, <3>5, TraceGoTo DEF TraceInv
    <2> QED BY <2>1, <2>2, <2>3
<1>7. CASE ToFunc \/ CallbackDone
    <2>1. /\ stack # <<>> /\ calls' = calls /\ written' = written
          /\ GoTo("callback") \/ stack' = SubSeq(stack, 1, Len(stack) - 1)
        BY <1>7 DEF ToFunc, CallbackDone, At, Continue, After
    <2> QED BY <2>1, TraceGoTo, TraceReturn DEF TraceInv
<1> QED BY <1>2, <1>3, <1>4, <1>5, <1>6, <1>7 DEF SinkNext

(* A message goes to the server chosen last, and the file has the messages in   *)
(* the order of the calls, those of the callbacks too. (log.c 98-100, 149-151,   *)
(* 190-211)                                                                        *)
THEOREM SinkSentInOrder == SinkSpec => []SentInOrder
<1>1. HandlesInv /\ TraceInv => SentInOrder
    BY DEF HandlesInv, TraceInv, SentInOrder
<1> QED BY <1>1, HandlesInitial, HandlesStep, TraceInitial, TraceStep, PTL DEF SinkSpec

-----------------------------------------------------------------------------
(* The settings table *)

Values(k) == IF IsInteger[k] THEN Numbers ELSE Texts

\* The row of k is there and was not removed by another key.
There(k) == k \in DOMAIN kept /\ k \notin hit

SettingsTypeOK ==
    /\ DOMAIN config = Keys /\ \A k \in Keys : config[k] \in Values(k)
    /\ DOMAIN kept \subseteq Keys /\ \A k \in DOMAIN kept : kept[k] \in Values(k)
    /\ DOMAIN settings \subseteq Keys

\* The table holds just what was saved and not removed, with NULL for the empty text.
RowsInv ==
    /\ \A k \in Keys : k \in DOMAIN settings <=> There(k)
    /\ \A k \in DOMAIN settings : settings[k] = Bound(kept[k])

SettingsInv == SettingsTypeOK /\ RowsInv /\ LoadTells

-----------------------------------------------------------------------------
LEMMA WithoutRest ==
    ASSUME NEW f, NEW ks
    PROVE  /\ DOMAIN Without(f, ks) = DOMAIN f \ ks
           /\ \A n \in DOMAIN f \ ks : Without(f, ks)[n] = f[n]
BY DEF Without

LEMMA EmptyDomain == DOMAIN <<>> = {}
OBVIOUS

\* A key matches itself.
LEMMA LikeSelf == \A k : Like(k, k)
BY DEF Like

\* What is read back from a row is what was bound to it.
LEMMA ColumnOfBound ==
    ASSUME SettingsTypeOK, RowsInv, NEW k \in Keys, Found(k)
    PROVE  /\ k \in DOMAIN kept
           /\ ~IsInteger[k] => Column(k) = kept[k]
           /\ IsInteger[k] => settings[k] = kept[k]
BY SettingsAssumption, NullAssumption
   DEF SettingsTypeOK, RowsInv, There, Found, Column, Bound, Values

LEMMA SettingsInitial == SettingsInit => SettingsInv
<1> SUFFICES ASSUME SettingsInit PROVE SettingsInv
    OBVIOUS
<1>1. DOMAIN settings = {} /\ DOMAIN kept = {}
    BY EmptyDomain DEF SettingsInit
<1>2. SettingsTypeOK
    BY <1>1, SettingsAssumption DEF SettingsInit, SettingsTypeOK, Initial, Values
<1>3. RowsInv
    BY <1>1 DEF RowsInv, There
<1>4. LoadTells
    BY DEF SettingsInit, LoadTells
<1> QED BY <1>2, <1>3, <1>4 DEF SettingsInv

LEMMA SaveKeeps ==
    ASSUME SettingsInv, NEW k \in Keys, config_save(k)
    PROVE  SettingsInv'
<1> USE DEF SettingsInv, Told
<1>0. /\ settings' = With(settings, k, Bound(config[k])) /\ kept' = With(kept, k, config[k])
      /\ hit' = hit \ {k} /\ config' = config /\ called'.what = "save"
    BY DEF config_save, db_insert_setting
<1>1. /\ DOMAIN settings' = DOMAIN settings \cup {k} /\ DOMAIN kept' = DOMAIN kept \cup {k}
      /\ settings'[k] = Bound(config[k]) /\ kept'[k] = config[k]
      /\ \A n \in DOMAIN settings : n # k => settings'[n] = settings[n]
      /\ \A n \in DOMAIN kept : n # k => kept'[n] = kept[n]
    <2> DEFINE v == config[k]
               rows == With(settings, k, Bound(v))
               saved == With(kept, k, v)
    <2>1. /\ DOMAIN rows = DOMAIN settings \cup {k} /\ rows[k] = Bound(v)
          /\ \A n \in DOMAIN settings : n # k => rows[n] = settings[n]
        BY DEF With
    <2>2. /\ DOMAIN saved = DOMAIN kept \cup {k} /\ saved[k] = v
          /\ \A n \in DOMAIN kept : n # k => saved[n] = kept[n]
        BY DEF With
    <2>3. settings' = rows /\ kept' = saved
        BY <1>0
    <2> HIDE DEF rows, saved
    <2> QED BY <2>1, <2>2, <2>3
<1>2. SettingsTypeOK'
    <2>1. DOMAIN config' = Keys /\ \A n \in Keys : config'[n] \in Values(n)'
        BY <1>0 DEF SettingsTypeOK, Values
    <2>2. \A n \in DOMAIN kept' : kept'[n] \in Values(n)'
        BY <1>0, <1>1 DEF SettingsTypeOK, Values
    <2> QED BY <1>1, <2>1, <2>2 DEF SettingsTypeOK
<1>3. RowsInv'
    BY <1>0, <1>1 DEF SettingsTypeOK, RowsInv, There, Bound
<1>4. LoadTells'
    BY <1>0 DEF LoadTells
<1> QED BY <1>2, <1>3, <1>4

LEMMA RemoveKeeps ==
    ASSUME SettingsInv, NEW k \in Keys, db_remove_setting(k)
    PROVE  SettingsInv'
<1> DEFINE gone == {n \in DOMAIN settings : Like(k, n)}
<1> USE DEF SettingsInv, Told
<1>1. /\ settings' = Without(settings, gone) /\ kept' = Without(kept, {k})
      /\ hit' = (hit \cup gone) \ {k} /\ config' = config /\ called'.what = "remove"
    BY DEF db_remove_setting
<1>2. /\ DOMAIN settings' = DOMAIN settings \ gone /\ DOMAIN kept' = DOMAIN kept \ {k}
      /\ \A n \in DOMAIN settings \ gone : settings'[n] = settings[n]
      /\ \A n \in DOMAIN kept \ {k} : kept'[n] = kept[n]
    BY <1>1, WithoutRest
<1>3. SettingsTypeOK'
    BY <1>1, <1>2 DEF SettingsTypeOK, Values
<1>4. k \in DOMAIN settings => k \in gone
    BY LikeSelf
<1>5. gone \subseteq DOMAIN settings
    OBVIOUS
<1> HIDE DEF gone
<1>6. RowsInv'
    BY <1>1, <1>2, <1>4, <1>5 DEF SettingsTypeOK, RowsInv, There, Bound
<1>7. LoadTells'
    BY <1>1 DEF LoadTells
<1> QED BY <1>3, <1>6, <1>7

\* Reading changes one item in memory, to what is promised of it.
LEMMA LoadKeeps ==
    ASSUME SettingsInv, NEW k \in Keys, config_load(k) \/ db_get_setting(k)
    PROVE  SettingsInv'
<1> USE DEF SettingsInv, Told
<1>1. UNCHANGED <<settings, kept, hit>>
    BY DEF config_load, db_get_setting
<1>2. Found(k) <=> There(k)
    BY DEF RowsInv, Found
<1>3. RowsInv'
    BY <1>1 DEF RowsInv, There, Bound
<1>4. CASE config_load(k) /\ IsInteger[k]
    <2>1. /\ config' = [config EXCEPT ![k] = IF There(k) THEN kept[k] ELSE Default[k]]
          /\ called' = [what |-> "load", key |-> k, res |-> IF There(k) THEN 1 ELSE 0]
        BY <1>2, <1>4, ColumnOfBound DEF config_load, db_get_setting_int
    <2>2. SettingsTypeOK'
        BY <1>1, <1>4, <2>1, SettingsAssumption DEF SettingsTypeOK, There, Values
    <2>3. LoadTells'
        BY <1>1, <2>1 DEF LoadTells, There, SettingsTypeOK
    <2> QED BY <1>3, <2>2, <2>3
<1>5. CASE config_load(k) /\ ~IsInteger[k]
    <2>1. /\ config' = [config EXCEPT ![k] = IF There(k) THEN kept[k] ELSE Default[k]]
          /\ called' = [what |-> "load", key |-> k, res |-> 0]
        BY <1>2, <1>5, ColumnOfBound DEF config_load, db_get_setting_str
    <2>2. SettingsTypeOK'
        BY <1>1, <1>5, <2>1, SettingsAssumption DEF SettingsTypeOK, There, Values
    <2>3. LoadTells'
        BY <1>1, <1>5, <2>1 DEF LoadTells, There, SettingsTypeOK
    <2> QED BY <1>3, <2>2, <2>3
<1>6. CASE db_get_setting(k)
    <2>1. /\ ~IsInteger[k]
          /\ config' = [config EXCEPT ![k] = IF There(k) THEN kept[k] ELSE @]
          /\ called' = [what |-> "get", key |-> k,
                        res |-> IF There(k) THEN 0 ELSE SqliteDone]
        BY <1>2, <1>6, ColumnOfBound DEF db_get_setting
    <2>2. SettingsTypeOK'
        BY <1>1, <2>1 DEF SettingsTypeOK, There, Values
    <2>3. LoadTells'
        BY <1>1, <2>1 DEF LoadTells, There, SettingsTypeOK, SqliteDone
    <2> QED BY <1>3, <2>2, <2>3
<1> QED BY <1>4, <1>5, <1>6

LEMMA SettingsStep ==
    ASSUME SettingsInv, [SettingsNext]_settingsVars
    PROVE  SettingsInv'
<1> USE DEF SettingsInv, Told
<1>1. ASSUME NEW k \in Keys, Assign(k) PROVE SettingsInv'
    <2>1. PICK v \in Values(k) : config' = [config EXCEPT ![k] = v]
        BY <1>1 DEF Assign, Values
    <2>2. UNCHANGED <<settings, kept, hit>> /\ called'.what = "assign"
        BY <1>1 DEF Assign
    <2> QED BY <2>1, <2>2 DEF SettingsTypeOK, RowsInv, LoadTells, There, Bound, Values
<1>2. ASSUME NEW k \in Keys, CallFails(k) PROVE SettingsInv'
    BY <1>2 DEF CallFails, SettingsTypeOK, RowsInv, LoadTells, There, Bound, Values
<1>3. CASE db_clear_setting
    <2>1. /\ DOMAIN settings' = {} /\ DOMAIN kept' = {} /\ config' = config
          /\ called'.what = "clear"
        BY <1>3, EmptyDomain DEF db_clear_setting
    <2> QED BY <2>1 DEF SettingsTypeOK, RowsInv, LoadTells, There, Values
<1>4. CASE Restart
    BY <1>4, SettingsAssumption
       DEF Restart, Initial, SettingsTypeOK, RowsInv, LoadTells, There, Bound, Values
<1>5. CASE UNCHANGED settingsVars
    BY <1>5 DEF settingsVars, SettingsTypeOK, RowsInv, LoadTells, There, Bound, Values
<1> QED BY <1>1, <1>2, <1>3, <1>4, <1>5, SaveKeeps, LoadKeeps, RemoveKeeps DEF SettingsNext

(* An item that is loaded has the value it was last saved with or, if it never *)
(* was or the value was removed, its default, over failures and restarts.       *)
(* (db.c 75-90, 188-192, 252-263, 959-1079, models.c)                            *)
THEOREM LoadsTell == SettingsSpec => []LoadTells
<1>1. SettingsInit => SettingsInv
    BY SettingsInitial
<1>2. SettingsInv /\ [SettingsNext]_settingsVars => SettingsInv'
    BY SettingsStep
<1>3. SettingsInv => LoadTells
    BY DEF SettingsInv
<1> QED BY <1>1, <1>2, <1>3, PTL DEF SettingsSpec

-----------------------------------------------------------------------------
(* Backup and repair *)

Copies == Nat \cup {NoFile, Mixed}
Working == {"init", "step", "writing", "finish"}

BackupTypeOK ==
    /\ step \in {"idle", "open", "recover"} \cup Working
    /\ op \in {"none", "backup", "repair", "died"}
    /\ content \in Nat /\ since \in Nat /\ until \in Nat /\ since <= content
    /\ file \in Copies \cup {Partly} /\ journal \in Copies /\ former \in Copies
    /\ handles \in Nat /\ badOpens \in Nat /\ backupRet \in {0, -1}

\* Where the earlier copy is while a call goes on, and which handles it has open
CallInv ==
    /\ handles = badOpens + (IF step \in Working THEN 1 ELSE 0)
    /\ step \in {"open"} \cup Working => op = "backup"
    /\ step \in {"open", "init", "step"} => Recovered = former
    /\ step = "writing" => file = Partly /\ journal = former
    /\ step = "finish" => file \in since..content
    /\ step = "recover" => op = "repair" /\ file = Partly /\ journal = NoFile

BackupInv == BackupTypeOK /\ CallInv /\ BackupWhole

LEMMA RecoveredIsCopy ==
    ASSUME BackupTypeOK PROVE Recovered \in Copies
BY DEF BackupTypeOK, Recovered, Copies, NoFile, Partly, Mixed

LEMMA BackupInitial == BackupInit => BackupInv
BY DEF BackupInit, BackupInv, BackupTypeOK, CallInv, BackupWhole, Recovered, Copies, Working,
       NoFile, Partly, Mixed

LEMMA BackupStep ==
    ASSUME BackupInv, [BackupNext]_backupVars
    PROVE  BackupInv'
<1> USE DEF BackupInv, BackupTypeOK, CallInv, BackupWhole, Recovered, Copies, Working, Returns,
            NoFile, Partly, Mixed
<1> SUFFICES ASSUME BackupNext PROVE BackupInv'
    BY DEF backupVars
<1>1. CASE Backup          BY <1>1, RecoveredIsCopy DEF Backup
<1>2. CASE BackupOpen      BY <1>2 DEF BackupOpen
<1>3. CASE BackupBegin     BY <1>3 DEF BackupBegin
<1>4. CASE BackupWrites    BY <1>4 DEF BackupWrites
<1>5. CASE BackupDone      BY <1>5 DEF BackupDone
<1>6. CASE BackupStepFails BY <1>6 DEF BackupStepFails, StepFailed
<1>7. CASE BackupFinish    BY <1>7 DEF BackupFinish
<1>8. CASE Repair          BY <1>8, RecoveredIsCopy DEF Repair
<1>9. CASE RepairDone      BY <1>9 DEF RepairDone
<1>10. CASE RepairFails    BY <1>10 DEF RepairFails
<1>11. CASE Change         BY <1>11 DEF Change
<1>12. CASE Die            BY <1>12 DEF Die
<1> QED BY <1>1, <1>2, <1>3, <1>4, <1>5, <1>6, <1>7, <1>8, <1>9, <1>10, <1>11, <1>12
           DEF BackupNext

(* A file db_backup calls good is the whole database as it was at a moment of  *)
(* the call, a backup that fails or dies leaves the earlier copy, and no handle *)
(* is forgotten but those of failed opens. (db.c 772-858)                        *)
THEOREM BackupsAreWhole == BackupSpec => []BackupWhole
<1>1. BackupInit => BackupInv
    BY BackupInitial
<1>2. BackupInv /\ [BackupNext]_backupVars => BackupInv'
    BY BackupStep
<1>3. BackupInv => BackupWhole
    BY DEF BackupInv
<1> QED BY <1>1, <1>2, <1>3, PTL DEF BackupSpec
=============================================================================
