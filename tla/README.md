# A TLA+ verification of ISORelatedUtils

ISORelatedUtils is the C support library of a payment terminal: it packs and parses
ISO 8583 messages, exchanges them with a switch over TCP or TLS, keeps settings and a log
in a SQLite database whose schema it migrates, offers a small HTTP API, downloads files and
writes a log. There is no build file and no test in the repository, so the source is
the only reference; every definition of the modules here is a translation of the lines that
`PROJECT.json` names for it under `map`.

Mongoose (the event library behind `web.c`), SQLite, the C library, the network and the
programs that call the library are not part of the repository. They are modelled by how
the code uses them, and marked `external` in the map.

## 1. Inventory

### 1.1 Components

| Component | Source | State | Operations | Module |
|---|---|---|---|---|
| switch connection | `web.c` 255-390 | `status`, `send_index`, the two buffers, mongoose's queues | `swc_init`, `swc_wait_connect`, `swc_send_recv`, `swc_destroy`, events of `iso_handler` | `SwitchLink`, `Exchange` |
| download | `web.c` 392-556 | `running`, `error`, buffer or file | `api_download`, events of `http_response_handler` | `Download` |
| HTTP API server | `web.c` 110-251 | marks of a connection, its buffer | `fn_api`, `test_api`, `api_server` | `HttpApi` |
| database handle | `db.c` 176-224, 320-503 and each query | `db`, `db_connections` | `db_open`, `db_close`, `db_has_connection`, every query | `DbHandle` |
| schema migration | `db.c` 153-174, 226-318, 505-672 | `user_version`, the schema, table `migration` | `db_migrate` | `Migration` |
| log table | `db.c` 131-151, 891-956 | table `logs` | `db_insert_log(_raw)`, `db_rotate_log`, `db_get_log` | `LogTable` |
| settings | `db.c` 70-130, 958-1080, `models.c` | table `settings`, the items in memory | `db_*_setting*`, `config_load`, `config_save` | `Settings` |
| backup, repair, vacuum, integrity | `db.c` 674-890 | a file, handles of it | `db_backup`, `db_repair`; the others are queries of `DbHandle` | `Backup` |
| message parser | `iso_buffer.c` 17-264 | cursor, bitmap | `iso_get_buffer`, `iso_test_buffer` | `IsoParse`, `IsoHypercom` |
| packing cursor | `iso_buffer.c` 266-391 | buffer, index | `iso_init`, `iso_pack_*`, `iso_get_*` | `IsoBuffer` |
| TCP client | `socket.c` 98-333 | a descriptor, collected bytes | `socket_init`, `socket_send`, `socket_recv`, `socket_close` | `Socket` |
| NTP client | `ntp.c` | a descriptor, one packet | `resolve_ip`, `ntp` | `Ntp` |
| serial port | `serial.c` | the line, the queues of the driver | `serial_open`, `_send`, `_recv`, `_flush`, `_drain`, `_has_buffer`, `_close` | `Serial` |
| log sink | `log.c` | `log_config` | `log_open`, `log_close`, `log_set_*`, `log_` | `LogSink` |
| calendar | `util.c` 18-20, 242-400 | none | the two date converters | `Calendar` |
| text, hex and padding helpers, base32 | `util.c`, `base32.c` | none | pure functions | `Helpers`; hexify also in `IsoBuffer` |
| service passwords | `util.c` 604-633 | none, the clock | `passwd_debug`, `passwd_debug_check` | `Passwords` |
| crypto helpers | `ssm.c` | none | block modes, MACs, PIN block around a library's cipher | `Ssm` |
| text of receipts, SQL extensions | `trans.c`, `eval.c`, `hash.c` | none | formatting; SQL functions | not modelled |
| interface status | `socket.c` 25-97 | none | `ioctl` calls | not modelled |

### 1.2 How the components interact

* A caller of the switch connection packs a request with the packing cursor into the buffer
  `swc->send`, which may be the buffer `swc->recv`; `swc_send_recv` polls mongoose, which calls
  `iso_handler`; the handler moves the state on and compares an index into one buffer with the
  index of the other. The answer is then parsed and read out with the same cursor.
* The HTTP server and the download are two further, independent uses of mongoose: blocking
  calls that poll, and a handler that shares state with the poller through a struct.
* Every database function goes through one static handle and counts itself in
  `db_connections`. Row callbacks and the error callback run inside the query and may call any
  database function again. The migration is called after the handle is opened.
* The settings, the log and the backup are three uses of that database that share no rows and
  no files. The configuration items are variables of the application; the table outlives them.
* `log_` hands a message to a file, a UDP socket and a callback of the application, which may
  log or reopen the log; several components log.
* The TCP, NTP and serial clients, and the pure functions, are called on their own.

### 1.3 What is hard here, and what makes it right

* **Callbacks inside calls.** The status of the switch connection is written by the caller's
  code and by the handler; events come in any order a network can bring about, and more events
  of one poll still come after the one that ended the call. Right: an answer that is delivered
  is the answer to the last request (`ReplyMatches`, `ExchangeSpec`); an error survives the
  closing (`ErrorKept`); calls return (`CallReturns`, `ExchangeEnds`, `DownloadReturns`).
* **Streams.** TCP cuts and glues frames and requests. Right: only whole frames in their order
  (`FramesInOrder`), requests answered in turn up to the limit of
  the buffer (`AnsweredInTurn`, `NothingBeyondLimit`), and bytes of the serial line neither lost
  nor doubled but by a flush (`DrainedSent`).
* **Late, cut and doubled answers.** NTP takes the next datagram for its answer. Right: which
  times may be believed (`TimeFresh`), and every limited call ends (`CallsEnd`).
* **Crashes and partial failure.** A migration is a sequence of statements that commit one by
  one, in releases that come and go. Right: what a version promises is there, what must be
  undone is recorded, and it converges (`SchemaComplete`, `RollbacksRecorded`,
  `DowngradeClean`, `Converges`). A download that fails, a log that is opened halfway and a
  socket that is refused leave nothing behind (`BodyOrNothing`, `NoHandleLost`, `DescriptorsKept`);
  a backup that dies leaves the copy there was (`BackupWhole`); a setting has its saved value or
  its default after any restart (`LoadTells`).
* **Re-entrance and threads.** `db_close` in a row callback or by another thread, `log_open` in a
  log callback, rows that move between two pages. Right: `ClosedIsIdle`, `CountTells`,
  `NoHandleLost`, `SentInOrder`, `NothingMissed`, `NoneTwice`.
* **Boundaries.** The last bytes of a buffer, the lengths a message declares about itself, partial
  blocks, padding bits, the first days of a year, midnight. Right: `InBounds`,
  `MeasuresExactly`, `BufferTypeOK`, `PackedComesBack`, `BufferHolds`, `ConversionsBack`,
  `StaysInside`, `BlocksBack`, `BackWithinADay`, `PersianFollows`, `PinTells`.

`PROJECT.json` lists the hazards line by line with the properties that watch them.

## 2. The modules and the code

`X.tla` is a component, `MCX.tla` gives its constants small values, `X.cfg` is its run, and
the `*Proofs` modules hold the theorems. Components that share no state share a run: the modules
`MCWeb`, `MCDevices`, `MCTables` and `MCConversions` have a variable `subject` that says which of them a
behaviour uses, so that their state spaces add instead of multiply. In the same way
`SwitchLinkProofs` is about SwitchLink, `WebProofs` about Download and HttpApi, `DatabaseProofs` about Migration and DbHandle,
`LogsAndTablesProofs` about LogTable, LogSink, Settings and Backup, `IsoProofs` about IsoParse and IsoBuffer,
`DevicesProofs` about Socket, Ntp and Serial, `ArithmeticProofs` about numbers, and Passwords, Ssm and Calendar, and
`ConversionsProofs` about Helpers. Of two components in one such module the second has names of its own for `Init`, `Next` and `Spec`
(`BufferSpec`, `HandleSpec`). Operators commented *Mutant of* are never used by a
specification; each is a plausible slip in the definition it stands beside, and the property
checked with it in the place of that definition is known to fail.

### SwitchLink, Exchange, SwitchLinkProps

`SwitchLink` has one action per call up to its first poll, one per event of `iso_handler`, and
`PollEnd` for the return of `mg_mgr_poll` (the countdown `--timeout` and the loop condition).
`status` is `swc->status`, `pc` says which call is polling, `recv` is the used part of
`swc->recv`, `cSend` and `cRecv` are mongoose's buffers, `wire` and `net` what is on its way.
A request is `ReqLen` copies of its number; a reply is the two length bytes and the number
it answers, so that a torn or strange frame is visible. The two length bytes have the weight `Base`, 256 in the code and 2 in
the run, where a frame is three bytes long and the first of them already counts. `--timeout` that starts at
zero counts down for ever: it is kept at -1. `torn` is a history: a call timed out with a part of a reply in the buffer,
which the next call empties. What a caller who goes on reads after that begins within a reply.

How the link is used is a variable that never changes, `usage`: whether both buffers are one,
whether the socket takes parts of what is written, and whether the caller gives the link up
after a failure. The usages the runs visit are in `MCSwitchLink`. After partial writes more can have gone out
than the request has, and `mg_send` is given a negative length (web.c 304). Almost always that queues nothing; if the queue holds at
least as much, the sum wraps around, the copy is undefined, and the model stops (`EvWriteBeyond`, `pc = "overrun"`). `QueueMax` bounds
mongoose's queues and with them the copy of web.c 284, which has no bound of its own.

`Exchange` is what the link promises a careful caller: requests are asked one at a time, an
answer is the answer to the last one, a failure ends it. `ExchangeSpec` is the refinement: the
phase is a function of `status` and `pc`, the answer is the third byte of `recv`. Exchange
sees nothing of the usages for which nothing is promised.

### Migration

One action per statement of `db_migrate`: a forward step, an undo step, a rollback of a row, the
recording of a step, the setting of the version. `Stop` is a crash or a failure at any of them.
The disk (`version`, `objects`, `rows`) outlives it, the locals do not matter any more.
`Install` puts another release on the terminal. The repository holds the table of one release
only; the module takes the tables of releases 1..MaxApp as constants under the conventions
the comments and the code of db.c 228-248 follow (`LatestAssumption`, `DeltaAssumption`,
`FreshAssumption`): migration 0 creates the newest schema, migration i leads to version i+1, and
no object is created by two of them. The rollbacks are run by `EVAL` inside the `SELECT` that reads them, on the same handle
(db.c 173, 576; eval.c 92). There SQLite refuses to drop a table or an index, each time: `RollbackRefused` is not a fault and
has no bound. It does not refuse statements of other kinds, such as `DROP VIEW`, and a `DROP ... IF EXISTS` of
what is not there does nothing; so the objects with a rollback are of two kinds, `Droppable` and `Erasable`. In the undo after a
failed forward statement no query is open, and both kinds go.

### IsoHypercom, IsoParse

`IsoHypercom` is the whole field table; `IsoParse` is one action per outcome of a loop iteration
of `iso_test_buffer`, over bytes. Its reference is `Composed`: what it means that a record `c` of bytes, fields,
their sizes and the places where they begin was written from the table, said place by place and without a
parser. The variable `sent` is such a message and never changes; `buf` is what was received, which may be that message,
a part of it, more, or something else. `MCIsoParse` encodes messages field by field (TLC checks that they are `Composed`),
cuts them, puts bytes behind them, and adds messages with length bytes that are no decimal digits.

### IsoBuffer

The cursor: four packing functions, `Rewind`, six reading functions, each with the bounds test of
its own that the code has. `iso_get_int_bytes` accumulates in a long, which has `LongRange` values and a sign. `asked`, `lost` and `taken` are
histories: the bytes that were to be packed, whether any were dropped for want of
room, and the items that were stored, each with its index.

### Socket, Ntp, Serial (MCDevices)

`Socket` is `socket_init` step by step with every exit, `socket_send` in pieces, `socket_recv` with its
test after every piece; a peer that sends up to `PerRequest` frames for a request; a network
that lets any number of bytes arrive at a time. The length bytes have the weight `Base`, 2 in the
run and 256 in the code, so that both matter in short frames. A frame may have no payload: the test `i_out > 2` (socket.c 297) never takes
one. The timeout may be 0, which sets no limit (204), and otherwise it is a limit of each `recv`. The client's buffer has `OutSize`
bytes; the code does not know, and where it would write behind them the model stops (`pc = "overrun"`).

`Ntp` is one call of `ntp` from the resolving to the closing, again and again. The client looks at nothing in
the answer but the timestamp; the network delays, cuts and doubles datagrams, and the system
may give a port a second time. The timestamp has two digits of the base `Digit` (four of 256), so that
its era ends within the run.

`Serial` is every function of the POSIX branch over a driver with two queues. Bytes that are sent are
numbered, bytes that come have two bits; `TopBit` is what `ISTRIP` takes away, which the code sets with a
parity. A write may be cut short by a signal, a drain may return early.

### Download, HttpApi (MCWeb)

`Download` has `api_download`'s beginning and end and one action per event, each allocation and
`fopen` with both outcomes. `fwrite` writes any part of its chunk and `fclose` keeps any part of the file, and the code looks at
neither (`short` is the history of it). Chunks have any size, also one beyond the first allocation, whose copy the code does not check:
there the model stops (`pc = "overrun"`). `mg_http_connect` may return NULL without an event; the loop polls on without a
connection, and nothing ends it. A response may have the status 0, which the code takes for the error 0. `HttpApi` has fn_api's two events, the marks
`is_closing`, `is_draining` and `is_full`, and mongoose's loop: read, cut out requests one by
one, write, close. Two facts about mongoose are taken from the code's own tests: the
user's handler runs before mongoose's HTTP handler deletes a request, and one event comes
for each whole request in the buffer, also when the connection is marked (web.c 156).

### DbHandle

A thread has a stack of queries, because callbacks re-enter. A query goes from the
check of the handle over the preparation, the reading and the writing of `++db_connections`, the steps
and callbacks, the finalizing, to `--db_connections`. `crew` is the set of threads that use the
handle in a behaviour. One call of SQLite is one step. `db_open` is a query of its own kind (`"setup"`), since `db_setup_connection` runs
`sqlite3_exec` on the new handle, with its `++` and `--`, its error callback, and a `db_close` when it failed (`CloseUndone`), which SQLite
refuses if another thread is at work by then.

### LogTable, Settings, Backup (MCTables)

`LogTable` is the table of log rows with their rowids and a reader that takes page after page
while rows come and go, also in its callback. `Settings` is the table under `config_load` and
`config_save` with the items in memory: the empty text is stored as NULL, removal matches by LIKE, any
statement may fail, a restart forgets the memory. A key is a sequence of chars because LIKE looks
into it. `kept` and `hit` are histories of what was saved, and of what the removal of another key
took. `Backup` is `db_backup` and `db_repair`, one action per call of SQLite with both its outcomes;
contents are numbered by the changes to the database, and `Partly` is a half-written file whose journal brings the
earlier copy back.

### LogSink

`log_config` with the handles the system holds for it, and a stack of calls of `log_`.

### Numbers, Calendar, Helpers, Ssm, Passwords (MCConversions)

`Numbers` has the powers and the exclusive or of C, as recursive functions. `Calendar` walks day by day through years and
converts each day there and back; the loop over the months is the choice of the month it stops at. `Helpers` has one
operator for each function; a behaviour takes a job, converts it, and converts the result back. A loop is a function of
how often it went round: `Encoding(data, n)[k]` is the state of the loop of `base32_encode` after `k` letters.
`Jobs` may be any values (`IsJob`), the empty text and negative octets among them, but numbers to be written in BCD have at most seven
digits and texts with commas at most nine, so that the `int` they are read into has room. `three_digit_separator` looks behind the
terminator of an empty text (util.c 106): what may be seen of its result are the empty text and a comma. The bits of a negative octet reach over
all octets before it.
`Ssm` composes a message, encrypts and decrypts it; the cipher is a constant function that is one to one on
blocks, and `behind` are the bytes behind a message, which the code reads. In `Passwords` two calls read the
clock twice each while it moves.

## 3. The runs

| Run | Shows | Bounds, and why they are enough |
|---|---|---|
| SwitchLink | `ReplyMatches` and `ExchangeSpec` for a careful caller; `StaleButWhole` for one that goes on; `ErrorKept`; `CallReturns`; `ExchangeEnds` | Two requests of two bytes, a length base of 2, queues of six, timeouts 0 to 2, four usages. A stale reply needs two requests; a partial write needs two bytes; a queue of six holds two replies. |
| SeparateBuffers | `WrittenIsReceiving` is violated, see 5 | The same, by a careful caller with two buffers. |
| Migration | `SchemaComplete`, `RollbacksRecorded`, `DowngradeClean`, `Converges` | Three releases, three faults, four installations: a downgrade that is interrupted, an upgrade on top, another downgrade. A table, two views, and a table that no rollback takes away: downgrades that end and one that cannot. |
| IsoParse | `InBounds`, `MeasuresExactly` | Up to two of six fields that stand for each kind of field and both bitmaps, with the least, a small and the greatest length, cut at every interesting place. |
| IsoField128 | `CountsField128` is violated, see 5 | The same, with field 128. |
| IsoBuffer | `BufferTypeOK` (the cursor stays inside), `PackedComesBack` | Seven bytes, five items of up to three bytes, a long of two: the end of the buffer is met with each kind of item, at each distance. |
| Devices | `DescriptorsKept`, `FramesInOrder`; `TimeFresh`; `DrainedSent`; `CallsEnd` | Two sockets, two requests, up to two frames of two, four or five bytes each, received three at a time into a buffer of six, with a limit and without; two calls of ntp over two ports, two answers under way, a clock that passes the end of the era; three bytes each way over a queue of two. |
| Web | `BufferHolds`, `BodyOrNothing`, `DownloadReturns`; `AnsweredInTurn`, `NothingBeyondLimit`, `RefusedIsClosed` | Two downloads of five bytes in chunks of one to three, an initial allocation of two: a first chunk that fits and one that does not, a growing buffer, and what one download leaves for the next. Three requests of eight kinds, a limit of four bytes, reads of up to three: one to three requests per read, requests over two reads, and one larger than the buffer. |
| Conversions | `BackWithinADay`, `PersianFollows`; `ConversionsBack`, `StaysInside`; `BlocksBack`; `PinTells` | Every day of 1901 to 2099. Byte sequences up to six, of the least, the greatest and mixed bytes, against buffers of 0 to 11; every char of a code page alone and some three together; every mask of four octets of two bits, below 0 and above as well. Messages of zero to five elements in blocks of two; PINs of zero to twelve digits. Six moments around midnight. |
| DbHandle | `ClosedIsIdle`, `CountTells` | One thread four queries deep, and two threads two deep, with the counter at most four, or one, from zero when a query begins. |
| Tables | `NothingMissed`, `NoneTwice`; `LoadTells`; `BackupWhole` | Six messages, pages of two, rotations to zero, one and three. Four keys of which one matches another by its underscore and one by its case, and three saves. Three changes, two failed opens. |
| LogSink | `NoHandleLost`, `SentInOrder` | Four handles, three messages, two deep. |

Bounds are constants named in the modules and stand in guards only. `CHECK_DEADLOCK FALSE` is
set where a bound, or the end of the work, really stops the system.

Which preconditions limit the properties, and why:

* `ReplyMatches` and `ExchangeSpec` hold for a caller that gives the link up after a failure and a socket
  that takes a whole request. Without the first a late reply is delivered: `StaleButWhole`
  says what is left of the promise as long as no call ended within a reply (`torn`); after that the rest of the reply is read
  for a length, and what is delivered need not be a reply at all. After a partial write the code queues the rest twice; nothing
  in the repository promises a reply then, and the run shows only that calls return.
* `ErrorKept` is about the polling. What the events of `mg_mgr_free` do to the status concerns no call any more.
* `SchemaComplete` promises all objects up to the oldest release an interrupted downgrade aimed at (`floor`), and above it those that no
  downgrade can erase. What an interrupted downgrade has erased is missing if the newer release comes back at the same version: the code
  then finds the versions equal and does nothing.
* `Converges` exempts the downgrades that would have to drop a table or an index (`Hindered`): they fail each time.
* `ClosedIsIdle` sees a call of SQLite as one step. That a thread loads the pointer, another closes the handle, and the first then uses it, is not
  modelled.
* `CountTells` holds for all threads as long as no two of them were between the reading and the writing of
  the counter at the same moment (`raced`). `++` and `--` on a `sig_atomic_t` are not atomic; after such a
  meeting the counter may be wrong for ever, and the model has that drift.
* `NoneTwice` holds as long as no row was inserted since the first page.
* `BodyOrNothing` speaks of the bytes that were delivered. That these are the whole
  body is not what the code ensures: a connection that closes early ends the loop with 0. Of a file it promises them all
  only if no `fwrite` and no `fclose` lost any; otherwise what there is is still of the body and in order.
* `BufferHolds` exempts the first chunk of a body of unknown length: 1024 bytes are allocated for it, and its copy is not checked (web.c 470, 508).
* `DownloadReturns` is about calls that have a connection, and takes it that every connection is over some day. Without one, or with
  a peer that does neither go on nor close, the loop at web.c 539 never ends: it has no time limit.
* `CallsEnd` says of `socket_recv` that it ends on a socket with a time limit. The limit is one of each `recv`: what ends the call while a
  peer sends on and on is only the end of the client's buffer, behind which nothing is promised.
* `TimeFresh` holds until the 32 bits of the timestamp start again. A cut answer is read as an early time,
  and the answer to an earlier call on the same port as an old one: the property bounds both, and the code tells neither
  from a good answer.
* `DrainedSent` exempts a queue that a flush was asked to empty, and compares what comes after the top bit
  is stripped.
* `LoadTells` lets the removal of one key take away the rows of others that match it by LIKE (db.c 87); nothing in
  the repository says whether that is wanted.
* `BackupWhole` counts the handles of failed opens apart, for the code never closes them (db.c 783). A repair while
  other threads write may give a file that mixes contents, and one that fails removes the file that was there.
* `PinTells` is about a making and a checking that read the same date. A midnight between the two readings of one call gives a
  password of the wrong day, which nothing in the code prevents.
* `StaysInside` describes the masks that are accepted exactly for octets without a sign; of negative ones it says only that the ones of the mask are in front.
* `BlocksBack` leaves out what the code loses: a partial block in the same buffer, which is
  encrypted twice, and PINs of ten digits and more, whose length is no digit.
* `ConversionsBack` leaves out a base32 text that filled the encoder's buffer, which is not terminated. A number of eight digits still
  fits BCD if the first of them is at most 7; `IsJob` draws the line before them.
* `BackWithinADay` speaks of 1901 to 2099, in which every fourth year is a leap year: the loop at util.c 383 knows no other rule.

## 4. Fairness

* `PollingSpec` (SwitchLink): `PollEnd` is weakly fair, because the two blocking calls do nothing but
  poll and count. `CallReturns` needs no more. `ExchangeEnds` states its own assumption,
  `Answering`: what is queued is written, what arrived is read, and the switch answers.
* `FairSpec` (Migration): the application starts the migration again at every start, and
  it runs. A refusal of SQLite is no failure that goes away: it is part of `Migrate` and comes again each time. Crashes, failures and updates are
  bounded, so they end.
* `DevicesSpec`: the call under way goes on while it can, for the process is alone with the
  device. `socket_recv` can go on if `socket_init` set a limit with `SO_RCVTIMEO`; without one it waits for the peer (`RecvBreaks` may end it, and
  is not fair); `ntp` because of its
  own limit, if it has one; `serial_recv` because `VMIN` and `VTIME` are zeroed; `serial_send` and `serial_drain`
  because `CRTSCTS` and `IXON` are off, so that the line always transmits. No fairness is assumed of peers, the station and
  the network.
* `FairSpec` (Download): the loop ends when its flag is cleared. That a connection is over some day, which mongoose reports, is
  an assumption `DownloadReturns` states itself, because nothing in the code brings it about.
* `ApiFairSpec` (HttpApi): every poll cuts out what is whole, writes, and closes what is marked.
  Writing and closing are strongly fair: they are part of every poll, but more bytes of the
  client interrupt them again and again.

## 5. What the code does otherwise than its text says

`iso_test_buffer` visits the table up to index 128, which is field 127, while the table has
field 128 at index 129: the run `IsoField128` shows a message with this field that is measured
without it.

`iso_handler` compares `send_index` with `recv->index` to find that the request is written (web.c 297), and counts what is left of
it from `send` (304). `swc_init` takes a buffer for each way; the two agree only if they are one. The run `SeparateBuffers` shows a careful caller with two
buffers: the whole request is written, nothing of it is left, and the status becomes ERROR instead of RECEIVING, because `mg_send` is
asked to send nothing.

Of the conversion back to the Gregorian calendar (util.c 362) no text says how exact it is. The place
of the year in the leap cycle is computed as `x * 10000 / 305` and compared with 0 to 3; most
years before about 1960 and many winters come back as the day before or after, and once a year as
the first of a month 13. `BackWithinADay` bounds what that costs.

## 6. Proofs

TLAPS checks the following for every value of the constants that satisfies the named
assumptions.

* **SwitchLinkProofs.** `TypeCorrect`; `LinkInvariant`; from it `AnswersMatch` (`ReplyMatches`) and
  `LinkImplementsExchange` (`Spec => ExchangeSpec`). `ReplyMatches` is not inductive: that
  the buffer holds the right reply at the end needs to know, at each earlier status, which bytes
  are queued, on the wire and read. `LinkInv` says that: while SENDING the whole request is queued
  and nothing else is anywhere; while RECEIVING either the request is on the wire, or what was
  received and what is under way together are the reply; CONNECTED and IDLE are quiet. The lemma
  `CompleteReply` shows that no part of a reply passes the length test. The refinement follows
  from `PhaseStep`, which says what every step is to the caller.
* **DatabaseProofs**, on `Migration`. `SchemaStaysComplete`, `RollbacksStayRecorded`, `DowngradesAreClean`,
  `MigrationTypes`, for any number of releases, objects, faults and installations. The
  inductive invariant is `TypeOK /\ MigrationInv`, where `Progress` adds how far the run in progress has
  come: which steps are done, which rows recorded, which of those still to be visited.
  It needs `floor`, a history variable that names the oldest release a downgrade to
  which was begun and not finished. A refused rollback leaves its row and its object, so a downgrade it ends never lowers the version.
* **SwitchLinkProofs**, on any caller. `ErrorsKept` (`ErrorKept`): the handler's events may follow the one that recorded an
  error in any order; `OpeningInv` says that a connection
  that recorded an error is no longer being opened, so that no event can report it connected. `LateRepliesWhole`
  (`StaleButWhole`) needs `WaysOut` and `WayBack`: what is queued and on the wire are names of requests, and
  what was read, is there to be read and is under way are, put together, whole replies of this connection.
* **IsoProofs**, on `IsoParse`. For every table within the shape `DefsAssumption` and `BitmapAssumption` give it. `ParserTypes` (`TypeOK`) and
  `ParserStaysInside` (`InBounds`), whatever the bytes: the core is the lemma `FieldFits`. `ParserMeasures` (`MeasuresExactly`),
  whatever was composed from the table and whatever part of it, or more than it, was received. `MeasureInv` says, as long as
  neither contradicts the other, that the cursor stands where the next definition begins (`c.at[i]`), that the
  bitmaps are known as far as they were passed (`MapAt`), and that a rejection means a cut. The lemmas about data are
  `DeclaredIsTold` (a length is read as it was written, decimal or binary, in one byte or two), `FieldMeasured`,
  `PresentIsUsed` and `OverlayKnown`.
* **IsoProofs**, on `IsoBuffer`. For every buffer length and every item. `CursorStaysInside` (`BufferTypeOK`): the cursor is in the buffer or at
  its end and the buffer keeps its shape. `PackedIsGot` (`PackedComesBack`): `BufferInv` adds that every
  item that was not lost is still in the buffer at its index (`Stored`), what the packing has done
  so far (`Packing`) and what the reading (`Getting`).
* **WebProofs.** `DownloadFits` (`BufferHolds`) and `DownloadDelivers` (`BodyOrNothing`), for every body, chunks of every size,
  every first allocation, and any number of downloads; `ChunksAssumption` says only that a chunk has a byte. `DownloadInv` adds that a buffer that was allocated
  is live as long as nothing failed; that the place of the file is empty when the connection comes up; that memory
  holds `Body(d)` as long as nothing failed, and the file the same as long as no write lost bytes, and otherwise some of it in order; and that no file
  is there if none was opened. `ApiAnswers` (`AnsweredInTurn`) and
  the action property `ApiStopsAtLimit` (`NothingBeyondLimit`), for every limit and every request. `ApiInv` adds to the property which marks of a
  connection bring which others with them, and that one is only drained while an answer is left to write (`Marked`).
* **DatabaseProofs**, on `DbHandle`. For any number of threads and any depth of callbacks. `HandleClosedIdle` (`ClosedIsIdle`) is
  inductive with its types; the lemmas `PushIdle`, `ReplaceIdle` and `PopIdle` say what a step does to a thread's stack of queries.
  `HandleCountTells` (`CountTells`): `CountInv` says that the counter is the number of the queries, over all
  stacks, that are between their `++` and their `--` (`Counted`), that a thread between reading and writing has read
  this number, and that all queries of a stack but the last are in a callback (`Nested`).
* **LogsAndTablesProofs.** `LogNothingMissed` and `LogNoneTwice`: `LogInv` adds that the rows are sorted by their rowids, and that the rows
  above the reader's place which were there at the start have been shown. `SinkNoHandleLost`: `HandlesInv` adds
  that an open socket has the address that was chosen, and that a failed `log_open` leaves nothing. `SinkSentInOrder`: `TraceInv` adds that
  all calls on the stack but the last are in their callback, and that the last has the highest number until it has written. `LoadsTell` (`LoadTells`),
  for every set of keys
  and texts: `RowsInv` says that a row is there exactly if
  its key was saved and neither removed nor hit, and holds what was bound; `NullAssumption` keeps NULL apart from texts.
  `BackupsAreWhole` (`BackupWhole`), for any number of changes and failures: `CallInv` says where the
  earlier copy is at each step of a call, in the file or in its journal, and which handle is open.
* **DevicesProofs.** `SocketDescriptorsKept` (`DescriptorsKept`): `SocketAt` says which options the descriptor has, and how far
  its connection is, at each step of `socket_init`. `SocketFramesInOrder` (`FramesInOrder`), for every `Base`: `StreamInv` says that what was
  returned, what is collected and
  what the network still has are one after the other what the peer said, and that what was returned ends between two frames. `NtpTimeFresh`
  (`TimeFresh`): `NtpInv` says of every datagram under way when it was stamped. `SerialDrainedSent`
  (`DrainedSent`): `OutputInv` and `InputInv` account for every byte of either direction.

* **ArithmeticProofs** begins with what the other proofs about data stand on. The induction rules of the library take an operator for a
  parameter, which the provers cannot instantiate; but a *set* of numbers can be a parameter. `LeastNumber` takes the least element of a set from
  the well-foundedness of the numbers, `AllNumbers` and `AllUpTo` are induction for a set of numbers, and `Recursion` gives the
  function that a recursive definition describes, for a step that is a function. With it the recursive functions of the
  models can be unfolded. `XorFacts` (the exclusive or commutes, stays below a power of two, and undoes itself), the powers, and
  quotient and rest (`Divided`, `DividedUnique`) follow.
  * `PasswordTells` (`PinTells`), for every set of terminals and menus and every course of the clock: `PasswordsInv` says what `date` and `pin` hold
    before each of the four readings; `PasswordUndone` takes the two exclusive ors off again, `CodedFacts` reads time and menu.
  * `EncryptedComesBack` (`BlocksBack`), for every length of a block, every set of bytes that the exclusive or stays in, every cipher that is one to
    one on blocks,
    every message and PIN, and whatever is behind the message: `SsmInv` says that the buffer holds what the steps so far make of the task. CBC takes
    induction over
    the blocks of the chain, and so does its equality with the chain of the MAC.
  * `NoDaySkipped` (`PersianFollows`), for every set of years, and `OffByADayAtMost` (`BackWithinADay`): `CalendarInv` says that `today` is a day and `persian`
    what is made of it. From there both are facts about one day: `ToPersian` and `ToGregorian` are written as functions of
    the day of the year (`FromDay`, `ToGregorianIs`), the place of the year in the leap cycle is split into its cases, and the sums up
    to each month say in which month the loop stops (`MonthFound`).
* **ConversionsProofs.** `WhatIsConvertedComesBack` (`ConversionsBack`) and `ConversionsHaveBounds` (`StaysInside`), for every job of
  the shape `IsJob`, every width of the accumulator from 13 bits to 32 and every width of an octet up to eight. `HelpersInv` says that a converted
  job has its result, so each conversion becomes a lemma of its own.
  * Base32 (`Base32Back`): bytes are read into the accumulator and letters taken out of it, or the other way round.
    The value `V` of what was read, as a number to the base 256, and the value `W` of what was written, to the base 32, satisfy `V = 2^bits * W` + the
    last `bits` bits of the accumulator (`Holds`), also when it has lost its high bits; `ReadAndWrite` is one round, `EncodingIs` and
    `DecodingIs` the loops. At the end both values are the same up to the padding, and `SameDigits` says that as many digits of the same value are the
    same digits. `TypedDecoded` takes lower case, mistyped letters and a separator in.
  * Hexadecimal (`HexBack`), BCD (`BcdBack`: the same digits written to one base and read to the other), commas
    (`SeparatorBack`, `CommaReadsNothing`), padding (`PadBack`); texts of the code pages (`PagesStayInside`), subnet masks (`SubnetIsOnes`, and `AcceptedIsOnes`
    for octets of any sign; `MaskOfOctets` says that octets in range do not reach into each other's bits), bitmaps (`BitmapInside`).

What is only model-checked:

* liveness (`CallReturns`, `ExchangeEnds`, `Converges`, `CallsEnd`, `DownloadReturns`, `RefusedIsClosed`): it rests on fairness, so on `ENABLED`,
  for which the prover has no rule here;
* `CountsField128` and `WrittenIsReceiving`, which do not hold.

Every other property of the runs, each invariant, action property and the refinement, is a theorem.

## 7. What is not modelled

* TLS set-up and certificates, DNS, the check of an IP text: they only decide whether a
  connection begins.
* The text of log lines, of receipts and of translations, `iso_print`, the printing handlers of
  mongoose events.
* Ciphers, hashes, HMAC, HOTP and the text of keys (`ssm.c`, `hash.c`): a library computes them, the code passes
  pointers. The cipher is a constant.
* `valid_hexstring`, `findChar`, `reverse_array`, `random_string` and the keypad of `util.c`: a loop or a table each, with
  no way back that a property could compare. `passwd_supervisor` and `passwd_reset` make a number nothing in the repository reads.
* That `remove` fails (web.c 408, 550).
* What follows a write behind a buffer or a copy of a negative length: the models stop there (`"overrun"`).
* `trans.c` (tables of words and the layout of texts), the registration of SQL functions in `eval.c` and `hash.c`.
* A pointer loaded by one thread and used after another freed what it points to: a call of SQLite
  on the handle is one step.
* `socket_if_stat` and `socket_check_up_down`, which only ask the kernel.
* The parsing and formatting of dates by the C library around the converters.

## 8. Plan

All components with control of their own are modelled, and every safety property of the runs is a theorem. What is left:
the refinement of `Exchange` under fairness, when the prover has a rule for it; the transcripts of `trans.c`, if a property is
found that is about more than their layout.
