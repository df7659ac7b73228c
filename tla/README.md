# Verification of the ebo login server

`src/ebo` is a small login server in C++ on top of the `muzi` reactor library
(not in this repository). Clients send `GET /login?time=..&salt=..&user=..&sign=..`
and get a JSON status. This directory holds TLA+ models of it, the TLC runs
that check them and the TLAPS proofs about them.

## The system

| Component | State | Operations | Hard behaviour |
|---|---|---|---|
| HTTP front end (`ebo_server.cc`) | per connection: the muzi `Buffer`, the context (an `HttpMessage`); three IO threads, a connection belongs to one of them | `OnMessage`, `Dispath`, `Response` | TCP cuts and joins requests anywhere; one `Parse` for all of the Buffer; a loop that trusts `Parse` to make progress |
| HTTP message (`http_parser.cc`) | `parsed_`, `header_parsed_`, `url_`, `method_`, `headers_`, `body_`, the parser's `http_errno` | `Parse` and the callbacks; `Url::Parse` | incremental, reused for all requests of a connection |
| Login (`ebo_server.cc`, `mysql_client.cc`) | one `MysqlClient` (`connected_`, the `MYSQL` handle), one `EboUser` table, shared by the IO threads without a lock | `Init` (connect, create the table, close), `OnLogin` (connect, query, verify) | interleaved library calls, lost sessions, failed steps |
| Log channel (`log_outputer.cc`, `log_server.cc`) | a Unix stream socket at `./log/log.sock`, the daemon's `LogFile` and `write_count_` | `Start`, `Output`, `Stop`, `Run`; `OnMessage`, `OnConnection` | the daemon needs time to bind, sleeps before it looks at its parent, dies on its own schedule |
| Subprocess (`subprocess.cc`) | a socketpair, a pid | `CreateSubProcess`, `SendFd`, `RecvFd`, `SwitchToDaemon`, `CloseFd` | fork, descriptors in flight, end of file as a value |
| Tables and fields (`database_client.*`, `mysql_client.cc`, `sqlite3_client.cc`) | fields with operation bits and owned values | `Create`, `Drop`, `Insert`, `Delete`, `Modify`, `Query`, `Copy` | which rows a statement touches; ownership of strings |
| `Sqlite3Client` | the `sqlite3 *` handle, the locks and the transaction behind it | `Connect`, `Exec`, `Close`, transactions, the statements of `__Sqlite3Table` | a failed open leaves a handle; refused commits; exceptions through `sqlite3_exec`; other processes on the file |
| `Encryptor`, `main` | none | MD5; wiring | none |

Interaction: muzi calls `OnMessage` on the IO thread of the connection; it calls
`Parse` on the connection's `HttpMessage` and `Dispath`, which calls `OnLogin`;
that uses the shared `MysqlClient`, and `Response` writes to the connection.
Every `LOG_*` goes through `LogOupter::Output` to the daemon.

What makes each component correct:

- **HTTP front end and message.** One reply for each request, in order, about
  the request itself: not about bytes of an older one that the reused
  `HttpMessage` still holds, and not before its last byte came. `OnMessage`
  returns, because the other connections of its thread wait for it.
- **Login.** A login gets the status of its own arguments and of its own user's
  row; the process survives failing queries; a failing `Connect` leaves a client
  that can connect; no session is left open.
- **Log channel and subprocess.** A server's lines go to its own daemon; a
  daemon that ends does not take the path of the next one; every daemon ends;
  what may be lost in a crash is bounded.
- **Tables, fields.** A statement touches the rows its conditions name; a field's
  string is its own and freed once; a value is written back as it was read.
- **Sqlite3Client.** The file changes when a call says so and inside a transaction
  only at its commit; a Query sees one state of the file; nobody holds a lock
  longer than a transaction or a Query.

## Modules

| Module | What it is |
|---|---|
| `HttpConnection` | connections, IO threads, `OnMessage`, `HttpMessage` and its parser; its properties and the inductive invariant `IInv` |
| `RequestReply` | abstract: each request of a waiting client gets one reply, in its turn, unless the client breaks off |
| `MCHttpConnection` | instances of `HttpConnection`: scripts of requests, connections, threads |
| `HttpConnection_proofs` | proofs about `HttpConnection` |
| `LoginDb` | `EboServer::Init` and `OnLogin` on the one `MysqlClient`, and the MySQL server; its properties and `IInv` |
| `MCLoginDb` | instances of `LoginDb`: users, rows, threads |
| `LoginDb_proofs` | proofs about `LoginDb` |
| `LogChannel` | starts of the server and their daemons on one socket path (TLC runs it directly) |
| `LogChannel_proofs` | proofs about `LogChannel` |
| `UrlParse` | `Url::Parse`, one step per part and per argument |
| `MCUrlParse` | an instance of `UrlParse`: URLs put together from parts, and short strings |
| `HttpMessage` | one `HttpMessage`, callback by callback: headers, body, flags |
| `MCHttpMessage` | streams of requests for `HttpMessage` |
| `HttpParser_proofs` | proofs about `UrlParse` and `HttpMessage` |
| `EboServer` | `HttpConnection` composed with `LoginDb`: the whole server |
| `MCEboServer` | instances of `EboServer` |
| `EboServer_proofs` | the proof that `EboServer` implements its parts, and what both together give |
| `SqlTable` | objects of one MySQL table, their flags, and the statements made of them |
| `MCSqlTable` | an instance of `SqlTable`: the fields and their order |
| `FieldValues` | field objects, the strings they own, conversions, and what a database takes their literals for |
| `MCFieldValues` | an instance of `FieldValues` |
| `Tables_proofs` | proofs about `FieldValues` and `SqlTable` |
| `Sqlite3Client` | `Sqlite3Client` objects of several processes on one file, with SQLite's locks |
| `MCSqlite3Client` | `Sqlite3Client` with its clients alike |
| `Sqlite3Client_proofs` | proofs about `Sqlite3Client` |
| `SubProcess` | `SubProcess` objects of one main process, down to descriptor numbers |
| `MCSubProcess` | `SubProcess` with its subprocesses and files alike |
| `SubProcess_proofs` | proofs about `SubProcess` |

Definitions named "Mutant" in these modules are plausible bugs of the definition
that follows; `PROJECT.json` says which property finds which one.

### HttpConnection

A client's bytes are a *stream* of tokens: a piece of the URL, the head (the rest
of the request line and the headers), a piece of the body, or a byte the parser
refuses. A script is a stream and, of each request in it, whether it is a GET,
whether its path is `/login` and whether it asks for an upgrade. `ClientSend` lets
the client send any prefix, so a segment may cut a request at any token or join
several; `avail` is what the Buffer has been given, `taken` what was retrieved.

| Action | Code |
|---|---|
| `OnMessage(t, c)` | muzi reads the socket and calls `OnMessage` on the connection's IO thread, which makes the context on the first call |
| `Parse(t)` | one turn of the `while` loop: `Parse` of the whole Buffer, `Retrieve` of its result |
| `Dispath(t)` | `Dispath`, the handler and the `Response` it sends |
| `Return(t)` | the Buffer is empty, `OnMessage` returns |

What `http_parser_execute` does is external: it goes on from where it was
(`Consumed`), stops at a byte it refuses and then consumes nothing any more
(`Refused`), stops behind a request that upgrades (`EndsUpgrade`), and reports a
URL piece by piece, once per call (`UrlReported`). `Parsed` is what the callbacks
leave in the `HttpMessage`; `ParseResult` is what `Parse` returns, 0 on an error,
because `return false` is a `size_t` there. The handler is reduced to the HTTP code
(`StatusOf`), and the history variables `split` and `pipelined` say which requests
had their URL cut and which client did not wait.

### LoginDb

Each libmysqlclient call is a step; `mysql_real_query` is two (it sends the query,
then reads the header of the result), because another thread may get between them.
`handle` is the `MYSQL` structure: its session (`vio`, 0 for none), error flag, state
and pending result. `live` are the sessions the server keeps, `wire` the results it
has sent on each and nobody read. A thread's `pc` is its place in `OnLogin`:
`Connect`, `ConnectInit`, `RealConnect`, `ConnectCheck`, `ConnectFail` or `ConnectSet`
(the lines of `MysqlClient::Connect`), `Query` and `ReadHeader` (`ExecCommand`),
`StoreResult` or `StoreNull` (`Exec` with a result and the verification), `Response`.
`InitConnect`, `InitCreate` and `InitClose` are `EboServer::Init`. `ServerDown` takes
the MySQL server and all its sessions away, `ServerUp` brings it back empty.
Undefined behaviour is a choice: a header read in the middle of another thread's
result may or may not spoil that result. The sign of a login is reduced to whether
it was made with the password of that user's row.

### LogChannel

Generation `g` is the `g`-th start of the server: `main[g]` its main process and
`daemon[g]` the daemon it forks. A server is started once the one before has
ended, but its daemon may live on, and all daemons use the one path.

| Action | Code |
|---|---|
| `Start`, `Connect` | `LogOupter::Start` before and after its 20 ms sleep; the sleep may end at any time, also before the daemon listens |
| `Output`, `Stop` | `Output`; `~LogOupter` and `Stop`, or a crash of the main process |
| `Bind`, `Listen`, `Wake`, `RecvFd`, `Unlink`, `Destroy` | `LogOupter::Run`: `SwitchToDaemon` and the `LogServer`, its `Start`, the end of `sleep(4)`, the end of file in `RecvFd`, `~LogServer`, `exit(0)` |
| `OnMessage(d, g)`, `OnConnection(d, g)` | `LogServer::OnMessage` and `OnConnection` of daemon `d` for the connection of `g`, on its loop thread |
| `Kill` | a daemon is killed: nothing unlinked, nothing flushed |

The daemon inherits the descriptor of `sock_client_`, which the `LogOupter`
constructor makes before the fork; `SocketHeld` says so. While a daemon lives,
the connection of its own main process is therefore never seen to end, and the
flush in `OnConnection` happens only for the connection of another server.

### UrlParse

`ParseProtocol`, `ParseHost`, `ParsePort`, `ParseUrl` and `ParseArg` are the five parts of
`Url::Parse`, and the operators `protocol_end`, `host_end`, ... its local variables; `Part`
is `substr`, with positions that count from 0. `ArgsText` and `Number` are recursive
functions: the text of the arguments of a query, and the number that digits stand for. A URL is put together from `parts`, the
reference that `PartsRestored` compares with what `Parse` found. It may end in
three ways: valid, refused (`parsed_` false), or by an exception of `stoi`.
`Url`s are made in `Dispath` of `"http://127.0.0.1"` and the request's URL, so a request
URL that does not begin with `/` reaches the port: `:` alone throws, outside any
`try`. `HttpConnection` leaves such request URLs out.

### SqlTable

An object is `condition_` (of each field a set of `FieldOps`, for the code's mask), `com_ops_`
and the value of each field; `Flag`, `SetComOps`, `LoadFromStr`, `ClearCondition` and `Copy` are what
a program does with it, `Insert`, `Delete`, `Modify` and `Query` each write a statement
(`InsertSql`, ...: the values listed, the conditions, whether WHERE precedes them) and send it
to the server, which is external: it selects rows by the conditions, NULL matches
nothing, and it refuses conditions without WHERE, a missing table, a NOT NULL field
without a value (strict mode) and an UPDATE of nothing. `Delete` is modelled with its
condition outside `Where`, as the code has it.

`FieldDefine` is the sequence `fields_`: a `SELECT` names the columns in its order (`Row`), and
`Loaded`, `Exec` with a result, puts them into the fields of a copy by their place, passing
over NULL. Two history variables are set by the program's own calls only: `flagged`, so that
`ModifiesOnlyFlagged` does not speak of the flags by themselves, and `given`, the values that
the program has given a field of that name, which `NoForeignValue` compares with what rows,
objects and results have.

### HttpMessage

`HttpConnection` keeps of a message what the server reads. `HttpMessage` is the class
itself, at the granularity of callbacks: `OnHeaderField`, `OnHeaderValue`,
`OnHeadersComplete`, `OnBody`, `OnMessageComplete` are actions between `Parse`
and `Return` (`Refuse` when the parser refuses a byte; `BodyTail` is the end of a
chunked body, of which only `OnMessageComplete` is told). A name, a value or a chunk is a
text of `PieceCount` tokens; a callback gets the tokens of it that were given to this
`Parse` (`Run`), and a text reported in pieces puts its request into `cut`. A callback with no
bytes, which http_parser may make for a header at a cut, is not modelled: it would be a piece
of its own, of a text that is in `cut` anyway.
OnStatus is never called for a request, and `OnMessageBegin` does nothing.

### EboServer

`Http == INSTANCE HttpConnection` and `Db == INSTANCE LoginDb` on disjoint variables;
`at[t]` is where in `OnMessage` a thread is, `pc[t]` where in `OnLogin`. `Dispath` of a login
begins with `OnLogin` (the arguments come from `url_`: `UrlArgs`), goes through `UseDb`
and ends with `Respond`, which is `LoginDb`'s `Response` and `HttpConnection`'s
`Dispath` in one step; `NotFound` is any other request. A process that dies of a
login (`crashed`) stops all of it. `Boot` is `EboServer::Init`, before any connection.

### Sqlite3Client

Each client is in a process of its own. `conn[c]` is `db_` (null, open, or *sick* after an
open that failed) and what SQLite keeps behind it: the transaction, the lock,
what a writer has made of the file, and whether a statement was left open. A call is one
step, except `Query`: `Query`, one `ExecCallback` for each row, and its end (`QueryDone`,
`UnknownName`, `StepFails`, or `LoadThrows` when `stoi` throws through
`sqlite3_exec`). SQLite is external: a rollback journal and no busy timeout, as the
code sets neither; shared, reserved and pending locks; a COMMIT that finds readers is
refused and stays pending. `Destroy` is the destructor, whose connection becomes an
`orphan` if SQLite does not close it; `Crash` is the end of a process, with all its locks.
The old schema, without the column `user_name`, makes `CREATE TABLE IF NOT EXISTS` succeed
and `ExecCallback` fail.

### SubProcess

`fds[p]` is the descriptor table of a process, numbers to open files and socket ends;
the kernel gives the lowest free number. `CreateSubProcess` makes the pair and forks (the
whole table is inherited), `MainCloses` and `SubCloses` are the two sides of the `if`
after it. `SendFd` puts a file on the way to whoever has the other end of
`sock_fd_`; `RecvFd` installs it at the lowest number, or returns 0 at the end of file
and for a message whose descriptor found no room, and -1 on an error.
`SwitchToDaemon` closes 0 to 2 and opens `/dev/null` there. The loop around `RecvFd` is
that of `log_outputer.cc:84` and `test/subprocess_test.cc:12`: it goes on while the number is
greater than 0. `CloseFd` closes and keeps the number, which a later `open` or
`socketpair` may get.

### FieldValues

A field object is its client, its type and its union: a number, or the address of a
string; `heap` are the strings allocated. `Construct`, `Destruct`, `CopyField`, `LoadField` (the code's
`LoadFromStr`, which `operator=` of a string calls) and `ToSqlStr` are the same in `__MysqlField` and
`__Sqlite3Field` but for the conversion of an int. A text is the number it begins with, in
hundredths (or none), whether more follows, and what it has that matters between quotes.

- `Throws`: all of `stoll`, `stoi` and `stod` throw `invalid_argument` where no number is; `stoi`
  throws `out_of_range` beyond either end of an int, `stod` for a number too great or too
  fine for a double. Nothing catches these, and the field keeps its value.
- `Converted`: `stoll`'s `out_of_range` beyond either end of a long long is caught and makes -1.
- `ToSqlStr`: a text between double quotes, as it is; a number as `to_string` writes it, a double
  rounded to the decimals that it writes (`Round`).
- `TakenAs`, external: what a database takes the literal for. A text with a quote is not
  taken for itself; nor is one with a backslash by MySQL, or by SQLite one that is a
  column's name, which in double quotes is the column (`Misread`).

## Runs

All runs say `CHECK_DEADLOCK FALSE`: streams are finite and clients need not send,
logins and starts are bounded, and the process may die, so that these systems
really stop.

| Run | Instance | Checks |
|---|---|---|
| `http_one_connection` | one connection; seven scripts of up to four requests: login with its URL in two pieces or one, POST with a body, other path, upgrade, refused head, garbage; fair | `AnswersInOrder`, `AnswersArrived`, `NoStaleUrl`, `SequentialClientAnswered`, `IdleMeansAnswered`, `OnMessageReturns`, and `OneReplyPerRequest`: `HttpConnection` implements `RequestReply`, liveness included |
| `http_fragmented_url` | a request whose URL comes in two pieces | `UrlAssembled` is violated |
| `http_messages` | any two of five shapes of requests (no header, one, a name twice, a body, two chunks), some with a third request or a refused byte; texts of two tokens | `OwnHeaders`, `HeadersAccumulate`, `OwnBody` |
| `url_parts` | 2 hosts, 7 ports, 5 paths, up to two arguments of 4 keys and 4 values; all strings of up to four of seven characters | `PartsRestored`, `PiecesOfRaw`, `ParseEnds` |
| `login_threads` | two threads with one login each, two users (one row, no row), two outages, three sessions; fair | `ExactWithoutOverlap`, `NoCrashAlone`, `NoLeakAlone`, `FailsSafe`, `LoginsAnswered` |
| `login_table` | one thread, `Init` with the MySQL server up or down | `TableCreated` is violated |
| `server` | two threads with one connection each, a login or another request on each, one outage; fair | `OwnLoginAnswered`, `ServedUnlessHeld` |
| `sql_flags` | two objects, a nullable field before a NOT NULL one, up to two rows, four calls | `ModifiesOnlyFlagged`, `NoForeignValue` |
| `field_values` | three objects, four addresses, thirteen texts: the empty one, a date, numbers on both sides of all ends, words with and without what is misread | `OwnString`, `NoneLost`, `WrittenAsLoaded` |
| `sqlite_clients` | two clients, two keys, two names, five calls, `stoi` throws above 1 | `LockedOnlyInUse`, `ChangesAsTold`, `QueryExact`, `ConnectedAsTold` |
| `log_restarts` | three starts, one line each, `kWriteCntToFlush` = 2 as in the code; fair | `PathOfListener`, `ServedByOwn`, `BatchBound`, `StalePathStays`, `DaemonEnds` |
| `sub_procs` | two subprocesses, two files, two calls, seven descriptors; fair | `OwnFilesInOrder`, `ZeroIsEnd`, `SockKept`, `NoMutualHold`, `SubsEnd` |

The type invariants (`TypeOK` of each module that has one) and `SubProcess!OwnReader` are
in no run: they are proved. TLC checked them, and every `IInv`, on these instances
before they were proved. The types of `HttpMessage` and `FieldValues` are parts of their
inductive invariants (`MessageTypeOK`, `FieldTypes`, in the proof modules).

**Why the bounds are enough.**

- `HttpConnection`: a request keeps state of at most the one before it (the context has
  no deeper memory), so three requests reach every kind next to every other and a
  third after them. Connections on several threads meet in `server`.
- `LoginDb`: two threads give every interleaving of two database sections; `Init` and each
  of the logins open at most one session, so that three are never what stops the run.
  Two outages allow a failed `Connect` and a session lost after the next one.
- `EboServer`: the smallest instance in which two threads meet in the database. A third
  session would be opened only by two logins that connect at once after `Init` did; they
  connect at once with two sessions as well, when `Init` had found the server down.
- `LogChannel`: three starts give a daemon that outlives its server, the next server
  connected to it, and a third after both; its lines and theirs reach the flush.
- `UrlParse` scales the greatest `int` to 99, so that a port of three digits is too
  great; its shortest accepted URL has four characters, and longer ones come from
  parts with each separator in each place.
- `SqlTable` starts from any rows, two at most, so that a statement may touch one and
  not the other; the longest chain of its properties is flag, copy, flag the other
  object, modify: `MaxCalls` = 4. A NULL before another column is what could move a value
  to a field that is not its own.
- `FieldValues` has no bound but its sets: three objects are one with a string, a copy of it
  and one that gets the address of a string just deleted. Widths are scaled, so that a few
  texts reach each end: an int is -3 to 2, a long long -5 to 4, and the numbers loaded are
  beyond both, beyond one and within, below and above zero; a double is at most 8 and
  not finer than 0.02.
- `HttpMessage`'s texts of two tokens can come whole or in two pieces, and what one request
  leaves in the next needs two of them.
- `Sqlite3Client` starts from any file and with clients that may be connected, so that
  five calls are enough for a unit (start, write, write, a refused commit, commit) or
  for two clients' transactions that meet; two keys give a row that loads and one that
  throws.
- `SubProcess`: with 0 to 2, two pairs and two files, seven numbers can run out in a
  subprocess and are enough for all of it in the main process; two subprocesses are
  the first case in which one inherits the other's end.

**Fairness.** `HttpConnection`: a thread inside `OnMessage` runs on, and every readable
connection of a thread is handled again and again, since muzi's epoll is level
triggered and a poll round handles every ready channel. `LoginDb`: a thread inside
`OnLogin` runs on and `Init` runs through; nothing forces the MySQL server to come
back. `LogChannel`: a daemon's main thread runs on. `UrlParse`: `Parse` is one sequential
call, which runs on. `EboServer` assumes of its parts what they do: a thread runs on,
in `OnMessage` and in `OnLogin`. `SubProcess`: `CreateSubProcess` returns, and a
subprocess goes on receiving, and exits when its function returns; nothing makes the
main process end or call, and a subprocess need not be a daemon.
Nothing obliges a client to send, a user to log in, or a main process to start, log or
stop.

## What the runs found

- `http_fragmented_url`: `OnUrl` *assigns* the piece it is given, so of a URL that
  arrives in two segments only the last piece is kept (`http_parser.cc:49`), though
  the header of http_parser says that data callbacks may be called many times for
  one string.
- `login_table`: `Init` ignores the results of `Connect` and `Create`
  (`ebo_server.cc:85`), so the server may run without the table its comment says it
  creates.

Limits that passing properties state in their condition, rather than as findings:

- After a byte the parser refuses `OnMessage` never returns, and all connections of its
  thread wait for ever (`Stuck` in `OnMessageReturns`, `Off` in the refinement,
  `ServedUnlessHeld`).
- One `Parse` consumes all of the Buffer and one `Dispath` follows (`ebo_server.cc:114`), so
  that of two requests read at once only the last is answered (`pipelined`).
- `OnHeaderField`, `OnHeaderValue` and `OnBody` assign as `OnUrl` does (`http_parser.cc:61`, `:67`,
  `:79`), so that a header or a body in pieces is its last piece (`cut` in `OwnHeaders`,
  `OwnBody`), and an idle connection's headers are those of older requests too
  (`HeadersAccumulate`). `OwnBody` speaks of a body in one chunk: one in several leaves its last
  in `body_`, and a request without a body the one before. The server reads neither headers
  nor body, but `HttpMessage` offers them.
- Two logins that overlap may answer wrongly, leak a session, wait for ever or kill
  the process (`overlapped`); after a session is lost, `FailsSafe` is what remains: every
  login then gets "-2", since it is never replaced.
- A killed daemon's path stops every later start (`StalePathStays`).
- An empty or too great port makes `Url::Parse` throw (`PortThrows` in `PartsRestored`).
- A field whose row has NULL keeps the value of the object that asked, which `NoForeignValue`
  allows.
- A `user_id` above an int leaves an sqlite connection locked and impossible to close
  (`threw` in `LockedOnlyInUse`).
- The 0 of `RecvFd` may be a file's when the table is full or 0 to 2 were closed, and
  after `CloseFd` a descriptor may go to another subprocess (`ZeroIsEnd`,
  `OwnFilesInOrder`).
- `Inexact` in `WrittenAsLoaded` names what is lost when a row is written back as it was read:
  texts that a database misreads in double quotes (`mysql_client.cc:474`, `sqlite3_client.cc:455`), a
  DATETIME but for its year, decimals of an int, an int beyond a long long, and the later
  decimals of a double.

In the models, and in no property because one would only state the defect as right: a
`Delete` with conditions is refused and deletes nothing (`mysql_client.cc:240`; `DeleteSql`, `Refused`);
`MysqlClient::Connect` never replaces a lost session (`mysql_client.cc:34`; `Connect`); `sqlite3_open` sets
`db_` also when it fails, so that `IsConnected()` is true and the next `Connect` refuses
(`sqlite3_client.cc:43`; `Connect`), for which reason `ConnectedAsTold` goes by what `Connect` returned.

Seen while modelling and in no model: a failing `Exec` with a result does not free
`errmsg` (`sqlite3_client.cc:72`), no result of `mysql_store_result` is freed
(`mysql_client.cc:86`), and `SwitchToDaemon` logs an error when its two `dup` give 1 and 2,
as they do when all goes well (`subprocess.cc:141` expects 2 and 3).

## Proofs

All theorems hold for any constants that satisfy the named assumptions
of their modules (`ScriptsAssumption` and its like in `HttpConnection`; `RowsAssumption` and
`BoundsAssumption`; `StartsAssumption` and `FlushAssumption`; ...), which TLC evaluates
on every run.

| Theorem | Property | Argument |
|---|---|---|
| `TypeCorrect` | `HttpConnection!TypeOK` | `Basic` adds to the types that `taken <= avail <= sent <= Len(stream)` and that a thread in the loop has a connection of its own with a context: without it the parser's steps are not defined |
| `RepliesInOrder`, `RepliesToArrived` | `AnswersInOrder`, `AnswersArrived` | `IInv`: the last reply is to a request the parser is *past*, so that the next one completed is later; after an error the same bytes are parsed again, but then nothing completes |
| `UrlNeverStale` | `NoStaleUrl` | `IInv`: the pieces in `url_` belong to the last request whose head was parsed or a later one |
| `WaitingClientAnswered`, `ReturnedMeansAnswered` | `SequentialClientAnswered`, `IdleMeansAnswered` | `SeqInv` on top of `IInv`: the client is at the request after the last reply (`InTurn`), what is retrieved completes only answered requests and the one dispatched (`AnsweredOrAt`), and a URL that is not split is still to come or in `url_` as a whole (`UrlWhole`) |
| `ServesRequestReply` | the safety part of `OneReplyPerRequest` | below |
| `LoopGetsOn`, `StuckForEver` | none: why `OnMessageReturns` holds of any requests, and why it excepts a stuck thread | a `Parse` that refuses nothing consumes at least one token (`ConsumedFacts`), so that `StepsLeft`, two for each token in the Buffer, falls; one that refuses keeps its byte in the Buffer (`StuckInv`) |
| `LoginTypeCorrect` | `LoginDb!TypeOK` | inductive by itself, with the range of the handle |
| `LoginsExact` | `ExactWithoutOverlap` | `IInv`, below |
| `NoCrash`, `NoLeak` | `NoCrashAlone`, `NoLeakAlone` | `IInv` |
| `LoginsFailSafe` | `FailsSafe` | a part of `IInv`, with `ResultInv`: a result that is stored alone is that of the thread's own query, and every other way to the reply gives "-2", whether or not the session is alive (`SafeKept`, for each step) |
| `ServerImplementsParts` | `EboServer!ImplementsParts` | step by step: each action of the server is an action of `HttpConnection` or of `LoginDb` and leaves the other alone, or is one of each |
| `ServerTypeCorrect`, `LoginsAnsweredByOwn` | `EboServer!TypeOK`, `OwnLoginAnswered` | below |
| `LogTypeCorrect` | `LogChannel!TypeOK` | inductive; `write_count_` by the lemma `CountedWraps` |
| `PathKept` | `PathOfListener` | only the daemon that is bound to the path can be at `Unlink` |
| `StaleForEver` | `StalePathStays` | with `PathOfListener`: nobody listens on a stale path, so nobody is at `Unlink` |
| `UnflushedBounded` | `BatchBound` | `Batch`: unflushed reads are at most `write_count_`, since a disconnect flushes and does not reset it |
| `QuietStartServed` | `ServedByOwn` | `StartsInv`: later generations have not started, and after a quiet start no older daemon lives, so that the path, if any, is one's own (`ConnectFindsOwn`) |
| `SqliteTypeCorrect` | `Sqlite3Client!TypeOK` | inductive by itself |
| `LockedInUse`, `ChangesTold`, `QueriesExact` | `LockedOnlyInUse`, `ChangesAsTold`, `QueryExact` | `IInv`: a lock is there only in a transaction, a Query or behind a statement left open (`LockInv`); a writer that wrote nothing sees the file as it is (`WorkInv`); while a Query is on its lock keeps the file, so that the rows in the Result stay rows of it (`QueryInv`) |
| `ConnectionsTold` | `ConnectedAsTold` | `IdleInv`: a connection that is not open has no transaction and no Query, so that no call on it succeeds; step by step for the client that calls (`StepsOwn`) and for the others (`StepsAside`) |
| `SubTypeCorrect` | `SubProcess!TypeOK` | with the lemma that the lowest free number is a free number |
| `OwnFilesKept`, `ZeroMeansEnd`, `SockStays`, `ReaderAlone`, `HoldAcyclic` | `OwnFilesInOrder`, `ZeroIsEnd`, `SockKept`, `OwnReader`, `NoMutualHold` | each end is where `pipes` says until a `CloseFd`; a subprocess has other subprocesses' ends only of those created before it, so that holding has no cycle |
| `TablesTyped` | `SqlTable!TypeOK` | inductive by itself |
| `ModifyFlaggedOnly` | `ModifiesOnlyFlagged` | the flags on an object are those that the program set since it was made or cleared (`FlagInv`) |
| `ValuesKeepFields` | `NoForeignValue` | inductive with the types: `Position` undoes `Row`, so that `Loaded` gives a field its own column (`LoadedTable`), since no name is twice in `FieldDefine` |
| `PartsTyped`, `PartsArePieces` | `UrlParse!TypeOK`, `PiecesOfRaw` | positions that `find_first_of` gives are least elements, so that a part found is followed by its separator; from part to part the positions grow |
| `AllPartsRestored` | `PartsRestored` | `RestoredInv`, below |
| `ParseGetsOn` | none: why `ParseEnds` holds of strings of any length | every step lowers `StepsLeft`, of which a turn of the loop takes what it moves `arg_start` on |
| `HeadersOfOwnRequest`, `HeadersOfAllRequests`, `BodyOfOwnRequest` | `OwnHeaders`, `HeadersAccumulate`, `OwnBody` | `MessageIInv`, below |
| `StringsOwned`, `NoStringLost`, `LoadedIsWritten` | `OwnString`, `NoneLost`, `WrittenAsLoaded` | `FieldIInv`: each text field has an allocated string that no other has (`Owns`), each string has a field (`Owned`), and the value of a field is what it loaded, converted (`HoldsLoaded`); then each type of literal by itself |

`LoginDb`'s `IInv` is what the one thread in the database code leaves behind, and
is stated under `~overlapped`: at most one thread is there (`AloneInv`), it has
complete arguments and the server is up unless it noted an outage (`LoginInv`), the
handle and `connected_` agree with its place in `Connect` (`ClientInv`), what is on the
wire is its own query (`ResultInv`), and its session is alive unless it was lost
(`SessionInv`). None of the three properties is inductive without it.

**Two refinements.** `ServesRequestReply` maps a connection to two numbers, the requests
that arrived and the replies, and to 0 once its client is off. `CompleteCounted` says, from
`IInv` and `SeqInv`, that of a waiting client the requests complete in what it sent are
those answered, or one more; so a send is `Ask` or changes nothing, a `Dispath` is
`Answer`, and all else is `BreakOff`. That an off client stays off needs `StuckInv`: a parser
that refused a byte keeps it in the Buffer, so that its thread never leaves the loop.
`ServerImplementsParts` makes `EboServer` an instance of both parts.

**The whole server.** By `ServerImplementsParts` the theorems about the parts hold in
`EboServer`; `PartsHold` cites `TypeCorrect`, `WaitingClientAnswered`, `LoginTypeCorrect` and
`LoginsExact` through instances of the proof modules. `EboServer!IInv` joins them: each reply
is noted once, no other thread touches the connection that a thread is in `OnMessage` of,
and so a thread inside `OnLogin` still dispatches the request whose arguments it has.
Then the status that `LoginsExact` gives is of these arguments, and the URL that
`WaitingClientAnswered` gives says that they are of the request answered (`ReplySound`).

**URLs of any parts.** `PartsRestored` compares what `Parse` found with the parts the URL was
put together from. `At(s, k, t)` says that text `t` is in `s` from position `k` on; of a text
that is joined, `AtSplit` and `AtJoin` give the place of each piece, so that the places
of all parts follow from the lengths before them (`PartsLaid`). `RestoredInv` says where
`Parse` is in them: before the `i`-th argument `arg_start` is at its place and `args` is what the
arguments before it make (`AtArg`, `ArgsUpTo`). A step then finds the end of a part, because
no character of it is a separator and the next one is (`FirstAfter`). That the recursive
functions `ArgsText` and `Number` are defined on all of their domain comes from
`AlongInterval`: a property of the first element that each step hands on has no least
counterexample. It is stated for a set, not for an operator, so that no induction theorem with
an operator parameter is needed.

**Headers and body.** `MessageIInv` says it in terms of the values that went by whole: `HeadersHere`, that
`headers_` has the last of each name of this request unless one of its texts came in pieces,
and `HeadersEver`, the same of all requests; `AtBoundary`, that a request of
which nothing came in pieces is between two texts and the name it has just gone through is in
`__last_field_`, and `OfEnded`, that `method_` and `status_` are of the request that has just
ended. `NameBeforeValue` relates a value's last piece to its name, which is
`PieceCount` tokens before it whatever the cuts are. `BodyHere` says of `body_` that it
is a whole chunk of the request that the last chunk is of, unless one of that request's texts
came in pieces; of a request with one chunk this is its body, once `Parse` is done with it
(`RequestHere`).

**Model-checked only**: liveness (`OnMessageReturns`, `LoginsAnswered`, `DaemonEnds`, `SubsEnd`,
`ServedUnlessHeld`, `ParseEnds`, and what `OneReplyPerRequest` says of it), out of the prover's
reach; what `OnMessageReturns` and `ParseEnds` rest on, that each step of the loop lowers a bound,
is proved (`LoopGetsOn`, `ParseGetsOn`). Every other property that a passing run checks is a theorem.

## Assumed of code outside the repository

- muzi: one thread handles all events of a connection; `Buffer` keeps what is not
  retrieved; level-triggered polling; a failing `bind` (also because the path exists)
  and `LOG_FATAL` end the process; `LogFile::Append` buffers and `Flush` writes.
- http_parser: as declared in `vender/includes/c_http_parser.h` and used by `HttpMessage`.
- libmysqlclient: `mysql_init` clears the handle without closing its session;
  a query on a dead session or with an unread result fails; `mysql_store_result`
  gives NULL when there is no result.
- Whether SIGPIPE is ignored is muzi's matter, so `Output` to a dead daemon may or may
  not end the main process.

## Not modelled

- Disconnecting clients, and the texts of replies and logs.
- The destruction of `LogServer`'s members against its loop thread: decided in muzi.
- The transactions of `MysqlClient`, which nobody calls; UNIQUE columns; BLOB and NULL
  columns, which no table has; the texts of CREATE TABLE.
- `Encryptor` is one library call; `main` and the tests are wiring and examples.
- `vender/includes/sqlite3.h`, `sqlite3ext.h` and `c_http_parser.h`, 13166 of the 15808 lines
  of the sources, are declarations of libraries without any of their code; the models
  use the libraries as external definitions. What is left are some 2600 lines, of
  which the tests, the static tables and the accessors carry no behaviour: the map
  can therefore cover no more than a small part of the whole, whatever is modelled.

## What is left

1. Disconnecting clients, whose `HttpMessage` dies with the connection.
2. The transactions of `MysqlClient`, when something calls them.
