---------------------------- MODULE Sqlite3Client ----------------------------
(***************************************************************************)
(* Sqlite3Client and the __Sqlite3Table that sends its statements: clients *)
(* with one connection each, every client in a process of its own, on one  *)
(* database file with one table (user_id INTEGER PRIMARY KEY, user_name).  *)
(*                                                                         *)
(* SQLite is external: its file locks (rollback journal, no busy timeout,  *)
(* as the code sets none), its transactions, and the errors it answers.  A *)
(* call is one step but for Query, which SQLite answers row by row.        *)
(***************************************************************************)
EXTENDS Integers, Sequences

CONSTANTS
    Clients,
    Names,          \* texts of user_name
    ColumnName,     \* the one that is also the name of the column
    Null,           \* no text, in a row
    MaxKey,         \* bound: user_id
    MaxInt,         \* greatest int: stoi throws above it
    MaxCalls        \* bound: calls of the program

ASSUME NamesAssumption == ColumnName \in Names /\ Null \notin Names

ASSUME SizesAssumption == MaxKey \in Nat /\ MaxInt \in Nat /\ MaxCalls \in Nat

VARIABLES
    disk,       \* the database file
    conn,       \* of each client: db_ and the connection behind it
    orphan,     \* locks of connections that no client can reach any more
    query,      \* the Query a client is in
    result,     \* Result of its last Query
    ret,        \* how the last call ended
    calls,      \* number of calls so far
    unit,       \* history: StartTransaction returned true, and nothing since
                \* then returned false or ended the transaction
    threw       \* history: stoi was given a user_id above MaxInt

vars == <<disk, conn, orphan, query, result, ret, calls, unit, threw>>

Keys == 1 .. MaxKey

(***************************************************************************)
(* The schema is "old" when the table is there without user_name: CREATE   *)
(* TABLE IF NOT EXISTS leaves it so.                                       *)
(***************************************************************************)
Files ==
    [schema : {"none", "old", "full"},
     rows   : UNION {[ks -> Names \cup {Null}] : ks \in SUBSET Keys}]

NoFile == [schema |-> "none", rows |-> <<>>]

Locks == {"none", "shared", "reserved", "pending"}

\* db is "null", "open", or "sick" after an open that failed; work is what a
\* writer's transaction has made of the file, and dirty whether it wrote;
\* stuck: a statement of it was never finalized.
Connections ==
    [db : {"null", "sick", "open"}, tx : BOOLEAN, lock : Locks,
     work : Files, dirty : BOOLEAN, stuck : BOOLEAN]

NewConnection ==
    [db |-> "null", tx |-> FALSE, lock |-> "none",
     work |-> NoFile, dirty |-> FALSE, stuck |-> FALSE]

NoQuery == [on |-> FALSE, own |-> ColumnName, at |-> 0]

Calls ==
    {"Connect", "Close", "Start", "Commit", "Rollback",
     "Create", "Drop", "Insert", "Delete", "Modify", "Query"}

\* How a call may end besides returning.
Ends == {"Destroy", "Thrown", "Died"}

-----------------------------------------------------------------------------
(***************************************************************************)
(* What SQLite allows a connection.                                        *)
(***************************************************************************)
Writing(c) == conn[c].lock \in {"reserved", "pending"}

View(c) == IF Writing(c) THEN conn[c].work ELSE disk

Others(c) == {conn[d].lock : d \in Clients \ {c}} \cup UNION {orphan[d] : d \in Clients}

CanRead(c) == conn[c].lock # "none" \/ "pending" \notin Others(c)

CanReserve(c) ==
    Writing(c) \/ (CanRead(c) /\ Others(c) \cap {"reserved", "pending"} = {})

CanCommit(c) == Others(c) \subseteq {"none"}

\* The connection once its transaction is over, and once a statement is.
Ended(x) ==
    [x EXCEPT !.tx = FALSE, !.lock = IF x.stuck THEN "shared" ELSE "none",
              !.work = NoFile, !.dirty = FALSE]

Rested(x) == IF x.tx THEN x ELSE Ended(x)

\* Rows that `"user_name" = "text"` selects: SQLite takes a text in double
\* quotes for the column if it is its name.
Selected(file, text) ==
    {k \in DOMAIN file.rows :
        file.rows[k] # Null /\ (file.rows[k] = text \/ text = ColumnName)}
-----------------------------------------------------------------------------
\* Any file may be there when the clients start, and some may have connected.
Init ==
    /\ disk \in Files
    /\ disk.schema = "none" => disk.rows = <<>>
    /\ disk.schema = "old" => \A k \in DOMAIN disk.rows : disk.rows[k] = Null
    /\ conn \in [Clients -> {NewConnection, [NewConnection EXCEPT !.db = "open"]}]
    /\ orphan = [c \in Clients |-> {}]
    /\ query = [c \in Clients |-> NoQuery]
    /\ result = [c \in Clients |-> <<>>]
    /\ \E c \in Clients : ret = [client |-> c, op |-> "Close", ok |-> TRUE]
    /\ calls = 0
    /\ unit = [c \in Clients |-> FALSE]
    /\ threw = [c \in Clients |-> FALSE]

IsConnected(c) == conn[c].db # "null"

Usable(c) == conn[c].db = "open"

Call(c) ==
    /\ ~query[c].on
    /\ calls < MaxCalls
    /\ calls' = calls + 1

\* A call of c ends.
Returns(c, op, ok) ==
    /\ ret' = [client |-> c, op |-> op, ok |-> ok]
    /\ unit' = [unit EXCEPT ![c] =
         ok /\ (op = "Start" \/ (@ /\ op \notin {"Commit", "Rollback", "Close", "Destroy"}))]

\* Mutant: a client that says it is connected has nothing to do.
ConnectAtOnce(c) ==
    /\ Call(c)
    /\ \/ /\ IsConnected(c)
          /\ Returns(c, "Connect", TRUE)
          /\ UNCHANGED conn
       \/ /\ ~IsConnected(c)
          /\ \E db \in {"null", "sick", "open"} :
               /\ conn' = [conn EXCEPT ![c].db = db]
               /\ Returns(c, "Connect", db = "open")
    /\ UNCHANGED <<disk, orphan, query, result, threw>>

\* sqlite3_open sets db_ also when it fails, unless there is no memory.
Connect(c) ==
    /\ Call(c)
    /\ \/ /\ IsConnected(c)
          /\ Returns(c, "Connect", FALSE)
          /\ UNCHANGED conn
       \/ /\ ~IsConnected(c)
          /\ \E db \in {"null", "sick", "open"} :
               /\ conn' = [conn EXCEPT ![c].db = db]
               /\ Returns(c, "Connect", db = "open")
    /\ UNCHANGED <<disk, orphan, query, result, threw>>

\* sqlite3_close refuses a connection with a statement that is not finalized.
Close(c) ==
    /\ Call(c)
    /\ LET ok == IsConnected(c) /\ ~conn[c].stuck IN
         /\ conn' = IF ok THEN [conn EXCEPT ![c] = NewConnection] ELSE conn
         /\ Returns(c, "Close", ok)
    /\ UNCHANGED <<disk, orphan, query, result, threw>>

\* ~Sqlite3Client, and a new client in its place: the result of Close is not
\* looked at.
Destroy(c) ==
    /\ Call(c)
    /\ conn' = [conn EXCEPT ![c] = NewConnection]
    /\ orphan' = IF conn[c].stuck THEN [orphan EXCEPT ![c] = @ \cup {conn[c].lock}]
                 ELSE orphan
    /\ Returns(c, "Destroy", TRUE)
    /\ UNCHANGED <<disk, query, result, threw>>

\* The process of c ends, and with it all its connections.
Crash(c) ==
    /\ conn' = [conn EXCEPT ![c] = NewConnection]
    /\ orphan' = [orphan EXCEPT ![c] = {}]
    /\ query' = [query EXCEPT ![c] = NoQuery]
    /\ result' = [result EXCEPT ![c] = <<>>]
    /\ threw' = [threw EXCEPT ![c] = FALSE]
    /\ Returns(c, "Died", FALSE)
    /\ UNCHANGED <<disk, calls>>
-----------------------------------------------------------------------------
StartTransaction(c) ==
    /\ Call(c)
    /\ LET ok == Usable(c) /\ ~conn[c].tx IN
         /\ conn' = IF ok THEN [conn EXCEPT ![c].tx = TRUE] ELSE conn
         /\ Returns(c, "Start", ok)
    /\ UNCHANGED <<disk, orphan, query, result, threw>>

\* A COMMIT that finds readers is refused and keeps new ones away until it
\* is tried again or rolled back.
SendsCommit(c, op) ==
    LET ready == ~conn[c].dirty \/ CanCommit(c) IN
    \/ /\ conn[c].tx /\ ready
       /\ disk' = View(c)
       /\ conn' = [conn EXCEPT ![c] = Ended(@)]
       /\ Returns(c, op, TRUE)
    \/ /\ conn[c].tx /\ ~ready
       /\ conn' = [conn EXCEPT ![c].lock = "pending"]
       /\ Returns(c, op, FALSE)
       /\ UNCHANGED disk
    \/ /\ ~conn[c].tx
       /\ Returns(c, op, FALSE)
       /\ UNCHANGED <<disk, conn>>

CommitTransaction(c) ==
    /\ Call(c)
    /\ SendsCommit(c, "Commit")
    /\ UNCHANGED <<orphan, query, result, threw>>

\* Mutant: the wrong command.
RollbackCommits(c) ==
    /\ Call(c)
    /\ SendsCommit(c, "Rollback")
    /\ UNCHANGED <<orphan, query, result, threw>>

RollbackTransaction(c) ==
    /\ Call(c)
    /\ conn' = IF conn[c].tx THEN [conn EXCEPT ![c] = Ended(@)] ELSE conn
    /\ Returns(c, "Rollback", conn[c].tx)
    /\ UNCHANGED <<disk, orphan, query, result, threw>>

\* ExecCommand of a statement that SQLite accepts if valid, and that makes
\* `file` of what c sees.  A fault of the disk may roll the transaction back.
ExecCommand(c, op, valid, dirty, file) ==
    LET can == Usable(c) /\ valid /\ CanReserve(c) IN
    /\ Call(c)
    /\ \/ /\ can /\ conn[c].tx
          /\ conn' = [conn EXCEPT ![c].lock = IF Writing(c) THEN @ ELSE "reserved",
                                  ![c].work = file, ![c].dirty = @ \/ dirty]
          /\ Returns(c, op, TRUE)
          /\ UNCHANGED disk
       \/ /\ can /\ ~conn[c].tx /\ (dirty => CanCommit(c))
          /\ disk' = file
          /\ Returns(c, op, TRUE)
          /\ UNCHANGED conn
       \/ /\ ~can \/ (~conn[c].tx /\ dirty /\ ~CanCommit(c))
          /\ Returns(c, op, FALSE)
          /\ UNCHANGED <<disk, conn>>
       \/ /\ can
          /\ conn' \in {conn, [conn EXCEPT ![c] = Ended(@)]}
          /\ Returns(c, op, FALSE)
          /\ UNCHANGED disk
    /\ UNCHANGED <<orphan, query, result, threw>>

\* CREATE TABLE IF NOT EXISTS reads the schema only if the table is there.
Create(c) ==
    \/ /\ View(c).schema = "none"
       /\ ExecCommand(c, "Create", TRUE, TRUE, [schema |-> "full", rows |-> <<>>])
    \/ /\ View(c).schema # "none"
       /\ Call(c)
       /\ LET ok == Usable(c) /\ CanRead(c) IN
            /\ conn' = IF ok /\ conn[c].tx /\ conn[c].lock = "none"
                       THEN [conn EXCEPT ![c].lock = "shared"] ELSE conn
            /\ Returns(c, "Create", ok)
       /\ UNCHANGED <<disk, orphan, query, result, threw>>

Drop(c) ==
    ExecCommand(c, "Drop", View(c).schema # "none" /\ ~conn[c].stuck, TRUE, NoFile)

\* The field user_name is flagged, or no field is and the statement is wrong.
Insert(c, flagged, name) ==
    LET file == View(c) IN
    \E k \in Keys :
      /\ \A j \in DOMAIN file.rows : j < k
      /\ ExecCommand(c, "Insert", flagged /\ file.schema = "full", TRUE,
           [file EXCEPT !.rows = [j \in DOMAIN @ \cup {k} |-> IF j = k THEN name ELSE @[j]]])

\* The condition goes to sql, not to Where: the statement is then wrong.
Delete(c, conditioned) ==
    ExecCommand(c, "Delete", ~conditioned /\ View(c).schema # "none", TRUE,
                [View(c) EXCEPT !.rows = <<>>])

Modify(c, text, name) ==
    LET file == View(c)
        hit  == Selected(file, text)
    IN  ExecCommand(c, "Modify", file.schema = "full", hit # {},
          [file EXCEPT !.rows =
             [k \in DOMAIN @ |-> IF k \in hit /\ name # ColumnName THEN name ELSE @[k]]])
-----------------------------------------------------------------------------
(***************************************************************************)
(* Query: Exec with a result, and one ExecCallback per row.                *)
(***************************************************************************)
Rest(c) == {k \in DOMAIN View(c).rows : query[c].at < k}

NextKey(c) == CHOOSE k \in Rest(c) : \A j \in Rest(c) : k <= j

\* Query on a table whose user_name is `own`, with an empty Result.
Query(c, own) ==
    LET can == Usable(c) /\ View(c).schema # "none" /\ CanRead(c) IN
    /\ Call(c)
    /\ result' = [result EXCEPT ![c] = <<>>]
    /\ \/ /\ can
          /\ query' = [query EXCEPT ![c] = [on |-> TRUE, own |-> own, at |-> 0]]
          /\ conn' = [conn EXCEPT ![c].lock = IF @ = "none" THEN "shared" ELSE @]
          /\ UNCHANGED <<ret, unit>>
       \/ /\ ~can
          /\ Returns(c, "Query", FALSE)
          /\ UNCHANGED <<query, conn>>
    /\ UNCHANGED <<disk, orphan, threw>>

\* The Query of c returns.
QueryEnds(c, ok) ==
    /\ query' = [query EXCEPT ![c] = NoQuery]
    /\ conn' = [conn EXCEPT ![c] = Rested(@)]
    /\ Returns(c, "Query", ok)
    /\ UNCHANGED <<disk, orphan, result, calls, threw>>

\* A row in a copy of the table: NULL is not loaded.
Loaded(c, k) ==
    LET name == View(c).rows[k] IN
    [user_id |-> k, user_name |-> IF name = Null THEN query[c].own ELSE name]

ExecCallback(c) ==
    /\ query[c].on /\ Rest(c) # {}
    /\ View(c).schema = "full" /\ NextKey(c) <= MaxInt
    /\ result' = [result EXCEPT ![c] = Append(@, Loaded(c, NextKey(c)))]
    /\ query' = [query EXCEPT ![c].at = NextKey(c)]
    /\ UNCHANGED <<disk, conn, orphan, ret, calls, unit, threw>>

\* stoi throws through sqlite3_exec, whose statement stays open, up to a
\* program that catches it; to one that does not it is a Crash.
LoadThrows(c) ==
    /\ query[c].on /\ Rest(c) # {}
    /\ NextKey(c) > MaxInt
    /\ query' = [query EXCEPT ![c] = NoQuery]
    /\ conn' = [conn EXCEPT ![c].stuck = TRUE]
    /\ threw' = [threw EXCEPT ![c] = TRUE]
    /\ Returns(c, "Thrown", FALSE)
    /\ UNCHANGED <<disk, orphan, result, calls>>

\* Mutants: the name that is not found throws, as map::at does; the row is
\* skipped.
UnknownThrows(c) ==
    /\ query[c].on /\ Rest(c) # {}
    /\ View(c).schema = "old" /\ NextKey(c) <= MaxInt
    /\ query' = [query EXCEPT ![c] = NoQuery]
    /\ conn' = [conn EXCEPT ![c].stuck = TRUE]
    /\ Returns(c, "Thrown", FALSE)
    /\ UNCHANGED <<disk, orphan, result, calls, threw>>

UnknownSkipped(c) ==
    /\ query[c].on /\ Rest(c) # {}
    /\ View(c).schema = "old" /\ NextKey(c) <= MaxInt
    /\ query' = [query EXCEPT ![c].at = NextKey(c)]
    /\ UNCHANGED <<disk, conn, orphan, result, ret, calls, unit, threw>>

\* A column that is not found makes ExecCallback answer -1, and SQLite abort.
UnknownName(c) ==
    /\ query[c].on /\ Rest(c) # {}
    /\ View(c).schema = "old" /\ NextKey(c) <= MaxInt
    /\ QueryEnds(c, FALSE)

\* The statement fails at a later row.
StepFails(c) == query[c].on /\ QueryEnds(c, FALSE)

QueryDone(c) == query[c].on /\ Rest(c) = {} /\ QueryEnds(c, TRUE)

Next ==
    \E c \in Clients :
      \/ Connect(c) \/ Close(c) \/ Destroy(c) \/ Crash(c)
      \/ StartTransaction(c) \/ CommitTransaction(c) \/ RollbackTransaction(c)
      \/ Create(c) \/ Drop(c)
      \/ \E flagged \in BOOLEAN, name \in Names : Insert(c, flagged, name)
      \/ \E conditioned \in BOOLEAN : Delete(c, conditioned)
      \/ \E text, name \in Names : Modify(c, text, name)
      \/ \E own \in Names : Query(c, own)
      \/ ExecCallback(c) \/ LoadThrows(c) \/ UnknownName(c)
      \/ StepFails(c) \/ QueryDone(c)

Spec == Init /\ [][Next]_vars
-----------------------------------------------------------------------------
\* Type invariant of the file, the clients and their connections.
TypeOK ==
    /\ disk \in Files
    /\ conn \in [Clients -> Connections]
    /\ orphan \in [Clients -> SUBSET Locks]
    /\ query \in [Clients -> [on : BOOLEAN, own : Names, at : {0} \cup Keys]]
    /\ result \in [Clients -> Seq([user_id : Keys, user_name : Names])]
    /\ ret \in [client : Clients, op : Calls \cup Ends, ok : BOOLEAN]
    /\ calls \in 0 .. MaxCalls
    /\ unit \in [Clients -> BOOLEAN]
    /\ threw \in [Clients -> BOOLEAN]

\* A client keeps others off the file, with its connection or with one that
\* its destructor could not close, only in a transaction or a Query, unless
\* a user_id that is no int made LoadFromStr throw through sqlite3_exec.
LockedOnlyInUse ==
    \A c \in Clients :
      /\ conn[c].lock # "none" => conn[c].tx \/ query[c].on \/ threw[c]
      /\ orphan[c] # {} => threw[c]

\* The file changes only in a call that returns true, and within a unit of
\* calls that began with StartTransaction and all returned true only in its
\* CommitTransaction: neither when the transaction is rolled back or refused
\* nor when the client is closed, destroyed or killed.
ChangesAsTold ==
    [][disk' # disk =>
         LET c == ret'.client IN
           /\ ret'.ok
           /\ unit[c] => ret'.op = "Commit"
           /\ ret'.op \in {"Commit", "Create", "Drop", "Insert", "Delete", "Modify"}]_vars

\* The tables in res are rows of what c sees, in order and without gaps.
FirstRows(c, res) ==
    LET ids == {res[i].user_id : i \in DOMAIN res} IN
    /\ \A i, j \in DOMAIN res : i < j => res[i].user_id < res[j].user_id
    /\ \A i \in DOMAIN res : res[i].user_id \in DOMAIN View(c).rows
                             /\ res[i] = Loaded(c, res[i].user_id)
    /\ \A k \in DOMAIN View(c).rows, n \in ids : k < n => k \in ids

\* A Query that returns true leaves every row of the table as it is at that
\* moment in the Result, whatever other clients do meanwhile; one that
\* returns false leaves the first rows of it.
QueryExact ==
    [][\A c \in Clients : query[c].on /\ ~query'[c].on /\ ret'.op = "Query" =>
         /\ FirstRows(c, result'[c])
         /\ ret'.ok => \A k \in DOMAIN View(c).rows :
                         \E i \in DOMAIN result'[c] : result'[c][i].user_id = k]_vars

\* What the calls return tells the program whether it has a connection, though
\* IsConnected() does not after an open that failed: a client gets one just in
\* a Connect that returns true and loses it just in a Close, its destructor or
\* its end, and without one no other call returns true.
ConnectedAsTold ==
    [][\A c \in Clients :
         /\ ~Usable(c) /\ conn'[c].db = "open" =>
              ret' = [client |-> c, op |-> "Connect", ok |-> TRUE]
         /\ Usable(c) /\ conn'[c].db # "open" =>
              ret'.client = c /\ ret'.op \in {"Close", "Destroy", "Died"}
         /\ ret'.client = c /\ ret'.ok /\ conn'[c].db # "open" =>
              ret'.op \in {"Close", "Destroy"}]_vars
-----------------------------------------------------------------------------
(***************************************************************************)
(* The inductive invariant.  A writer that wrote nothing sees the file, so *)
(* that only a connection without others on the file changes it, and what  *)
(* a Query sees stays until it ends.                                       *)
(***************************************************************************)
LockInv(c) ==
    /\ conn[c].lock # "none" => conn[c].tx \/ query[c].on \/ conn[c].stuck
    /\ query[c].on => conn[c].lock # "none"
    /\ conn[c].stuck \/ orphan[c] # {} => threw[c]

WorkInv(c) ==
    /\ Writing(c) => conn[c].tx
    /\ conn[c].dirty => Writing(c)
    /\ Writing(c) /\ ~conn[c].dirty => conn[c].work = disk
    /\ unit[c] => conn[c].tx

QueryInv(c) ==
    LET res  == result[c]
        rows == View(c).rows
    IN  query[c].on =>
          /\ \A i, j \in DOMAIN res : i < j => res[i].user_id < res[j].user_id
          /\ \A i \in DOMAIN res : /\ res[i].user_id \in DOMAIN rows
                                   /\ res[i].user_id <= query[c].at
                                   /\ res[i] = Loaded(c, res[i].user_id)
          /\ \A k \in DOMAIN rows :
               k <= query[c].at => \E i \in DOMAIN res : res[i].user_id = k

IInv == TypeOK /\ \A c \in Clients : LockInv(c) /\ WorkInv(c) /\ QueryInv(c)
=============================================================================
