--------------------------- MODULE HttpConnection ---------------------------
(***************************************************************************)
(* The HTTP side of EboServer: TCP connections that the IO threads of the  *)
(* muzi TcpServer serve, the HttpMessage kept as each connection's         *)
(* context, its incremental Parse, the OnMessage loop and Dispath.         *)
(*                                                                         *)
(* A client's bytes are a finite stream of tokens: pieces of a URL, the    *)
(* head that ends it (the blank, the version and the headers), pieces of a *)
(* body, and bytes that http_parser refuses.  Strings are sets of stream   *)
(* positions: url_ is the set of the URL positions it was assigned from.   *)
(***************************************************************************)
EXTENDS Integers, Sequences, FiniteSets

CONSTANTS
    Conns,      \* the client connections
    Threads,    \* the IO threads of the TcpServer
    ThreadOf,   \* the IO thread each connection is given to when accepted
    Scripts,    \* what a client may send: requests and their token stream
    None,       \* no connection
    NoContext   \* a connection without a context

(***************************************************************************)
(* A script is a record: req[r] describes request r (is its method GET, is *)
(* its path login, does it ask for a protocol upgrade); stream is the      *)
(* sequence of tokens, each a part of one request, "last" on the token     *)
(* that completes its request.  Requests follow one another, each with its *)
(* URL, its head and its body in this order, nothing between the URL and   *)
(* the head, and a request is not complete without its head.               *)
(***************************************************************************)
Kinds == {"url", "head", "body", "bad"}

Attributes == [get : BOOLEAN, login : BOOLEAN, upgrade : BOOLEAN]

Tokens == [req : Nat \ {0}, kind : Kinds, last : BOOLEAN]

WellFormed(s) ==
    /\ s.req \in Seq(Attributes)
    /\ s.stream \in Seq(Tokens)
    /\ \A p \in 1 .. Len(s.stream) :
         /\ s.stream[p].req <= Len(s.req)
         /\ s.stream[p].kind = "head" =>
              /\ p - 1 \in 1 .. Len(s.stream)
              /\ s.stream[p - 1].kind = "url"
              /\ s.stream[p - 1].req = s.stream[p].req
         /\ s.stream[p].last => \E h \in 1 .. p :
              s.stream[h].kind = "head" /\ s.stream[h].req = s.stream[p].req
    /\ \A p, q \in 1 .. Len(s.stream) : p < q =>
         /\ s.stream[p].req <= s.stream[q].req
         /\ s.stream[p].last => s.stream[p].req < s.stream[q].req
         /\ s.stream[p].req = s.stream[q].req =>
              /\ s.stream[q].kind \in {"url", "head"} => s.stream[p].kind = "url"
              /\ s.stream[p].kind = "url" /\ q = p + 1 => s.stream[q].kind # "body"

ASSUME ThreadsAssumption ==
    /\ ThreadOf \in [Conns -> Threads]
    /\ None \notin Conns

ASSUME ScriptsAssumption == \A s \in Scripts : WellFormed(s)

VARIABLES
    script,     \* the script of each connection's client
    sent,       \* number of tokens the client has sent
    avail,      \* number of tokens read from the socket into the Buffer
    taken,      \* number of tokens retrieved from the Buffer
    msg,        \* the connection's context: an HttpMessage, or NoContext
    cur,        \* the connection whose OnMessage the IO thread is in, or None
    pc,         \* where in OnMessage the IO thread is
    out,        \* the replies sent on each connection
    split,      \* history: requests whose URL came in more than one Parse
    pipelined   \* history: the client sent a request before the last reply

vars == <<script, sent, avail, taken, msg, cur, pc, out, split, pipelined>>

client == <<script, sent, pipelined>>

-----------------------------------------------------------------------------
Stream(c) == script[c].stream

\* The token positions of the connection's Buffer.
Readable(c) == (taken[c] + 1) .. avail[c]

IsKind(c, p, k) == Stream(c)[p].kind = k

ReqAt(c, p) == Stream(c)[p].req

FullUrl(c, r) ==
    {p \in 1 .. Len(Stream(c)) : IsKind(c, p, "url") /\ ReqAt(c, p) = r}

MaxOf(S) == CHOOSE x \in S : \A y \in S : y <= x

(***************************************************************************)
(* http_parser_execute (vendored library, external).  It makes the         *)
(* callbacks of the tokens it consumes, stops after a message that asks    *)
(* for an upgrade, and stops for good at the first byte it refuses.        *)
(***************************************************************************)
EndsUpgrade(c, p) == Stream(c)[p].last /\ script[c].req[ReqAt(c, p)].upgrade

Consumed(c) ==
    {p \in Readable(c) :
        /\ ~msg[c].errno
        /\ \A q \in Readable(c) : q <= p => ~IsKind(c, q, "bad")
        /\ \A q \in Readable(c) : q < p => ~EndsUpgrade(c, q)}

Refused(c) ==
    \/ msg[c].errno
    \/ \E e \in Readable(c) :
         /\ IsKind(c, e, "bad")
         /\ \A q \in Readable(c) : q < e =>
              ~IsKind(c, q, "bad") /\ ~EndsUpgrade(c, q)

\* The requests whose URL is reported: a piece of it, or its end alone (then
\* with length 0), is in this call; on an error a pending piece is dropped.
UrlReported(c) ==
    {r \in DOMAIN script[c].req :
       \/ /\ \E p \in Consumed(c) : IsKind(c, p, "url") /\ ReqAt(c, p) = r
          /\ Refused(c) =>
               \E p \in Consumed(c) : IsKind(c, p, "head") /\ ReqAt(c, p) = r
       \/ /\ taken[c] + 1 \in Consumed(c)
          /\ IsKind(c, taken[c] + 1, "head")
          /\ ReqAt(c, taken[c] + 1) = r}

Completed(c) == {ReqAt(c, p) : p \in {q \in Consumed(c) : Stream(c)[q].last}}
-----------------------------------------------------------------------------
(***************************************************************************)
(* HttpMessage: parsed_, url_, method_ (is it GET), the error number the   *)
(* parser keeps, and (history) of, the request completed last.             *)
(***************************************************************************)
Messages ==
    [parsed : BOOLEAN, url : SUBSET Nat, get : BOOLEAN, errno : BOOLEAN, of : Nat]

ASSUME NoContextAssumption == NoContext \notin Messages

NewMessage == [parsed |-> FALSE, url |-> {}, get |-> FALSE, errno |-> FALSE, of |-> 0]

\* Mutants: url_ is filled only when empty; url_ is cleared by every Parse.
UrlOnce(c) ==
    IF UrlReported(c) = {} \/ msg[c].url # {} THEN msg[c].url
    ELSE {p \in Consumed(c) :
            IsKind(c, p, "url") /\ ReqAt(c, p) = MaxOf(UrlReported(c))}

UrlCleared(c) ==
    {p \in Consumed(c) :
        IsKind(c, p, "url") /\ UrlReported(c) # {} /\ ReqAt(c, p) = MaxOf(UrlReported(c))}

\* OnUrl assigns: of several calls, the last one's piece remains.
UrlAfter(c) ==
    IF UrlReported(c) = {} THEN msg[c].url
    ELSE {p \in Consumed(c) :
            IsKind(c, p, "url") /\ ReqAt(c, p) = MaxOf(UrlReported(c))}

\* HttpMessage after a Parse whose callbacks completed the requests done.
AfterParse(c, done, parsed) ==
    LET some == done # {}
    IN  [parsed |-> parsed,
         url    |-> UrlAfter(c),
         get    |-> IF some THEN script[c].req[MaxOf(done)].get ELSE msg[c].get,
         errno  |-> Refused(c),
         of     |-> IF some THEN MaxOf(done) ELSE msg[c].of]

\* Mutants: Parse without "parsed_ = false"; parsed_ is set by the end of the
\* headers.
ParsedNoReset(c) ==
    AfterParse(c, Completed(c), Completed(c) # {} \/ msg[c].parsed)

ParsedAtHead(c) ==
    LET done == {ReqAt(c, p) : p \in {q \in Consumed(c) : IsKind(c, q, "head")}}
    IN  AfterParse(c, done, done # {})

\* HttpMessage::Parse of the whole Buffer: reset parsed_, then the callbacks.
Parsed(c) == AfterParse(c, Completed(c), Completed(c) # {})

\* Mutant: the bytes of an incomplete message stay in the Buffer.
ParseResultWhole(c) ==
    IF Refused(c) \/ Completed(c) = {} THEN 0 ELSE MaxOf(Consumed(c)) - taken[c]

\* The result of Parse: on an error "return false", so nothing is retrieved.
ParseResult(c) == IF Refused(c) THEN 0 ELSE MaxOf(Consumed(c)) - taken[c]

\* Url::Parse finds the path when url_ holds the URL's beginning; a piece
\* without it has no '/' and gives an invalid Url.
IsLogin(c, url) ==
    \E p \in url : /\ script[c].req[ReqAt(c, p)].login
                   /\ \A q \in FullUrl(c, ReqAt(c, p)) : p <= q

StatusOf(c, get, url) == IF get /\ IsLogin(c, url) THEN 200 ELSE 404

-----------------------------------------------------------------------------
Init ==
    /\ script \in [Conns -> Scripts]
    /\ sent = [c \in Conns |-> 0]
    /\ avail = [c \in Conns |-> 0]
    /\ taken = [c \in Conns |-> 0]
    /\ msg = [c \in Conns |-> NoContext]
    /\ cur = [t \in Threads |-> None]
    /\ pc = [t \in Threads |-> "idle"]
    /\ out = [c \in Conns |-> <<>>]
    /\ split = [c \in Conns |-> {}]
    /\ pipelined = [c \in Conns |-> FALSE]

(***************************************************************************)
(* The client sends any further part of its stream, in one or more TCP     *)
(* segments that may join or cut requests anywhere.                        *)
(***************************************************************************)
ClientSend(c) ==
    \E n \in (sent[c] + 1) .. Len(Stream(c)) :
        /\ sent' = [sent EXCEPT ![c] = n]
        /\ pipelined' =
             [pipelined EXCEPT ![c] = @ \/ ReqAt(c, n) > Len(out[c]) + 1]
        /\ UNCHANGED <<script, avail, taken, msg, cur, pc, out, split>>

(***************************************************************************)
(* The IO thread's event loop reads what the socket holds and calls        *)
(* OnMessage, which makes the HttpMessage when the connection has none.    *)
(***************************************************************************)
OnMessage(t, c) ==
    /\ pc[t] = "idle"
    /\ ThreadOf[c] = t
    /\ avail[c] < sent[c]
    /\ avail' = [avail EXCEPT ![c] = sent[c]]
    /\ msg' = [msg EXCEPT ![c] = IF @ = NoContext THEN NewMessage ELSE @]
    /\ cur' = [cur EXCEPT ![t] = c]
    /\ pc' = [pc EXCEPT ![t] = "loop"]
    /\ UNCHANGED <<client, taken, out, split>>

\* One turn of the while loop up to the test of IsMessageParsed().
Parse(t) ==
    LET c == cur[t] IN
    /\ pc[t] = "loop"
    /\ Readable(c) # {}
    /\ msg' = [msg EXCEPT ![c] = Parsed(c)]
    /\ taken' = [taken EXCEPT ![c] = @ + ParseResult(c)]
    /\ pc' = [pc EXCEPT ![t] = IF Parsed(c).parsed THEN "dispatch" ELSE "loop"]
    /\ split' = [split EXCEPT ![c] = @ \cup
         {r \in DOMAIN script[c].req :
            \E p \in Consumed(c) : /\ IsKind(c, p, "url") /\ ReqAt(c, p) = r
                                   /\ p + 1 \notin Consumed(c)}]
    /\ UNCHANGED <<client, avail, cur, out>>

\* Mutant: the handler of a request that is not found sends nothing.
DispathSilent(t) ==
    LET c == cur[t] IN
    /\ pc[t] = "dispatch"
    /\ out' = IF StatusOf(c, msg[c].get, msg[c].url) = 404 THEN out
              ELSE [out EXCEPT ![c] = Append(@,
                [code |-> 200, url |-> msg[c].url, req |-> msg[c].of])]
    /\ pc' = [pc EXCEPT ![t] = "loop"]
    /\ UNCHANGED <<client, avail, taken, msg, cur, split>>

\* Dispath, the handler it chooses and the Response that handler sends.
Dispath(t) ==
    LET c == cur[t] IN
    /\ pc[t] = "dispatch"
    /\ out' = [out EXCEPT ![c] = Append(@,
         [code |-> StatusOf(c, msg[c].get, msg[c].url),
          url  |-> msg[c].url,
          req  |-> msg[c].of])]
    /\ pc' = [pc EXCEPT ![t] = "loop"]
    /\ UNCHANGED <<client, avail, taken, msg, cur, split>>

\* Mutant: "if" for "while" in OnMessage.
ReturnAtOnce(t) ==
    /\ pc[t] = "loop"
    /\ cur' = [cur EXCEPT ![t] = None]
    /\ pc' = [pc EXCEPT ![t] = "idle"]
    /\ UNCHANGED <<client, avail, taken, msg, out, split>>

\* The Buffer is empty: OnMessage returns to the event loop.
Return(t) ==
    /\ pc[t] = "loop"
    /\ Readable(cur[t]) = {}
    /\ cur' = [cur EXCEPT ![t] = None]
    /\ pc' = [pc EXCEPT ![t] = "idle"]
    /\ UNCHANGED <<client, avail, taken, msg, out, split>>

Next ==
    \/ \E c \in Conns : ClientSend(c)
    \/ \E t \in Threads : \/ \E c \in Conns : OnMessage(t, c)
                          \/ Parse(t)
                          \/ Dispath(t)
                          \/ Return(t)

(***************************************************************************)
(* A thread inside OnMessage runs on; epoll is level triggered and a poll  *)
(* round handles every ready channel, so a connection that stays readable  *)
(* is handled.  Nothing obliges a client to send.                          *)
(***************************************************************************)
Fairness ==
    \A t \in Threads : /\ WF_vars(Parse(t) \/ Dispath(t) \/ Return(t))
                       /\ \A c \in Conns : WF_vars(OnMessage(t, c))

Spec == Init /\ [][Next]_vars

FairSpec == Spec /\ Fairness
-----------------------------------------------------------------------------

Replies == [code : {200, 404}, url : SUBSET Nat, req : Nat]

\* Type invariant of the connections, the IO threads and the history.
TypeOK ==
    /\ script \in [Conns -> Scripts]
    /\ sent \in [Conns -> Nat]
    /\ avail \in [Conns -> Nat]
    /\ taken \in [Conns -> Nat]
    /\ msg \in [Conns -> Messages \cup {NoContext}]
    /\ cur \in [Threads -> Conns \cup {None}]
    /\ pc \in [Threads -> {"idle", "loop", "dispatch"}]
    /\ out \in [Conns -> Seq(Replies)]
    /\ split \in [Conns -> SUBSET Nat]
    /\ pipelined \in [Conns -> BOOLEAN]

\* Request r has been sent up to its last token.
Arrived(c, r) ==
    \E p \in 1 .. sent[c] : ReqAt(c, p) = r /\ Stream(c)[p].last

\* The status a handler chosen by the request itself would answer.
StatusOfRequest(c, r) ==
    IF script[c].req[r].get /\ script[c].req[r].login THEN 200 ELSE 404

\* OnMessage answers the requests of a connection in their order and none of
\* them twice, however the bytes are cut and however often Parse is called
\* again on the same bytes after an error.
AnswersInOrder ==
    \A c \in Conns : \A i, j \in DOMAIN out[c] :
        i < j => out[c][i].req < out[c][j].req

\* A reply is sent only for a request whose last byte has been received.
AnswersArrived ==
    \A c \in Conns : \A i \in DOMAIN out[c] : Arrived(c, out[c][i].req)

\* The URL a handler is chosen by is never left over from a request older
\* than the one the parser completed: on the reused HttpMessage, url_ is
\* empty or belongs to that request or a later one.
NoStaleUrl ==
    \A c \in Conns : \A i \in DOMAIN out[c] : \A p \in out[c][i].url :
        out[c][i].req <= ReqAt(c, p)

\* With a client that waits for each reply, the i-th reply is to the i-th
\* request, and if its URL came in one Parse the handler saw the whole URL
\* and the request's own method, whatever the cuts elsewhere.
SequentialClientAnswered ==
    \A c \in Conns : ~pipelined[c] =>
        \A i \in DOMAIN out[c] :
            /\ out[c][i].req = i
            /\ i \notin split[c] =>
                 /\ out[c][i].url = FullUrl(c, i)
                 /\ out[c][i].code = StatusOfRequest(c, i)

\* An OnMessage whose parser did not refuse a byte leaves nothing behind: in
\* an idle thread's connections all that was read is retrieved, and what a
\* client without pipelining completed is answered.
IdleMeansAnswered ==
    \A c \in Conns : pc[ThreadOf[c]] = "idle" =>
        /\ taken[c] = avail[c]
        /\ ~pipelined[c] =>
             \A p \in 1 .. taken[c] :
                 Stream(c)[p].last => \E i \in DOMAIN out[c] : out[c][i].req = ReqAt(c, p)

\* An IO thread is stuck in OnMessage of a connection whose parser refused a
\* byte: Parse retrieves nothing any more.
Stuck(t) == cur[t] # None /\ msg[cur[t]].errno

\* The client waits for the reply to a request it has sent in full.
Waiting(c) ==
    /\ ~pipelined[c]
    /\ \E r \in DOMAIN script[c].req : Arrived(c, r) /\ r \notin DOMAIN out[c]

\* OnMessage returns to the event loop unless the parser refused a byte: the
\* while loop ends, since every other Parse retrieves at least one byte.
OnMessageReturns ==
    \A t \in Threads : (pc[t] # "idle") ~> (pc[t] = "idle" \/ Stuck(t))

\* What the header of http_parser says of its data callbacks ("called
\* arbitrarily many times for each string"): the URL a request is handled
\* with is put together from all its pieces.  OnUrl assigns instead.
UrlAssembled ==
    \A c \in Conns : ~pipelined[c] =>
        \A i \in DOMAIN out[c] : out[c][i].url = FullUrl(c, out[c][i].req)

\* The client did not wait for a reply, or its thread is stuck.
Off(c) == pipelined[c] \/ Stuck(ThreadOf[c])

Asked(c) == Cardinality({r \in DOMAIN script[c].req : Arrived(c, r)})

\* The server as a client that waits sees it: RequestReply, with a request
\* asked once its last byte is sent and answered once its reply is.
RR == INSTANCE RequestReply WITH
        asked    <- [c \in Conns |-> IF Off(c) THEN 0 ELSE Asked(c)],
        answered <- [c \in Conns |-> IF Off(c) THEN 0 ELSE Len(out[c])],
        off      <- {c \in Conns : Off(c)}

\* Each request of a waiting client gets exactly one reply, in its turn,
\* unless some connection of the same IO thread sent a byte that the parser
\* refuses.
OneReplyPerRequest == RR!Spec
-----------------------------------------------------------------------------
(***************************************************************************)
(* The inductive invariant behind AnswersInOrder, AnswersArrived and       *)
(* NoStaleUrl.                                                             *)
(***************************************************************************)
Errno(c) == msg[c] # NoContext /\ msg[c].errno

\* Token p ends request r and the parser is past it: it is retrieved, or the
\* parser refused a later byte of the Buffer that was then kept.
Past(c, p, r) ==
    /\ p \in 1 .. avail[c]
    /\ Stream(c)[p].last /\ ReqAt(c, p) = r
    /\ Errno(c) \/ p <= taken[c]

ThreadInv ==
    \A t \in Threads :
        /\ pc[t] = "idle" <=> cur[t] = None
        /\ cur[t] # None => ThreadOf[cur[t]] = t /\ msg[cur[t]] # NoContext

BufferInv ==
    \A c \in Conns : /\ taken[c] <= avail[c]
                     /\ avail[c] <= sent[c]
                     /\ sent[c] <= Len(Stream(c))

ReplyInv ==
    \A c \in Conns :
        /\ msg[c] = NoContext => out[c] = <<>>
        /\ \A i \in DOMAIN out[c] :
             \E p \in 1 .. avail[c] : Past(c, p, out[c][i].req)

UrlInv ==
    \A c \in Conns : msg[c] # NoContext =>
        \A u \in msg[c].url :
            /\ u \in 1 .. Len(Stream(c))
            /\ ~msg[c].errno =>
                 \A h \in 1 .. taken[c] :
                     IsKind(c, h, "head") => ReqAt(c, h) <= ReqAt(c, u)

\* The request Parse completed is past, newer than all answered and no newer
\* than the request url_ belongs to.
Dispatchable(c) ==
    /\ \E p \in 1 .. avail[c] : Past(c, p, msg[c].of)
    /\ \A i \in DOMAIN out[c] : out[c][i].req < msg[c].of
    /\ \A u \in msg[c].url : msg[c].of <= ReqAt(c, u)

DispathInv == \A t \in Threads : pc[t] = "dispatch" => Dispatchable(cur[t])

IInv ==
    /\ TypeOK
    /\ ThreadInv
    /\ BufferInv
    /\ ReplyInv
    /\ UrlInv
    /\ DispathInv
    /\ AnswersInOrder
    /\ NoStaleUrl
-----------------------------------------------------------------------------
(***************************************************************************)
(* The inductive invariant behind SequentialClientAnswered and             *)
(* IdleMeansAnswered, which builds on IInv.                                *)
(***************************************************************************)
Dispatching(c) == pc[ThreadOf[c]] = "dispatch" /\ cur[ThreadOf[c]] = c

\* The request a client that waits is at.
Turn(c) == Len(out[c]) + 1

InTurn(c) == \A p \in 1 .. sent[c] : ReqAt(c, p) <= Turn(c)

\* What is retrieved completes no request but those answered, and the one that
\* is dispatched.
AnsweredOrAt(c) ==
    \A p \in 1 .. taken[c] : Stream(c)[p].last =>
        ReqAt(c, p) < Turn(c) \/ (Dispatching(c) /\ ReqAt(c, p) = Turn(c))

AtTurn(c) ==
    Dispatching(c) =>
        /\ ~Errno(c)
        /\ msg[c].of = Turn(c)
        /\ Turn(c) \in DOMAIN script[c].req
        /\ msg[c].get = script[c].req[Turn(c)].get
        /\ \E p \in 1 .. taken[c] : Stream(c)[p].last /\ ReqAt(c, p) = Turn(c)

\* A URL that is not split is still to come or in url_ as a whole.
UrlWhole(c) ==
    Turn(c) \notin split[c] /\ ~Errno(c) =>
        \/ \A p \in 1 .. taken[c] : ReqAt(c, p) = Turn(c) => ~IsKind(c, p, "url")
        \/ /\ \E h \in 1 .. taken[c] : IsKind(c, h, "head") /\ ReqAt(c, h) = Turn(c)
           /\ msg[c] # NoContext /\ msg[c].url = FullUrl(c, Turn(c))

SeqInv ==
    /\ SequentialClientAnswered
    /\ \A c \in Conns : ~pipelined[c] =>
         InTurn(c) /\ AnsweredOrAt(c) /\ AtTurn(c) /\ UrlWhole(c)
    /\ \A c \in Conns : cur[ThreadOf[c]] # c => taken[c] = avail[c]
=============================================================================
