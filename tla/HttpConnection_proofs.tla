------------------------ MODULE HttpConnection_proofs ------------------------
(***************************************************************************)
(* Proofs about HttpConnection for any connections, threads and scripts:   *)
(* its types; that replies are in order, to requests that arrived, and     *)
(* never chosen by the URL of an older request; and that it does what      *)
(* RequestReply says.                                                      *)
(***************************************************************************)
EXTENDS HttpConnection, FiniteSetTheorems, WellFoundedInduction, TLAPS

-----------------------------------------------------------------------------
\* A nonempty bounded set of numbers has a greatest element, and MaxOf is it.
LEMMA MaxOfIsMax ==
    ASSUME NEW b \in Nat, NEW S, S \subseteq 0 .. b, S # {}
    PROVE  MaxOf(S) \in S /\ \A y \in S : y <= MaxOf(S)
<1> DEFINE T == {b - x : x \in S}
           R == {ss \in Nat \X Nat : ss[1] < ss[2]}
<1>1. T \subseteq Nat
    OBVIOUS
<1>2. T # {}
    <2>1. PICK x \in S : TRUE
        OBVIOUS
    <2>2. b - x \in T
        BY <2>1
    <2> QED
        BY <2>2
<1>3. IsWellFoundedOn(R, Nat)
    BY NatLessThanWellFounded DEF OpToRel
<1> HIDE DEF R, T
<1>4. PICK m \in T : \A y \in T : <<y, m>> \notin R
    BY <1>1, <1>2, <1>3, WFMin
<1>5. PICK x \in S : m = b - x
    BY DEF T
<1>6. \A y \in S : y <= x
    <2> SUFFICES ASSUME NEW y \in S, ~(y <= x) PROVE FALSE
        OBVIOUS
    <2>1. b - y \in T
        BY DEF T
    <2>2. b - y \in Nat /\ m \in Nat /\ b - y < m
        BY <1>5
    <2>3. <<b - y, m>> \in R
        BY <2>2 DEF R
    <2> QED
        BY <1>4, <2>1, <2>3
<1> QED
    BY <1>6 DEF MaxOf
-----------------------------------------------------------------------------
\* What WellFormed says of the stream of a connection.
LEMMA StreamFacts ==
    ASSUME TypeOK, NEW c \in Conns
    PROVE  /\ WellFormed(script[c])
           /\ Len(Stream(c)) \in Nat
           /\ DOMAIN script[c].req = 1 .. Len(script[c].req)
           /\ Len(script[c].req) \in Nat
           /\ \A r \in DOMAIN script[c].req : script[c].req[r] \in Attributes
           /\ \A p \in 1 .. Len(Stream(c)) :
                /\ Stream(c)[p] \in Tokens
                /\ ReqAt(c, p) \in DOMAIN script[c].req
           /\ \A p, q \in 1 .. Len(Stream(c)) : p < q =>
                /\ ReqAt(c, p) <= ReqAt(c, q)
                /\ Stream(c)[p].last => ReqAt(c, p) < ReqAt(c, q)
<1>1. WellFormed(script[c])
    BY ScriptsAssumption DEF TypeOK
<1>2. script[c].req \in Seq(Attributes) /\ script[c].stream \in Seq(Tokens)
    BY <1>1 DEF WellFormed
<1>3. \A p \in 1 .. Len(script[c].stream) : script[c].stream[p] \in Tokens
    BY <1>2
<1> QED
    BY <1>1, <1>2, <1>3 DEF WellFormed, Stream, ReqAt, Tokens

\* The tokens that a Parse consumes are in the Buffer; unless a byte is refused
\* there is one, and exactly they are retrieved.
LEMMA ConsumedFacts ==
    ASSUME TypeOK, BufferInv, NEW c \in Conns
    PROVE  /\ taken[c] \in Nat /\ avail[c] \in Nat /\ sent[c] \in Nat
           /\ Consumed(c) \subseteq Readable(c)
           /\ Readable(c) \subseteq 1 .. avail[c]
           /\ avail[c] <= Len(Stream(c))
           /\ ~Refused(c) /\ Readable(c) # {} =>
                /\ taken[c] + ParseResult(c) \in Consumed(c)
                /\ \A q \in Consumed(c) : q <= taken[c] + ParseResult(c)
           /\ Refused(c) => ParseResult(c) = 0
<1>1. /\ taken[c] \in Nat /\ avail[c] \in Nat /\ sent[c] \in Nat
      /\ taken[c] <= avail[c] /\ avail[c] <= sent[c] /\ sent[c] <= Len(Stream(c))
    BY DEF TypeOK, BufferInv
<1>2. Len(Stream(c)) \in Nat
    BY StreamFacts
<1>3. Consumed(c) \subseteq Readable(c) /\ Readable(c) \subseteq 1 .. avail[c]
    BY <1>1 DEF Consumed, Readable
<1>4. ASSUME ~Refused(c), Readable(c) # {}
      PROVE  /\ taken[c] + ParseResult(c) \in Consumed(c)
             /\ \A q \in Consumed(c) : q <= taken[c] + ParseResult(c)
    <2>1. taken[c] + 1 \in Readable(c) /\ \A q \in Readable(c) : taken[c] + 1 <= q
        BY <1>1, <1>4 DEF Readable
    <2>2. ~msg[c].errno /\ ~IsKind(c, taken[c] + 1, "bad")
        BY <1>4, <2>1, <1>1 DEF Refused, Readable
    <2>3. taken[c] + 1 \in Consumed(c)
        BY <2>1, <2>2, <1>1 DEF Consumed, Readable
    <2>4. Consumed(c) \subseteq 0 .. avail[c]
        BY <1>1, <1>3
    <2>5. MaxOf(Consumed(c)) \in Consumed(c) /\ \A q \in Consumed(c) : q <= MaxOf(Consumed(c))
        BY <1>1, <2>3, <2>4, MaxOfIsMax
    <2>6. taken[c] + ParseResult(c) = MaxOf(Consumed(c))
        BY <1>1, <1>4, <2>4, <2>5 DEF ParseResult
    <2> QED
        BY <2>5, <2>6
<1> QED
    BY <1>1, <1>2, <1>3, <1>4 DEF ParseResult

\* The requests that a Parse completes, and the last of them.
LEMMA CompletedFacts ==
    ASSUME TypeOK, BufferInv, NEW c \in Conns
    PROVE  /\ \A r \in Completed(c) : \E q \in Consumed(c) :
                Stream(c)[q].last /\ ReqAt(c, q) = r
           /\ Completed(c) \subseteq DOMAIN script[c].req
           /\ Completed(c) # {} =>
                /\ MaxOf(Completed(c)) \in Completed(c)
                /\ \A r \in Completed(c) : r <= MaxOf(Completed(c))
<1>1. Consumed(c) \subseteq 1 .. Len(Stream(c)) /\ Len(Stream(c)) \in Nat
    BY ConsumedFacts, StreamFacts
<1>2. \A r \in Completed(c) : \E q \in Consumed(c) : Stream(c)[q].last /\ ReqAt(c, q) = r
    BY DEF Completed
<1>3. Completed(c) \subseteq DOMAIN script[c].req
    BY <1>1, <1>2, StreamFacts
<1>4. Completed(c) \subseteq 0 .. Len(script[c].req) /\ Len(script[c].req) \in Nat
    BY <1>3, StreamFacts
<1> QED
    BY <1>2, <1>3, <1>4, MaxOfIsMax

\* Parse leaves a well-typed HttpMessage.
LEMMA ParsedType ==
    ASSUME TypeOK, BufferInv, NEW c \in Conns, msg[c] \in Messages
    PROVE  Parsed(c) \in Messages
<1>1. Consumed(c) \subseteq Nat
    BY ConsumedFacts
<1>2. UrlAfter(c) \in SUBSET Nat
    BY <1>1 DEF UrlAfter, Messages
<1>3. Refused(c) \in BOOLEAN
    BY DEF Refused, Messages
<1>4. CASE Completed(c) = {}
    BY <1>2, <1>3, <1>4 DEF Parsed, AfterParse, Messages
<1>5. CASE Completed(c) # {}
    <2>1. MaxOf(Completed(c)) \in DOMAIN script[c].req /\ MaxOf(Completed(c)) \in Nat
        BY <1>5, CompletedFacts, StreamFacts
    <2>2. script[c].req[MaxOf(Completed(c))].get \in BOOLEAN
        BY <2>1, StreamFacts DEF Attributes
    <2> QED
        BY <1>2, <1>3, <1>5, <2>1, <2>2 DEF Parsed, AfterParse, Messages
<1> QED
    BY <1>4, <1>5
-----------------------------------------------------------------------------
\* Types, threads and Buffers: inductive by themselves.
Basic == TypeOK /\ ThreadInv /\ BufferInv

\* They hold before any client connects.
LEMMA BasicInit == Init => Basic
<1> SUFFICES ASSUME Init PROVE Basic
    OBVIOUS
<1>1. \A c \in Conns : Len(Stream(c)) \in Nat
    BY ScriptsAssumption DEF Init, WellFormed, Stream
<1>2. TypeOK
    BY DEF Init, TypeOK
<1>3. ThreadInv
    BY DEF Init, ThreadInv
<1>4. BufferInv
    BY <1>1 DEF Init, BufferInv
<1> QED
    BY <1>2, <1>3, <1>4 DEF Basic

\* The connection of a thread inside OnMessage has its context.
LEMMA InLoop ==
    ASSUME Basic, NEW t \in Threads, pc[t] # "idle"
    PROVE  cur[t] \in Conns /\ ThreadOf[cur[t]] = t /\ msg[cur[t]] \in Messages
BY DEF Basic, TypeOK, ThreadInv

\* A connection is handled by one thread at a time.
LEMMA OneThreadPerConnection ==
    ASSUME Basic, NEW t \in Threads, NEW u \in Threads, cur[t] = cur[u], cur[t] # None
    PROVE  t = u
BY DEF Basic, ThreadInv

\* Every step of a client or an IO thread keeps them.
LEMMA BasicStep == Basic /\ [Next]_vars => Basic'
<1> SUFFICES ASSUME Basic, [Next]_vars PROVE Basic'
    OBVIOUS
<1> USE ThreadsAssumption
<1>1. ASSUME NEW c \in Conns, ClientSend(c) PROVE Basic'
    <2>1. PICK n \in (sent[c] + 1) .. Len(Stream(c)) :
            /\ sent' = [sent EXCEPT ![c] = n]
            /\ pipelined' = [pipelined EXCEPT ![c] = @ \/ ReqAt(c, n) > Len(out[c]) + 1]
            /\ UNCHANGED <<script, avail, taken, msg, cur, pc, out, split>>
        BY <1>1 DEF ClientSend
    <2>2. n \in Nat /\ sent[c] < n /\ n <= Len(Stream(c)) /\ avail[c] <= n
        BY StreamFacts DEF Basic, TypeOK, BufferInv
    <2>3. pipelined' \in [Conns -> BOOLEAN]
        BY <2>1 DEF Basic, TypeOK
    <2>4. TypeOK'
        BY <2>1, <2>2, <2>3 DEF Basic, TypeOK
    <2>5. ThreadInv'
        BY <2>1 DEF Basic, ThreadInv
    <2>6. BufferInv'
        BY <2>1, <2>2 DEF Basic, BufferInv, TypeOK, Stream
    <2> QED
        BY <2>4, <2>5, <2>6 DEF Basic
<1>2. ASSUME NEW t \in Threads, NEW c \in Conns, OnMessage(t, c) PROVE Basic'
    <2>1. NewMessage \in Messages
        BY DEF NewMessage, Messages
    <2>2. TypeOK'
        BY <1>2, <2>1 DEF Basic, TypeOK, OnMessage, client
    <2>3. ThreadInv'
        BY <1>2, <2>1, NoContextAssumption DEF Basic, TypeOK, ThreadInv, OnMessage
    <2>4. BufferInv'
        BY <1>2 DEF Basic, TypeOK, BufferInv, OnMessage, client, Stream
    <2> QED
        BY <2>2, <2>3, <2>4 DEF Basic
<1>3. ASSUME NEW t \in Threads, Parse(t) PROVE Basic'
    <2> DEFINE c == cur[t]
    <2>1. c \in Conns /\ ThreadOf[c] = t /\ msg[c] \in Messages
        BY <1>3, InLoop DEF Parse
    <2>2. Parsed(c) \in Messages
        BY <2>1, ParsedType DEF Basic
    <2>3. taken[c] + ParseResult(c) \in Nat /\ taken[c] + ParseResult(c) <= avail[c]
        BY <1>3, <2>1, ConsumedFacts DEF Basic, Parse, BufferInv
    <2>4. split' \in [Conns -> SUBSET Nat]
        BY <1>3, <2>1, StreamFacts DEF Basic, Parse, TypeOK
    <2>5. TypeOK'
        BY <1>3, <2>1, <2>2, <2>3, <2>4 DEF Basic, TypeOK, Parse, client
    <2>6. ThreadInv'
        BY <1>3, <2>1, <2>2, NoContextAssumption DEF Basic, TypeOK, ThreadInv, Parse
    <2>7. BufferInv'
        BY <1>3, <2>1, <2>3 DEF Basic, TypeOK, BufferInv, Parse, client, Stream
    <2> QED
        BY <2>5, <2>6, <2>7 DEF Basic
<1>4. ASSUME NEW t \in Threads, Dispath(t) PROVE Basic'
    <2> DEFINE c == cur[t]
               reply == [code |-> StatusOf(c, msg[c].get, msg[c].url),
                         url |-> msg[c].url, req |-> msg[c].of]
    <2>1. c \in Conns /\ msg[c] \in Messages
        BY <1>4, InLoop DEF Dispath
    <2>2. reply \in Replies
        BY <2>1 DEF Replies, Messages, StatusOf
    <2>3. out' = [out EXCEPT ![c] = Append(out[c], reply)]
        BY <1>4 DEF Dispath
    <2>4. out' \in [Conns -> Seq(Replies)]
        BY <2>1, <2>2, <2>3 DEF Basic, TypeOK
    <2>5. TypeOK'
        BY <1>4, <2>4 DEF Basic, TypeOK, Dispath, client
    <2>6. ThreadInv' /\ BufferInv'
        BY <1>4 DEF Basic, TypeOK, ThreadInv, BufferInv, Dispath, client, Stream
    <2> QED
        BY <2>5, <2>6 DEF Basic
<1>5. ASSUME NEW t \in Threads, Return(t) PROVE Basic'
    <2>1. TypeOK'
        BY <1>5 DEF Basic, TypeOK, Return, client
    <2>2. ThreadInv' /\ BufferInv'
        BY <1>5 DEF Basic, TypeOK, ThreadInv, BufferInv, Return, client, Stream
    <2> QED
        BY <2>1, <2>2 DEF Basic
<1>6. CASE UNCHANGED vars
    BY <1>6 DEF Basic, TypeOK, ThreadInv, BufferInv, vars, Stream
<1> QED
    BY <1>1, <1>2, <1>3, <1>4, <1>5, <1>6 DEF Next

\* The types of the connections, threads and history are right in every state.
THEOREM TypeCorrect == Spec => []TypeOK
<1>1. Init => Basic
    BY BasicInit
<1>2. Basic /\ [Next]_vars => Basic'
    BY BasicStep
<1>3. Basic => TypeOK
    BY DEF Basic
<1> QED
    BY <1>1, <1>2, <1>3, PTL DEF Spec
-----------------------------------------------------------------------------
\* A call that consumes a token consumes the Buffer up to it.
LEMMA ConsumedFromStart ==
    ASSUME TypeOK, BufferInv, NEW c \in Conns,
           NEW q \in Consumed(c), NEW p \in Readable(c), p <= q
    PROVE  p \in Consumed(c)
<1>1. p \in Int /\ q \in Int /\ Readable(c) \subseteq Int
    BY ConsumedFacts
<1> QED
    BY <1>1 DEF Consumed

\* When a request's head is consumed, its URL has been reported in this call.
LEMMA HeadReported ==
    ASSUME TypeOK, BufferInv, NEW c \in Conns,
           NEW h \in Consumed(c), IsKind(c, h, "head")
    PROVE  ReqAt(c, h) \in UrlReported(c)
<1>1. /\ h \in 1 .. Len(Stream(c)) /\ h \in Readable(c)
      /\ taken[c] \in Nat /\ avail[c] \in Nat
    BY ConsumedFacts, StreamFacts
<1>2. ReqAt(c, h) \in DOMAIN script[c].req
    BY <1>1, StreamFacts
<1>3. CASE h = taken[c] + 1
    BY <1>2, <1>3 DEF UrlReported
<1>4. CASE h # taken[c] + 1
    <2>1. /\ h - 1 \in 1 .. Len(Stream(c))
          /\ IsKind(c, h - 1, "url")
          /\ ReqAt(c, h - 1) = ReqAt(c, h)
        BY <1>1, StreamFacts DEF WellFormed, IsKind, ReqAt, Stream
    <2>2. h - 1 \in Readable(c)
        BY <1>1, <1>4 DEF Readable
    <2>3. h - 1 \in Consumed(c)
        BY <1>1, <2>2, ConsumedFromStart
    <2> QED
        BY <1>2, <2>1, <2>3 DEF UrlReported
<1> QED
    BY <1>3, <1>4

\* The greatest request whose URL is reported.
LEMMA UrlReportedMax ==
    ASSUME TypeOK, NEW c \in Conns, UrlReported(c) # {}
    PROVE  /\ MaxOf(UrlReported(c)) \in UrlReported(c)
           /\ \A r \in UrlReported(c) : r <= MaxOf(UrlReported(c))
<1>1. UrlReported(c) \subseteq 0 .. Len(script[c].req) /\ Len(script[c].req) \in Nat
    BY StreamFacts DEF UrlReported
<1> QED
    BY <1>1, MaxOfIsMax

\* After a Parse, url_ belongs to no request older than one whose head has been
\* consumed, in this call or before.
LEMMA UrlIsLatest ==
    ASSUME Basic, UrlInv, NEW c \in Conns, msg[c] \in Messages, msg[c] # NoContext,
           ~msg[c].errno, NEW u \in UrlAfter(c),
           NEW h \in 1 .. avail[c], IsKind(c, h, "head"),
           h <= taken[c] \/ h \in Consumed(c)
    PROVE  ReqAt(c, h) <= ReqAt(c, u)
<1>1. /\ taken[c] \in Nat /\ avail[c] \in Nat /\ Len(Stream(c)) \in Nat
      /\ avail[c] <= Len(Stream(c))
      /\ Consumed(c) \subseteq Readable(c) /\ Readable(c) \subseteq 1 .. avail[c]
    BY ConsumedFacts, StreamFacts DEF Basic
<1>2. h \in Consumed(c) => ReqAt(c, h) \in UrlReported(c)
    BY HeadReported DEF Basic
<1>3. CASE UrlReported(c) = {}
    <2>1. u \in msg[c].url /\ h \in 1 .. taken[c]
        BY <1>1, <1>2, <1>3 DEF UrlAfter
    <2> QED
        BY <2>1 DEF UrlInv
<1>4. CASE UrlReported(c) # {}
    <2>1. u \in Consumed(c) /\ ReqAt(c, u) = MaxOf(UrlReported(c))
        BY <1>4 DEF UrlAfter
    <2>2. CASE h \in Consumed(c)
        BY <1>2, <1>4, <2>1, <2>2, UrlReportedMax DEF Basic
    <2>3. CASE h <= taken[c]
        <3>1. h < u /\ u \in 1 .. Len(Stream(c)) /\ h \in 1 .. Len(Stream(c))
            BY <1>1, <2>1, <2>3 DEF Readable
        <3> QED
            BY <3>1, StreamFacts DEF Basic
    <2> QED
        BY <2>2, <2>3
<1> QED
    BY <1>3, <1>4
-----------------------------------------------------------------------------
\* The inductive invariant holds before any client connects.
LEMMA IInvInit == Init => IInv
<1> SUFFICES ASSUME Init PROVE IInv
    OBVIOUS
<1>1. TypeOK /\ ThreadInv /\ BufferInv
    BY BasicInit DEF Basic
<1>2. \A c \in Conns : out[c] = <<>> /\ msg[c] = NoContext
    BY DEF Init
<1>3. \A t \in Threads : pc[t] = "idle"
    BY DEF Init
<1>4. ReplyInv /\ UrlInv /\ DispathInv
    BY <1>2, <1>3 DEF ReplyInv, UrlInv, DispathInv
<1>5. AnswersInOrder /\ NoStaleUrl
    BY <1>2 DEF AnswersInOrder, NoStaleUrl
<1> QED
    BY <1>1, <1>4, <1>5 DEF IInv

\* ClientSend disturbs none of the parts: they speak of what was read.
LEMMA IInvClientSend ==
    ASSUME IInv, NEW c \in Conns, ClientSend(c)
    PROVE  ReplyInv' /\ UrlInv' /\ DispathInv' /\ AnswersInOrder' /\ NoStaleUrl'
<1>1. UNCHANGED <<script, avail, taken, msg, cur, pc, out>>
    BY DEF ClientSend
<1> QED
    BY <1>1 DEF IInv, ReplyInv, UrlInv, DispathInv, Dispatchable, AnswersInOrder, NoStaleUrl,
                Past, Errno, Stream, ReqAt, IsKind

\* Return only leaves OnMessage.
LEMMA IInvReturn ==
    ASSUME IInv, NEW t \in Threads, Return(t)
    PROVE  ReplyInv' /\ UrlInv' /\ DispathInv' /\ AnswersInOrder' /\ NoStaleUrl'
<1>1. UNCHANGED <<script, avail, taken, msg, out>>
    BY DEF Return, client
<1>2. \A u \in Threads : pc'[u] = "dispatch" => pc[u] = "dispatch" /\ cur'[u] = cur[u]
    BY DEF Return, IInv, TypeOK
<1>3. DispathInv'
    BY <1>1, <1>2 DEF IInv, DispathInv, Dispatchable, Past, Errno, Stream, ReqAt
<1> QED
    BY <1>1, <1>3 DEF IInv, ReplyInv, UrlInv, AnswersInOrder, NoStaleUrl,
                Past, Errno, Stream, ReqAt, IsKind

\* OnMessage reads more into the Buffer and gives a connection its context.
LEMMA IInvOnMessage ==
    ASSUME IInv, NEW t \in Threads, NEW c \in Conns, OnMessage(t, c)
    PROVE  ReplyInv' /\ UrlInv' /\ DispathInv' /\ AnswersInOrder' /\ NoStaleUrl'
<1>1. UNCHANGED <<script, taken, out>>
    BY DEF OnMessage, client
<1>2. \A d \in Conns : avail[d] \in Nat /\ avail'[d] \in Nat /\ avail[d] <= avail'[d]
    BY DEF OnMessage, IInv, TypeOK
<1>3. \A d \in Conns : \/ msg'[d] = msg[d]
                       \/ /\ msg[d] = NoContext
                          /\ msg'[d] = NewMessage
    BY DEF OnMessage, IInv, TypeOK
<1>4. \A d \in Conns : msg[d] # NoContext => msg'[d] = msg[d]
    BY <1>3
<1>5. \A d \in Conns : \A p, r : msg[d] # NoContext /\ Past(d, p, r) => Past(d, p, r)'
    BY <1>1, <1>2, <1>4 DEF Past, Errno, Stream, ReqAt
<1>6. \A d \in Conns : msg'[d] = NoContext => msg[d] = NoContext
    BY <1>4
<1>7. ReplyInv'
    <2>1. \A d \in Conns : msg[d] = NoContext => DOMAIN out[d] = {}
        BY DEF IInv, ReplyInv
    <2> QED
        BY <1>1, <1>2, <1>5, <1>6, <2>1 DEF IInv, ReplyInv
<1>8. UrlInv'
    <2>1. NewMessage.url = {}
        BY DEF NewMessage
    <2> QED
        BY <1>1, <1>3, <2>1 DEF IInv, UrlInv, Stream, ReqAt, IsKind
<1>9. DispathInv'
    <2>1. \A u \in Threads : pc'[u] = "dispatch" => pc[u] = "dispatch" /\ cur'[u] = cur[u]
        BY DEF OnMessage, IInv, TypeOK
    <2>2. \A u \in Threads : pc[u] = "dispatch" => cur[u] \in Conns /\ msg[cur[u]] # NoContext
        BY DEF IInv, TypeOK, ThreadInv
    <2> QED
        BY <1>1, <1>2, <1>4, <1>5, <2>1, <2>2 DEF IInv, DispathInv, Dispatchable, ReqAt, Stream
<1> QED
    BY <1>1, <1>7, <1>8, <1>9 DEF IInv, AnswersInOrder, NoStaleUrl, ReqAt, Stream
\* Parse: what it completes lies behind everything answered before, and url_
\* is then of the request completed or a later one.
LEMMA IInvParse ==
    ASSUME IInv, NEW t \in Threads, NEW c \in Conns, cur[t] = c, Parse(t)
    PROVE  ReplyInv' /\ UrlInv' /\ DispathInv' /\ AnswersInOrder' /\ NoStaleUrl'
<1>1. Basic
    BY DEF IInv, Basic
<1>2. c \in Conns /\ msg[c] \in Messages /\ msg[c] # NoContext
    BY <1>1, InLoop, NoContextAssumption DEF Parse
<1>3. /\ UNCHANGED <<script, avail, sent, cur, out>>
      /\ msg' = [msg EXCEPT ![c] = Parsed(c)]
      /\ taken' = [taken EXCEPT ![c] = taken[c] + ParseResult(c)]
      /\ pc' = [pc EXCEPT ![t] = IF Parsed(c).parsed THEN "dispatch" ELSE "loop"]
      /\ Readable(c) # {}
    BY DEF Parse, client
<1>4. msg'[c] = Parsed(c) /\ taken'[c] = taken[c] + ParseResult(c)
    BY <1>1, <1>2, <1>3 DEF Basic, TypeOK
<1>5. Parsed(c) \in Messages /\ Parsed(c) # NoContext
    BY <1>1, <1>2, ParsedType, NoContextAssumption DEF Basic
<1>6. Parsed(c).errno = Refused(c) /\ Parsed(c).url = UrlAfter(c)
    BY DEF Parsed, AfterParse
<1>7. /\ taken[c] \in Nat /\ avail[c] \in Nat /\ Len(Stream(c)) \in Nat
      /\ avail[c] <= Len(Stream(c))
      /\ Consumed(c) \subseteq Readable(c) /\ Readable(c) \subseteq 1 .. avail[c]
    BY <1>1, <1>2, ConsumedFacts, StreamFacts DEF Basic
<1>8. \/ Refused(c) /\ taken'[c] = taken[c]
      \/ /\ ~Refused(c)
         /\ taken'[c] \in Consumed(c)
         /\ \A q \in Consumed(c) : q <= taken'[c]
    BY <1>1, <1>2, <1>3, <1>4, <1>7, ConsumedFacts DEF Basic
<1>9. taken[c] <= taken'[c] /\ taken'[c] \in Nat /\ taken'[c] <= avail[c]
    BY <1>1, <1>2, <1>7, <1>8 DEF Readable, Basic, BufferInv
<1>10. msg[c].errno => Refused(c) /\ Consumed(c) = {}
    BY DEF Refused, Consumed
<1>11. \A d \in Conns : d # c => msg'[d] = msg[d] /\ taken'[d] = taken[d]
    BY <1>1, <1>2, <1>3 DEF Basic, TypeOK
<1>12. \A d \in Conns, p \in Nat, r \in Nat : Past(d, p, r) => Past(d, p, r)'
    <2> SUFFICES ASSUME NEW d \in Conns, NEW p \in Nat, NEW r \in Nat, Past(d, p, r)
                 PROVE  Past(d, p, r)'
        OBVIOUS
    <2>1. CASE d # c
        BY <1>3, <1>11, <2>1 DEF Past, Errno, Stream, ReqAt
    <2>2. CASE d = c
        <3>1. Errno(c) => Errno(c)'
            BY <1>2, <1>4, <1>5, <1>6, <1>10 DEF Errno
        <3>2. p <= taken[c] => p <= taken'[c]
            BY <1>7, <1>9
        <3> QED
            BY <1>3, <2>2, <3>1, <3>2 DEF Past, Stream, ReqAt
    <2> QED
        BY <2>1, <2>2
<1>13. ReplyInv'
    <2>1. \A d \in Conns : msg'[d] = NoContext => out'[d] = <<>>
        BY <1>3, <1>4, <1>5, <1>11 DEF IInv, ReplyInv
    <2>2. ASSUME NEW d \in Conns, NEW i \in DOMAIN out[d]
          PROVE  \E p \in 1 .. avail[d] : Past(d, p, out[d][i].req)'
        <3>1. PICK p \in 1 .. avail[d] : Past(d, p, out[d][i].req)
            BY DEF IInv, ReplyInv
        <3>2. out[d][i] \in Replies /\ p \in Nat
            <4>1. out[d] \in Seq(Replies)
                BY DEF IInv, TypeOK
            <4> QED
                BY <4>1
        <3>3. PICK r \in Nat : out[d][i].req = r
            BY <3>2 DEF Replies
        <3>4. Past(d, p, r)'
            BY <1>12, <3>1, <3>2, <3>3
        <3> QED
            BY <1>3, <3>1, <3>3, <3>4
    <2> QED
        BY <1>3, <2>1, <2>2 DEF ReplyInv
<1>14. UrlAfter(c) \subseteq 1 .. Len(Stream(c))
    <2>1. msg[c].url \subseteq 1 .. Len(Stream(c))
        BY <1>2 DEF IInv, UrlInv
    <2> QED
        BY <1>7, <2>1 DEF UrlAfter
<1>15. UrlInv'
    <2>1. ASSUME ~Refused(c), NEW u \in UrlAfter(c), NEW h \in 1 .. taken'[c],
                 IsKind(c, h, "head")
          PROVE  ReqAt(c, h) <= ReqAt(c, u)
        <3>1. ~msg[c].errno
            BY <1>10, <2>1
        <3>2. h \in 1 .. avail[c]
            BY <1>7, <1>9
        <3>3. h <= taken[c] \/ h \in Consumed(c)
            <4> SUFFICES ASSUME ~(h <= taken[c]) PROVE h \in Consumed(c)
                OBVIOUS
            <4>1. h \in Readable(c)
                BY <1>7, <3>2 DEF Readable
            <4>2. taken'[c] \in Consumed(c) /\ h <= taken'[c]
                BY <1>8, <1>9, <2>1
            <4> QED
                BY <1>1, <1>2, <4>1, <4>2, ConsumedFromStart DEF Basic
        <3> QED
            BY <1>1, <1>2, <2>1, <3>1, <3>2, <3>3, UrlIsLatest DEF IInv
    <2>2. ASSUME NEW d \in Conns, msg'[d] # NoContext, NEW u \in msg'[d].url
          PROVE  /\ u \in 1 .. Len(Stream(d))
                 /\ ~msg'[d].errno => \A h \in 1 .. taken'[d] :
                        IsKind(d, h, "head") => ReqAt(d, h) <= ReqAt(d, u)
        <3>1. CASE d = c
            BY <1>4, <1>6, <1>14, <2>1, <2>2, <3>1
        <3>2. CASE d # c
            BY <1>11, <2>2, <3>2 DEF IInv, UrlInv
        <3> QED
            BY <3>1, <3>2
    <2> QED
        BY <1>3, <2>2 DEF UrlInv, Stream, ReqAt, IsKind
<1>16. ASSUME Completed(c) # {}, NEW n, Parsed(c).of = n
       PROVE  /\ \E p \in 1 .. avail[c] : Past(c, p, n)'
              /\ \A i \in DOMAIN out[c] : out[c][i].req < n
              /\ \A u \in UrlAfter(c) : n <= ReqAt(c, u)
    <2>1. n \in Completed(c)
        BY <1>1, <1>2, <1>16, CompletedFacts DEF Parsed, AfterParse, Basic
    <2>2. PICK q \in Consumed(c) : Stream(c)[q].last /\ ReqAt(c, q) = n
        BY <1>1, <1>2, <2>1, CompletedFacts DEF Basic
    <2>3. ~msg[c].errno
        BY <1>10, <2>2
    <2>4. /\ q \in 1 .. avail[c] /\ q \in 1 .. Len(Stream(c))
          /\ taken[c] < q
        BY <1>7, <2>2 DEF Readable
    <2>5. Past(c, q, n)'
        <3>1. Errno(c)' \/ q <= taken'[c]
            BY <1>4, <1>5, <1>6, <1>8, <2>2 DEF Errno
        <3> QED
            BY <1>3, <2>2, <2>4, <3>1 DEF Past, Stream, ReqAt
    <2>6. ASSUME NEW i \in DOMAIN out[c] PROVE out[c][i].req < n
        <3>1. PICK p \in 1 .. avail[c] : Past(c, p, out[c][i].req)
            BY <1>2 DEF IInv, ReplyInv
        <3>2. p <= taken[c] /\ Stream(c)[p].last /\ ReqAt(c, p) = out[c][i].req
            BY <1>2, <2>3, <3>1 DEF Past, Errno
        <3>3. p \in 1 .. Len(Stream(c)) /\ p < q
            BY <1>7, <2>4, <3>1, <3>2
        <3> QED
            BY <1>1, <1>2, <2>2, <2>4, <3>2, <3>3, StreamFacts DEF Basic
    <2>7. ASSUME NEW u \in UrlAfter(c) PROVE n <= ReqAt(c, u)
        <3>1. PICK h \in 1 .. q : IsKind(c, h, "head") /\ ReqAt(c, h) = ReqAt(c, q)
            BY <1>1, <1>2, <2>2, <2>4, StreamFacts
               DEF Basic, WellFormed, IsKind, ReqAt, Stream
        <3>2. h \in 1 .. avail[c]
            BY <1>7, <2>4, <3>1
        <3>3. h <= taken[c] \/ h \in Consumed(c)
            <4> SUFFICES ASSUME ~(h <= taken[c]) PROVE h \in Consumed(c)
                OBVIOUS
            <4>1. h \in Readable(c) /\ h <= q
                BY <1>7, <2>4, <3>1, <3>2 DEF Readable
            <4> QED
                BY <1>1, <1>2, <2>2, <4>1, ConsumedFromStart DEF Basic
        <3> QED
            BY <1>1, <1>2, <2>2, <2>3, <3>1, <3>2, <3>3, UrlIsLatest DEF IInv
    <2> QED
        BY <2>4, <2>5, <2>6, <2>7
<1>17. DispathInv'
    <2>1. ASSUME NEW u \in Threads, pc'[u] = "dispatch", u # t
          PROVE  /\ pc[u] = "dispatch" /\ cur'[u] = cur[u]
                 /\ cur[u] \in Conns /\ cur[u] # c
        <3>1. pc[u] = "dispatch" /\ cur'[u] = cur[u]
            BY <1>1, <1>3, <2>1 DEF Basic, TypeOK
        <3>2. cur[u] \in Conns
            BY <1>1, <3>1, InLoop
        <3> QED
            BY <1>1, <1>2, <2>1, <3>1, <3>2, OneThreadPerConnection, ThreadsAssumption
    <2>2. ASSUME pc'[t] = "dispatch" PROVE Dispatchable(c)'
        <3>1. Completed(c) # {}
            BY <1>1, <1>3, <2>2 DEF Parsed, AfterParse, Basic, TypeOK
        <3>2. msg'[c].url = UrlAfter(c)
            BY <1>4, <1>6
        <3> QED
            BY <1>3, <1>4, <1>16, <3>1, <3>2 DEF Dispatchable, Past, Errno, Stream, ReqAt
    <2>3. ASSUME NEW d \in Conns, d # c, Dispatchable(d) PROVE Dispatchable(d)'
        BY <1>3, <1>11, <2>3 DEF Dispatchable, Past, Errno, Stream, ReqAt
    <2>4. ASSUME NEW u \in Threads, pc'[u] = "dispatch", u # t
          PROVE  Dispatchable(cur[u])
        BY <2>1, <2>4 DEF IInv, DispathInv
    <2>5. ASSUME NEW u \in Threads, pc'[u] = "dispatch"
          PROVE  \E d \in Conns : cur'[u] = d /\ Dispatchable(d)'
        BY <1>3, <2>1, <2>2, <2>3, <2>4, <2>5
    <2> QED
        BY <2>5 DEF DispathInv, Dispatchable, Past, Errno, Stream, ReqAt
<1>18. AnswersInOrder' /\ NoStaleUrl'
    BY <1>3 DEF IInv, AnswersInOrder, NoStaleUrl, ReqAt, Stream
<1> QED
    BY <1>13, <1>15, <1>17, <1>18

\* Dispath: the new reply is of the request Parse completed last.
LEMMA IInvDispath ==
    ASSUME IInv, NEW t \in Threads, NEW c \in Conns, cur[t] = c, Dispath(t)
    PROVE  ReplyInv' /\ UrlInv' /\ DispathInv' /\ AnswersInOrder' /\ NoStaleUrl'
<1> DEFINE reply == [code |-> StatusOf(c, msg[c].get, msg[c].url),
                     url |-> msg[c].url, req |-> msg[c].of]
<1>1. Basic
    BY DEF IInv, Basic
<1>2. c \in Conns /\ msg[c] \in Messages /\ msg[c] # NoContext /\ pc[t] = "dispatch"
    BY <1>1, InLoop, NoContextAssumption DEF Dispath
<1>3. /\ UNCHANGED <<script, avail, taken, msg, cur>>
      /\ out' = [out EXCEPT ![c] = Append(out[c], reply)]
      /\ pc' = [pc EXCEPT ![t] = "loop"]
    BY DEF Dispath, client
<1>4. out[c] \in Seq(Replies) /\ out'[c] = Append(out[c], reply)
    BY <1>1, <1>2, <1>3 DEF Basic, TypeOK
<1>5. /\ \E p \in 1 .. avail[c] : Past(c, p, reply.req)
      /\ \A i \in DOMAIN out[c] : out[c][i].req < reply.req
      /\ \A u \in reply.url : reply.req <= ReqAt(c, u)
    BY <1>2 DEF IInv, DispathInv, Dispatchable
<1>6. /\ DOMAIN out[c] = 1 .. Len(out[c]) /\ Len(out[c]) \in Nat
      /\ DOMAIN out'[c] = 1 .. Len(out[c]) + 1
      /\ \A i \in 1 .. Len(out[c]) : out'[c][i] = out[c][i]
      /\ out'[c][Len(out[c]) + 1] = reply
    BY <1>4
<1>7. \A i \in DOMAIN out'[c] : i \in DOMAIN out[c] \/ i = Len(out[c]) + 1
    BY <1>6
<1>8. \A d \in Conns : d # c => out'[d] = out[d]
    BY <1>1, <1>2, <1>3 DEF Basic, TypeOK
<1>9. \A d \in Conns : \A p, r : Past(d, p, r)' <=> Past(d, p, r)
    BY <1>3 DEF Past, Errno, Stream, ReqAt
<1>10. ReplyInv'
    <2>1. ASSUME NEW d \in Conns, NEW i \in DOMAIN out'[d]
          PROVE  \E p \in 1 .. avail[d] : Past(d, p, out'[d][i].req)
        <3>1. CASE d # c
            BY <1>8, <3>1 DEF IInv, ReplyInv
        <3>2. CASE d = c /\ i \in DOMAIN out[c]
            BY <1>6, <3>2 DEF IInv, ReplyInv
        <3>3. CASE d = c /\ i = Len(out[c]) + 1
            BY <1>5, <1>6, <3>3
        <3> QED
            BY <1>7, <2>1, <3>1, <3>2, <3>3
    <2>2. ASSUME NEW d \in Conns, msg[d] = NoContext PROVE out'[d] = <<>>
        BY <1>2, <1>8, <2>2 DEF IInv, ReplyInv
    <2> QED
        BY <1>3, <1>9, <2>1, <2>2 DEF ReplyInv
<1>11. UrlInv'
    BY <1>3 DEF IInv, UrlInv, Stream, ReqAt, IsKind
<1>12. DispathInv'
    <2>1. ASSUME NEW u \in Threads, pc'[u] = "dispatch"
          PROVE  pc[u] = "dispatch" /\ cur[u] \in Conns /\ cur[u] # c
        <3>1. u # t /\ pc[u] = "dispatch"
            BY <1>1, <1>3, <2>1 DEF Basic, TypeOK
        <3> QED
            BY <1>1, <1>2, <3>1, InLoop, OneThreadPerConnection, ThreadsAssumption
    <2> QED
        BY <1>3, <1>8, <1>9, <2>1 DEF IInv, DispathInv, Dispatchable, ReqAt, Stream
<1>13. AnswersInOrder'
    <2>1. ASSUME NEW i \in DOMAIN out'[c], NEW j \in DOMAIN out'[c], i < j
          PROVE  out'[c][i].req < out'[c][j].req
        <3>1. i \in DOMAIN out[c]
            BY <1>6, <2>1
        <3>2. CASE j \in DOMAIN out[c]
            BY <1>2, <1>6, <2>1, <3>1, <3>2 DEF IInv, AnswersInOrder
        <3>3. CASE j = Len(out[c]) + 1
            BY <1>5, <1>6, <3>1, <3>3
        <3> QED
            BY <1>7, <2>1, <3>2, <3>3
    <2> QED
        BY <1>8, <2>1 DEF IInv, AnswersInOrder
<1>14. NoStaleUrl'
    <2>1. ASSUME NEW i \in DOMAIN out'[c], NEW p \in out'[c][i].url
          PROVE  out'[c][i].req <= ReqAt(c, p)
        <3>1. CASE i \in DOMAIN out[c]
            BY <1>2, <1>6, <2>1, <3>1 DEF IInv, NoStaleUrl
        <3>2. CASE i = Len(out[c]) + 1
            BY <1>5, <1>6, <2>1, <3>2
        <3> QED
            BY <1>7, <2>1, <3>1, <3>2
    <2> QED
        BY <1>3, <1>8, <2>1 DEF IInv, NoStaleUrl, ReqAt, Stream
<1> QED
    BY <1>10, <1>11, <1>12, <1>13, <1>14
-----------------------------------------------------------------------------
\* Every step of a client or an IO thread keeps the inductive invariant.
LEMMA IInvStep == IInv /\ [Next]_vars => IInv'
<1> SUFFICES ASSUME IInv, [Next]_vars PROVE IInv'
    OBVIOUS
<1>1. TypeOK' /\ ThreadInv' /\ BufferInv'
    BY BasicStep DEF IInv, Basic
<1>2. Basic
    BY DEF IInv, Basic
<1>3. ReplyInv' /\ UrlInv' /\ DispathInv' /\ AnswersInOrder' /\ NoStaleUrl'
    <2>1. ASSUME NEW c \in Conns, ClientSend(c)
          PROVE  ReplyInv' /\ UrlInv' /\ DispathInv' /\ AnswersInOrder' /\ NoStaleUrl'
        BY <2>1, IInvClientSend
    <2>2. ASSUME NEW t \in Threads, NEW c \in Conns, OnMessage(t, c)
          PROVE  ReplyInv' /\ UrlInv' /\ DispathInv' /\ AnswersInOrder' /\ NoStaleUrl'
        BY <2>2, IInvOnMessage
    <2>3. ASSUME NEW t \in Threads, Parse(t)
          PROVE  ReplyInv' /\ UrlInv' /\ DispathInv' /\ AnswersInOrder' /\ NoStaleUrl'
        <3>1. cur[t] \in Conns
            BY <1>2, <2>3, InLoop DEF Parse
        <3> QED
            BY <2>3, <3>1, IInvParse
    <2>4. ASSUME NEW t \in Threads, Dispath(t)
          PROVE  ReplyInv' /\ UrlInv' /\ DispathInv' /\ AnswersInOrder' /\ NoStaleUrl'
        <3>1. cur[t] \in Conns
            BY <1>2, <2>4, InLoop DEF Dispath
        <3> QED
            BY <2>4, <3>1, IInvDispath
    <2>5. ASSUME NEW t \in Threads, Return(t)
          PROVE  ReplyInv' /\ UrlInv' /\ DispathInv' /\ AnswersInOrder' /\ NoStaleUrl'
        BY <2>5, IInvReturn
    <2>6. CASE UNCHANGED vars
        BY <2>6 DEF vars, IInv, ReplyInv, UrlInv, DispathInv, Dispatchable,
                    AnswersInOrder, NoStaleUrl, Past, Errno, Stream, ReqAt, IsKind
    <2> QED
        BY <2>1, <2>2, <2>3, <2>4, <2>5, <2>6 DEF Next
<1> QED
    BY <1>1, <1>3 DEF IInv

\* So it holds in every state of the server.
LEMMA IInvHolds == Spec => []IInv
<1>1. Init => IInv
    BY IInvInit
<1>2. IInv /\ [Next]_vars => IInv'
    BY IInvStep
<1> QED
    BY <1>1, <1>2, PTL DEF Spec

\* Replies are in the order of the requests and no request gets two, whatever
\* the clients send, however it is cut, and after errors of the parser.
THEOREM RepliesInOrder == Spec => []AnswersInOrder
<1>1. IInv => AnswersInOrder
    BY DEF IInv
<1> QED
    BY <1>1, IInvHolds, PTL

\* No handler is chosen by the URL of an older request than the one completed,
\* though the HttpMessage and its url_ are reused for all of a connection.
THEOREM UrlNeverStale == Spec => []NoStaleUrl
<1>1. IInv => NoStaleUrl
    BY DEF IInv
<1> QED
    BY <1>1, IInvHolds, PTL

\* A reply is sent only to a request that was received to its last byte.
THEOREM RepliesToArrived == Spec => []AnswersArrived
<1>1. IInv => AnswersArrived
    <2> SUFFICES ASSUME IInv, NEW c \in Conns, NEW i \in DOMAIN out[c]
                 PROVE  Arrived(c, out[c][i].req)
        BY DEF AnswersArrived
    <2>1. PICK p \in 1 .. avail[c] : Past(c, p, out[c][i].req)
        BY DEF IInv, ReplyInv
    <2>2. p \in 1 .. sent[c]
        BY <2>1 DEF IInv, BufferInv, TypeOK
    <2> QED
        BY <2>1, <2>2 DEF Arrived, Past
<1> QED
    BY <1>1, IInvHolds, PTL
-----------------------------------------------------------------------------
(***************************************************************************)
(* Clients that wait for each reply.                                       *)
(***************************************************************************)
\* A nonempty bounded set of numbers has a least element.
LEMMA LeastExists ==
    ASSUME NEW b \in Nat, NEW S, S \subseteq 0 .. b, S # {}
    PROVE  \E x \in S : \A y \in S : x <= y
<1> DEFINE T == {b - x : x \in S}
<1>1. T \subseteq 0 .. b /\ T # {}
    <2>1. \A x \in S : b - x \in 0 .. b /\ b - x \in T
        OBVIOUS
    <2>2. \A y \in T : \E x \in S : y = b - x
        OBVIOUS
    <2> QED
        BY <2>1, <2>2
<1>2. MaxOf(T) \in T /\ \A y \in T : y <= MaxOf(T)
    BY <1>1, MaxOfIsMax
<1>3. PICK x \in S : MaxOf(T) = b - x
    BY <1>2
<1>4. \A y \in S : b - y \in T
    OBVIOUS
<1>5. \A y \in S : b - y <= b - x
    BY <1>2, <1>3, <1>4
<1> QED
    BY <1>5

\* The order of the tokens of one request.
LEMMA RequestShape ==
    ASSUME TypeOK, NEW c \in Conns,
           NEW p \in 1 .. Len(Stream(c)), NEW q \in 1 .. Len(Stream(c)), p < q,
           ReqAt(c, p) = ReqAt(c, q)
    PROVE  /\ IsKind(c, q, "url") \/ IsKind(c, q, "head") => IsKind(c, p, "url")
           /\ IsKind(c, p, "url") /\ q = p + 1 => ~IsKind(c, q, "body")
BY StreamFacts DEF WellFormed, IsKind, ReqAt, Stream

\* A request that is complete has a head, and its URL comes right before.
LEMMA LastHasHead ==
    ASSUME TypeOK, NEW c \in Conns, NEW q \in 1 .. Len(Stream(c)), Stream(c)[q].last
    PROVE  \E h \in 1 .. q : IsKind(c, h, "head") /\ ReqAt(c, h) = ReqAt(c, q)
BY StreamFacts DEF WellFormed, IsKind, ReqAt, Stream

LEMMA HeadHasUrl ==
    ASSUME TypeOK, NEW c \in Conns, NEW h \in 1 .. Len(Stream(c)), IsKind(c, h, "head")
    PROVE  /\ h - 1 \in 1 .. Len(Stream(c))
           /\ IsKind(c, h - 1, "url")
           /\ ReqAt(c, h - 1) = ReqAt(c, h)
BY StreamFacts DEF WellFormed, IsKind, ReqAt, Stream

\* What a client that waits has sent and the server has not taken is of the
\* request it is at.
LEMMA RestIsTurn ==
    ASSUME IInv, SeqInv, NEW c \in Conns, ~pipelined[c], ~Errno(c),
           NEW p \in 1 .. sent[c], taken[c] < p
    PROVE  ReqAt(c, p) = Turn(c)
<1>1. ReqAt(c, p) <= Turn(c)
    BY DEF SeqInv, InTurn
<1>2. /\ taken[c] \in Nat /\ avail[c] \in Nat /\ sent[c] \in Nat /\ sent[c] <= Len(Stream(c))
      /\ avail[c] <= sent[c] /\ Len(Stream(c)) \in Nat
    BY StreamFacts DEF IInv, TypeOK, BufferInv
<1>3. p \in 1 .. Len(Stream(c))
    BY <1>2
<1>4. ReqAt(c, p) \in DOMAIN script[c].req /\ DOMAIN script[c].req \subseteq Nat \ {0}
    BY <1>3, StreamFacts DEF IInv
<1>5. out[c] \in Seq(Replies)
    BY DEF IInv, TypeOK
<1>6. Len(out[c]) \in Nat /\ DOMAIN out[c] = 1 .. Len(out[c])
    BY <1>5
<1>7. CASE Len(out[c]) = 0
    BY <1>1, <1>4, <1>7 DEF Turn
<1>8. CASE Len(out[c]) # 0
    <2> DEFINE i == Len(out[c])
    <2>1. i \in DOMAIN out[c]
        BY <1>6, <1>8
    <2>2. out[c][i].req = i
        BY <2>1 DEF SeqInv, SequentialClientAnswered
    <2>3. PICK q \in 1 .. avail[c] : Past(c, q, out[c][i].req)
        BY <2>1 DEF IInv, ReplyInv
    <2>4. q <= taken[c] /\ Stream(c)[q].last /\ ReqAt(c, q) = i
        BY <2>2, <2>3 DEF Past
    <2>5. q < p /\ q \in 1 .. Len(Stream(c))
        BY <1>2, <2>3, <2>4
    <2>6. i < ReqAt(c, p)
        BY <1>3, <2>4, <2>5, StreamFacts DEF IInv
    <2> QED
        BY <1>1, <1>4, <1>6, <2>6 DEF Turn
<1> QED
    BY <1>7, <1>8

\* A Parse of such a client's Buffer consumes tokens of its turn only.
LEMMA ConsumedInTurn ==
    ASSUME IInv, SeqInv, NEW c \in Conns, ~pipelined[c], msg[c] # NoContext,
           NEW p \in Consumed(c)
    PROVE  /\ ReqAt(c, p) = Turn(c) /\ taken[c] < p /\ p \in 1 .. Len(Stream(c))
           /\ p \in 1 .. sent[c] /\ ~Errno(c)
<1>1. ~Errno(c)
    BY DEF Consumed, Errno
<1>2. /\ taken[c] \in Nat /\ avail[c] \in Nat /\ sent[c] \in Nat
      /\ avail[c] <= sent[c] /\ avail[c] <= Len(Stream(c)) /\ Len(Stream(c)) \in Nat
      /\ p \in Readable(c)
    BY ConsumedFacts, StreamFacts DEF IInv, BufferInv
<1>3. taken[c] < p /\ p \in 1 .. Len(Stream(c)) /\ p \in 1 .. sent[c]
    BY <1>2 DEF Readable
<1> QED
    BY <1>1, <1>3, RestIsTurn

\* If it completes a request, that is the one of its turn, and no byte of the
\* Buffer is refused.
LEMMA CompletedInTurn ==
    ASSUME IInv, SeqInv, NEW c \in Conns, ~pipelined[c], msg[c] # NoContext,
           Completed(c) # {}
    PROVE  /\ ~Refused(c)
           /\ MaxOf(Completed(c)) = Turn(c)
           /\ Turn(c) \in DOMAIN script[c].req
           /\ \E q \in Consumed(c) : Stream(c)[q].last /\ ReqAt(c, q) = Turn(c)
<1>1. MaxOf(Completed(c)) \in Completed(c) /\ Completed(c) \subseteq DOMAIN script[c].req
    BY CompletedFacts DEF IInv
<1>2. PICK q \in Consumed(c) : Stream(c)[q].last /\ ReqAt(c, q) = MaxOf(Completed(c))
    BY <1>1, CompletedFacts DEF IInv
<1>3. ReqAt(c, q) = Turn(c) /\ q \in 1 .. Len(Stream(c)) /\ taken[c] < q
    BY <1>2, ConsumedInTurn
<1>4. ASSUME Refused(c) PROVE FALSE
    <2>1. ~msg[c].errno /\ \A e \in Readable(c) : e <= q => ~IsKind(c, e, "bad")
        BY <1>2 DEF Consumed
    <2>2. PICK e \in Readable(c) : IsKind(c, e, "bad")
        BY <1>4, <2>1 DEF Refused
    <2>3. /\ taken[c] \in Nat /\ avail[c] \in Nat /\ avail[c] <= sent[c] /\ sent[c] \in Nat
          /\ avail[c] <= Len(Stream(c)) /\ Len(Stream(c)) \in Nat
        BY ConsumedFacts, StreamFacts DEF IInv, BufferInv
    <2>4. e \in 1 .. sent[c] /\ e \in 1 .. Len(Stream(c)) /\ q < e
        BY <1>3, <2>1, <2>2, <2>3 DEF Readable
    <2>5. ReqAt(c, e) <= Turn(c)
        BY <2>4 DEF SeqInv, InTurn
    <2>6. ReqAt(c, q) < ReqAt(c, e)
        BY <1>2, <1>3, <2>4, StreamFacts DEF IInv
    <2>7. ReqAt(c, e) \in Nat /\ ReqAt(c, q) \in Nat
        BY <1>3, <2>4, StreamFacts DEF IInv
    <2> QED
        BY <1>3, <2>5, <2>6, <2>7
<1> QED
    BY <1>1, <1>2, <1>3, <1>4

\* The URLs that such a Parse reports are of its turn.
LEMMA ReportedInTurn ==
    ASSUME IInv, SeqInv, NEW c \in Conns, ~pipelined[c], msg[c] # NoContext,
           NEW r \in UrlReported(c)
    PROVE  /\ r = Turn(c)
           /\ \/ \E p \in Consumed(c) : IsKind(c, p, "url") /\ ReqAt(c, p) = Turn(c)
              \/ \E h \in Consumed(c) : IsKind(c, h, "head") /\ ReqAt(c, h) = Turn(c)
<1>1. PICK p \in Consumed(c) : /\ ReqAt(c, p) = r
                               /\ IsKind(c, p, "url") \/ IsKind(c, p, "head")
    BY DEF UrlReported
<1>2. ReqAt(c, p) = Turn(c)
    BY ConsumedInTurn
<1> QED
    BY <1>1, <1>2

\* Without any piece of a URL, a Parse leaves url_ as a whole as it is.
LEMMA NoPieceKeepsUrl ==
    ASSUME IInv, SeqInv, NEW c \in Conns, ~pipelined[c], msg[c] # NoContext,
           \A p \in Consumed(c) : ~IsKind(c, p, "url"),
           NEW h \in 1 .. taken[c], IsKind(c, h, "head"), ReqAt(c, h) = Turn(c)
    PROVE  UrlAfter(c) = msg[c].url
<1>1. ASSUME NEW r \in UrlReported(c) PROVE FALSE
    <2>1. PICK g \in Consumed(c) : IsKind(c, g, "head") /\ ReqAt(c, g) = Turn(c)
        BY <1>1, ReportedInTurn
    <2>2. /\ taken[c] \in Nat /\ avail[c] \in Nat /\ avail[c] <= Len(Stream(c))
          /\ Len(Stream(c)) \in Nat /\ taken[c] <= avail[c]
        BY ConsumedFacts, StreamFacts DEF IInv, BufferInv
    <2>3. taken[c] < g /\ g \in 1 .. Len(Stream(c))
        BY <2>1, ConsumedInTurn
    <2>4. h \in 1 .. Len(Stream(c)) /\ h < g
        BY <2>2, <2>3
    <2>5. IsKind(c, h, "url")
        BY <2>1, <2>3, <2>4, RequestShape DEF IInv
    <2> QED
        BY <2>5 DEF IsKind
<1> QED
    BY <1>1 DEF UrlAfter

\* A Parse that takes a URL's pieces up to its head, and none before them was
\* taken, leaves the whole URL in url_.
LEMMA PiecesToHead ==
    ASSUME IInv, SeqInv, NEW c \in Conns, ~pipelined[c], msg[c] # NoContext,
           \A p \in 1 .. taken[c] : ReqAt(c, p) = Turn(c) => ~IsKind(c, p, "url"),
           NEW h \in Consumed(c), IsKind(c, h, "head")
    PROVE  UrlAfter(c) = FullUrl(c, Turn(c))
<1>1. /\ ReqAt(c, h) = Turn(c) /\ taken[c] < h /\ h \in 1 .. Len(Stream(c))
      /\ h \in 1 .. sent[c]
    BY ConsumedInTurn
<1>2. Turn(c) \in UrlReported(c)
    BY <1>1, HeadReported DEF IInv
<1>3. MaxOf(UrlReported(c)) = Turn(c)
    <2>1. MaxOf(UrlReported(c)) \in UrlReported(c)
        BY <1>2, UrlReportedMax DEF IInv
    <2> QED
        BY <2>1, ReportedInTurn
<1>4. UrlAfter(c) = {p \in Consumed(c) : IsKind(c, p, "url") /\ ReqAt(c, p) = Turn(c)}
    BY <1>2, <1>3 DEF UrlAfter
<1>5. ASSUME NEW p \in FullUrl(c, Turn(c)) PROVE p \in Consumed(c)
    <2>1. p \in 1 .. Len(Stream(c)) /\ IsKind(c, p, "url") /\ ReqAt(c, p) = Turn(c)
        BY DEF FullUrl
    <2>2. /\ taken[c] \in Nat /\ avail[c] \in Nat /\ Len(Stream(c)) \in Nat
          /\ h \in Readable(c)
        BY ConsumedFacts, StreamFacts DEF IInv
    <2>3. taken[c] < p
        BY <2>1, <2>2
    <2>4. ASSUME h < p PROVE FALSE
        <3>1. IsKind(c, h, "url")
            BY <1>1, <2>1, <2>4, RequestShape DEF IInv
        <3> QED
            BY <3>1 DEF IsKind
    <2>5. p <= h
        BY <1>1, <2>1, <2>4
    <2>6. p \in Readable(c)
        BY <2>1, <2>2, <2>3, <2>5 DEF Readable
    <2> QED
        BY <2>5, <2>6, ConsumedFromStart DEF IInv
<1>6. ASSUME NEW p \in Consumed(c), IsKind(c, p, "url"), ReqAt(c, p) = Turn(c)
      PROVE  p \in FullUrl(c, Turn(c))
    BY <1>6, ConsumedInTurn DEF FullUrl
<1>7. \A p \in FullUrl(c, Turn(c)) : IsKind(c, p, "url") /\ ReqAt(c, p) = Turn(c)
    BY DEF FullUrl
<1> QED
    BY <1>4, <1>5, <1>6, <1>7

\* A Parse that splits no URL and takes a piece of one takes its head.
LEMMA PieceBringsHead ==
    ASSUME IInv, SeqInv, NEW c \in Conns, ~pipelined[c], msg[c] # NoContext,
           \A p \in Consumed(c) : IsKind(c, p, "url") => p + 1 \in Consumed(c),
           NEW u \in Consumed(c), IsKind(c, u, "url")
    PROVE  \E h \in Consumed(c) : IsKind(c, h, "head")
<1> DEFINE S == {p \in Consumed(c) : IsKind(c, p, "url")}
           m == MaxOf(S)
<1>1. avail[c] \in Nat /\ S \subseteq 0 .. avail[c] /\ S # {}
    BY ConsumedFacts DEF IInv
<1>2. m \in S /\ \A p \in S : p <= m
    BY <1>1, MaxOfIsMax
<1> HIDE DEF m
<1>3. m + 1 \in Consumed(c) /\ m \in Consumed(c)
    BY <1>2
<1>4. /\ ReqAt(c, m) = Turn(c) /\ ReqAt(c, m + 1) = Turn(c)
      /\ m \in 1 .. Len(Stream(c)) /\ m + 1 \in 1 .. Len(Stream(c))
    BY <1>3, ConsumedInTurn
<1>5. m + 1 \notin S
    BY <1>2, <1>4
<1>6. ~IsKind(c, m + 1, "url")
    BY <1>3, <1>5
<1>7. ~IsKind(c, m + 1, "body")
    BY <1>2, <1>4, RequestShape DEF IInv
<1>8. ~IsKind(c, m + 1, "bad")
    <2>1. m + 1 \in Readable(c) /\ m + 1 <= m + 1
        BY <1>3, <1>4, ConsumedFacts DEF IInv
    <2> QED
        BY <1>3, <2>1 DEF Consumed
<1>9. Stream(c)[m + 1].kind \in Kinds
    BY <1>4, StreamFacts DEF IInv, Tokens
<1>10. IsKind(c, m + 1, "head")
    BY <1>6, <1>7, <1>8, <1>9 DEF IsKind, Kinds
<1> QED
    BY <1>3, <1>10
-----------------------------------------------------------------------------
\* What SeqInv says of one connection.
SeqConn(c) ==
    /\ ~pipelined[c] => /\ InTurn(c) /\ AnsweredOrAt(c) /\ AtTurn(c) /\ UrlWhole(c)
                        /\ \A i \in DOMAIN out[c] :
                             /\ out[c][i].req = i
                             /\ i \notin split[c] =>
                                  /\ out[c][i].url = FullUrl(c, i)
                                  /\ out[c][i].code = StatusOfRequest(c, i)
    /\ cur[ThreadOf[c]] # c => taken[c] = avail[c]

LEMMA SeqInvByConn == SeqInv <=> \A c \in Conns : SeqConn(c)
BY DEF SeqInv, SeqConn, SequentialClientAnswered

LEMMA SeqInvByConnNext == SeqInv' <=> \A c \in Conns : SeqConn(c)'
BY DEF SeqInv, SeqConn, SequentialClientAnswered

LEMMA SeqInit == Init => SeqInv
<1> SUFFICES ASSUME Init, NEW c \in Conns PROVE SeqConn(c)
    BY SeqInvByConn
<1>1. /\ sent[c] = 0 /\ taken[c] = 0 /\ avail[c] = 0 /\ out[c] = <<>>
      /\ DOMAIN out[c] = {}
      /\ pc[ThreadOf[c]] = "idle"
    BY ThreadsAssumption DEF Init
<1>2. InTurn(c) /\ AnsweredOrAt(c) /\ UrlWhole(c)
    BY <1>1 DEF InTurn, AnsweredOrAt, UrlWhole
<1>3. AtTurn(c)
    BY <1>1 DEF AtTurn, Dispatching
<1> QED
    BY <1>1, <1>2, <1>3 DEF SeqConn

\* A connection of which a step changes nothing.
SameConn(c) ==
    /\ script'[c] = script[c] /\ sent'[c] = sent[c] /\ avail'[c] = avail[c]
    /\ taken'[c] = taken[c] /\ msg'[c] = msg[c] /\ out'[c] = out[c]
    /\ split'[c] = split[c] /\ pipelined'[c] = pipelined[c]
    /\ Dispatching(c)' = Dispatching(c)
    /\ cur'[ThreadOf[c]] # c => cur[ThreadOf[c]] # c

LEMMA SameConnKept ==
    ASSUME NEW c \in Conns, SeqConn(c), SameConn(c)
    PROVE  SeqConn(c)'
<1>1. /\ Stream(c)' = Stream(c) /\ Turn(c)' = Turn(c) /\ Errno(c)' = Errno(c)
      /\ \A p : ReqAt(c, p)' = ReqAt(c, p)
      /\ \A p, k : IsKind(c, p, k)' = IsKind(c, p, k)
    BY DEF SameConn, Stream, Turn, Errno, ReqAt, IsKind
<1>2. \A r : FullUrl(c, r)' = FullUrl(c, r) /\ StatusOfRequest(c, r)' = StatusOfRequest(c, r)
    BY <1>1 DEF FullUrl, SameConn, StatusOfRequest
<1>3. InTurn(c) => InTurn(c)'
    BY <1>1 DEF InTurn, SameConn
<1>4. AnsweredOrAt(c) => AnsweredOrAt(c)'
    BY <1>1 DEF AnsweredOrAt, SameConn
<1>5. AtTurn(c) => AtTurn(c)'
    BY <1>1 DEF AtTurn, SameConn
<1>6. UrlWhole(c) => UrlWhole(c)'
    BY <1>1, <1>2 DEF UrlWhole, SameConn
<1> QED
    BY <1>1, <1>2, <1>3, <1>4, <1>5, <1>6 DEF SeqConn, SameConn

\* A client that waits sends tokens of its turn only.
LEMMA SeqClientSend ==
    ASSUME IInv, SeqInv, NEW c \in Conns, ClientSend(c)
    PROVE  SeqInv'
<1>1. PICK n \in (sent[c] + 1) .. Len(Stream(c)) :
        /\ sent' = [sent EXCEPT ![c] = n]
        /\ pipelined' = [pipelined EXCEPT ![c] = @ \/ ReqAt(c, n) > Len(out[c]) + 1]
        /\ UNCHANGED <<script, avail, taken, msg, cur, pc, out, split>>
    BY DEF ClientSend
<1>2. SeqConn(c)
    BY SeqInvByConn
<1>3. \A d \in Conns : d # c => SeqConn(d)'
    <2> SUFFICES ASSUME NEW d \in Conns, d # c PROVE SeqConn(d)'
        OBVIOUS
    <2>1. SameConn(d)
        BY <1>1 DEF SameConn, Dispatching, IInv, TypeOK
    <2> QED
        BY <2>1, SameConnKept, SeqInvByConn
<1>4. SeqConn(c)'
    <2>1. n \in 1 .. Len(Stream(c)) /\ sent'[c] = n /\ Len(Stream(c)) \in Nat
        BY <1>1, StreamFacts DEF IInv, TypeOK
    <2>2. /\ \A p : ReqAt(c, p)' = ReqAt(c, p)
          /\ \A p, k : IsKind(c, p, k)' = IsKind(c, p, k)
          /\ Stream(c)' = Stream(c) /\ Turn(c)' = Turn(c) /\ Errno(c)' = Errno(c)
          /\ Dispatching(c)' = Dispatching(c)
        BY <1>1 DEF Stream, Turn, Errno, ReqAt, IsKind, Dispatching
    <2>3. \A r : FullUrl(c, r)' = FullUrl(c, r) /\ StatusOfRequest(c, r)' = StatusOfRequest(c, r)
        BY <1>1, <2>2 DEF FullUrl, StatusOfRequest
    <2>4. pipelined'[c] <=> pipelined[c] \/ ReqAt(c, n) > Turn(c)
        BY <1>1 DEF IInv, TypeOK, Turn
    <2>5. ~pipelined'[c] => ~pipelined[c] /\ InTurn(c)'
        <3> SUFFICES ASSUME ~pipelined'[c], NEW p \in 1 .. n
                     PROVE  ~pipelined[c] /\ ReqAt(c, p) <= Turn(c)
            BY <2>1, <2>2 DEF InTurn
        <3>1. p \in 1 .. Len(Stream(c)) /\ p <= n
            BY <2>1
        <3>2. ReqAt(c, p) \in Nat /\ ReqAt(c, n) \in Nat
            BY <2>1, <3>1, StreamFacts DEF IInv
        <3>3. Turn(c) \in Nat
            <4>1. out[c] \in Seq(Replies)
                BY DEF IInv, TypeOK
            <4> QED
                BY <4>1 DEF Turn
        <3>4. ReqAt(c, p) <= ReqAt(c, n)
            BY <2>1, <3>1, <3>2, StreamFacts DEF IInv
        <3> QED
            BY <2>4, <3>2, <3>3, <3>4
    <2>6. AnsweredOrAt(c) => AnsweredOrAt(c)'
        BY <1>1, <2>2 DEF AnsweredOrAt
    <2>7. AtTurn(c) => AtTurn(c)'
        BY <1>1, <2>2 DEF AtTurn
    <2>8. UrlWhole(c) => UrlWhole(c)'
        BY <1>1, <2>2, <2>3 DEF UrlWhole
    <2> QED
        BY <1>1, <1>2, <2>2, <2>3, <2>5, <2>6, <2>7, <2>8 DEF SeqConn
<1> QED
    BY <1>3, <1>4, SeqInvByConnNext

\* OnMessage reads more of what was sent.
LEMMA SeqOnMessage ==
    ASSUME IInv, SeqInv, NEW t \in Threads, NEW c \in Conns, OnMessage(t, c)
    PROVE  SeqInv'
<1> USE ThreadsAssumption
<1>1. /\ UNCHANGED <<script, sent, pipelined, taken, out, split>>
      /\ avail' = [avail EXCEPT ![c] = sent[c]]
      /\ msg' = [msg EXCEPT ![c] = IF @ = NoContext THEN NewMessage ELSE @]
      /\ cur' = [cur EXCEPT ![t] = c] /\ pc' = [pc EXCEPT ![t] = "loop"]
      /\ pc[t] = "idle" /\ ThreadOf[c] = t /\ cur[t] = None
    BY DEF OnMessage, client, IInv, ThreadInv
<1>2. \A d \in Conns : Dispatching(d)' = Dispatching(d)
    BY <1>1 DEF Dispatching, IInv, TypeOK
<1>3. \A d \in Conns : d # c => SeqConn(d)'
    <2> SUFFICES ASSUME NEW d \in Conns, d # c PROVE SeqConn(d)'
        OBVIOUS
    <2>1. SameConn(d)
        BY <1>1, <1>2 DEF SameConn, IInv, TypeOK
    <2> QED
        BY <2>1, SameConnKept, SeqInvByConn
<1>4. SeqConn(c)'
    <2>1. SeqConn(c)
        BY SeqInvByConn
    <2>2. /\ \A p : ReqAt(c, p)' = ReqAt(c, p)
          /\ \A p, k : IsKind(c, p, k)' = IsKind(c, p, k)
          /\ Stream(c)' = Stream(c) /\ Turn(c)' = Turn(c)
        BY <1>1 DEF Stream, Turn, ReqAt, IsKind
    <2>3. msg'[c] = IF msg[c] = NoContext THEN NewMessage ELSE msg[c]
        BY <1>1 DEF IInv, TypeOK
    <2>4. Errno(c)' = Errno(c)
        BY <2>3, NoContextAssumption DEF Errno, NewMessage, Messages
    <2>5. \A r : FullUrl(c, r)' = FullUrl(c, r) /\ StatusOfRequest(c, r)' = StatusOfRequest(c, r)
        BY <1>1, <2>2 DEF FullUrl, StatusOfRequest
    <2>6. InTurn(c) => InTurn(c)'
        BY <1>1, <2>2 DEF InTurn
    <2>7. AnsweredOrAt(c) => AnsweredOrAt(c)'
        BY <1>1, <1>2, <2>2 DEF AnsweredOrAt
    <2>8. AtTurn(c) => AtTurn(c)'
        BY <1>1, <1>2 DEF AtTurn, Dispatching
    <2>9. UrlWhole(c) => UrlWhole(c)'
        <3>1. msg[c] # NoContext => msg'[c] = msg[c]
            BY <2>3
        <3> QED
            BY <1>1, <2>2, <2>4, <2>5, <3>1 DEF UrlWhole
    <2>10. cur'[ThreadOf[c]] = c
        BY <1>1 DEF IInv, TypeOK
    <2> QED
        BY <1>1, <2>1, <2>2, <2>5, <2>6, <2>7, <2>8, <2>9, <2>10 DEF SeqConn
<1> QED
    BY <1>3, <1>4, SeqInvByConnNext

\* Return leaves a Buffer that is empty.
LEMMA SeqReturn ==
    ASSUME IInv, SeqInv, NEW t \in Threads, Return(t)
    PROVE  SeqInv'
<1> USE ThreadsAssumption
<1>1. /\ UNCHANGED <<script, sent, pipelined, avail, taken, msg, out, split>>
      /\ cur' = [cur EXCEPT ![t] = None] /\ pc' = [pc EXCEPT ![t] = "idle"]
      /\ pc[t] = "loop" /\ Readable(cur[t]) = {}
    BY DEF Return, client
<1>2. \A d \in Conns : Dispatching(d)' = Dispatching(d)
    BY <1>1 DEF Dispatching, IInv, TypeOK
<1>3. cur[t] \in Conns /\ ThreadOf[cur[t]] = t
    BY <1>1, InLoop DEF IInv, Basic
<1>4. \A d \in Conns : d # cur[t] => SeqConn(d)'
    <2> SUFFICES ASSUME NEW d \in Conns, d # cur[t] PROVE SeqConn(d)'
        OBVIOUS
    <2>1. SameConn(d)
        BY <1>1, <1>2 DEF SameConn, IInv, TypeOK
    <2> QED
        BY <2>1, SameConnKept, SeqInvByConn
<1>5. ASSUME NEW c \in Conns, c = cur[t] PROVE SeqConn(c)'
    <2>1. SeqConn(c)
        BY SeqInvByConn
    <2>2. taken[c] = avail[c]
        BY <1>1, <1>5 DEF IInv, TypeOK, BufferInv, Readable
    <2>3. /\ \A p : ReqAt(c, p)' = ReqAt(c, p)
          /\ \A p, k : IsKind(c, p, k)' = IsKind(c, p, k)
          /\ Stream(c)' = Stream(c) /\ Turn(c)' = Turn(c) /\ Errno(c)' = Errno(c)
        BY <1>1 DEF Stream, Turn, ReqAt, IsKind, Errno
    <2>4. \A r : FullUrl(c, r)' = FullUrl(c, r) /\ StatusOfRequest(c, r)' = StatusOfRequest(c, r)
        BY <1>1, <2>3 DEF FullUrl, StatusOfRequest
    <2>5. InTurn(c) => InTurn(c)'
        BY <1>1, <2>3 DEF InTurn
    <2>6. AnsweredOrAt(c) => AnsweredOrAt(c)'
        BY <1>1, <1>2, <2>3 DEF AnsweredOrAt
    <2>7. AtTurn(c) => AtTurn(c)'
        BY <1>1, <1>2, <2>3 DEF AtTurn
    <2>8. UrlWhole(c) => UrlWhole(c)'
        BY <1>1, <2>3, <2>4 DEF UrlWhole
    <2> QED
        BY <1>1, <2>1, <2>2, <2>3, <2>4, <2>5, <2>6, <2>7, <2>8 DEF SeqConn
<1> QED
    BY <1>3, <1>4, <1>5, SeqInvByConnNext

\* Parse: a request that is completed is the one of the client's turn, with its
\* method, and with its whole URL unless that came in pieces.
LEMMA SeqParse ==
    ASSUME IInv, SeqInv, NEW t \in Threads, NEW c \in Conns, cur[t] = c, Parse(t)
    PROVE  SeqInv'
<1> USE ThreadsAssumption
<1>1. Basic
    BY DEF IInv, Basic
<1>2. ThreadOf[c] = t /\ msg[c] \in Messages /\ msg[c] # NoContext
    BY <1>1, InLoop, NoContextAssumption DEF Parse
<1>3. /\ UNCHANGED <<script, sent, pipelined, avail, cur, out>>
      /\ msg' = [msg EXCEPT ![c] = Parsed(c)]
      /\ taken' = [taken EXCEPT ![c] = taken[c] + ParseResult(c)]
      /\ pc' = [pc EXCEPT ![t] = IF Parsed(c).parsed THEN "dispatch" ELSE "loop"]
      /\ pc[t] = "loop" /\ Readable(c) # {}
      /\ split' = [split EXCEPT ![c] = split[c] \cup
           {r \in DOMAIN script[c].req :
              \E p \in Consumed(c) : /\ IsKind(c, p, "url") /\ ReqAt(c, p) = r
                                     /\ p + 1 \notin Consumed(c)}]
    BY DEF Parse, client
<1>4. /\ msg'[c] = Parsed(c) /\ taken'[c] = taken[c] + ParseResult(c)
      /\ pc'[t] = IF Completed(c) # {} THEN "dispatch" ELSE "loop"
      /\ split'[c] = split[c] \cup
           {r \in DOMAIN script[c].req :
              \E p \in Consumed(c) : /\ IsKind(c, p, "url") /\ ReqAt(c, p) = r
                                     /\ p + 1 \notin Consumed(c)}
    BY <1>1, <1>3 DEF Basic, TypeOK, Parsed, AfterParse
<1>5. \A d \in Conns : d # c => SeqConn(d)'
    <2> SUFFICES ASSUME NEW d \in Conns, d # c PROVE SeqConn(d)'
        OBVIOUS
    <2>1. Dispatching(d)' = Dispatching(d)
        BY <1>1, <1>3 DEF Dispatching, Basic, TypeOK
    <2>2. SameConn(d)
        BY <1>1, <1>3, <2>1 DEF SameConn, Basic, TypeOK
    <2> QED
        BY <2>2, SameConnKept, SeqInvByConn
<1>6. /\ \A p : ReqAt(c, p)' = ReqAt(c, p)
      /\ \A p, k : IsKind(c, p, k)' = IsKind(c, p, k)
      /\ Stream(c)' = Stream(c) /\ Turn(c)' = Turn(c)
    BY <1>3 DEF Stream, Turn, ReqAt, IsKind
<1>7. \A r : FullUrl(c, r)' = FullUrl(c, r) /\ StatusOfRequest(c, r)' = StatusOfRequest(c, r)
    BY <1>3, <1>6 DEF FullUrl, StatusOfRequest
<1>8. SeqConn(c)
    BY SeqInvByConn
<1>9. /\ ~Dispatching(c)
      /\ Dispatching(c)' <=> Completed(c) # {}
      /\ Errno(c)' <=> Refused(c)
    <2>1. Parsed(c) # NoContext
        BY <1>1, <1>2, ParsedType, NoContextAssumption DEF Basic
    <2>2. Parsed(c).errno = Refused(c)
        BY DEF Parsed, AfterParse
    <2> QED
        BY <1>2, <1>3, <1>4, <2>1, <2>2 DEF Dispatching, Errno
<1>10. /\ taken[c] \in Nat /\ avail[c] \in Nat /\ taken'[c] \in Nat
       /\ taken[c] <= taken'[c] /\ taken'[c] <= avail[c]
       /\ Refused(c) => taken'[c] = taken[c]
       /\ ~Refused(c) => taken'[c] \in Consumed(c) /\ \A q \in Consumed(c) : q <= taken'[c]
    <2>1. Consumed(c) \subseteq Readable(c) /\ taken[c] \in Nat /\ avail[c] \in Nat
          /\ taken[c] <= avail[c]
        BY <1>1, ConsumedFacts DEF Basic, BufferInv
    <2>2. Refused(c) => taken'[c] = taken[c]
        BY <1>1, <1>4, <2>1, ConsumedFacts DEF Basic
    <2>3. ~Refused(c) => taken'[c] \in Consumed(c) /\ \A q \in Consumed(c) : q <= taken'[c]
        BY <1>1, <1>3, <1>4, ConsumedFacts DEF Basic
    <2> QED
        BY <2>1, <2>2, <2>3 DEF Readable
<1>11. \A p \in 1 .. taken'[c] : p \in 1 .. taken[c] \/ p \in Consumed(c)
    <2> SUFFICES ASSUME NEW p \in 1 .. taken'[c], taken[c] < p PROVE p \in Consumed(c)
        BY <1>10
    <2>1. ~Refused(c)
        BY <1>10
    <2>2. p \in Readable(c) /\ p <= taken'[c]
        BY <1>10 DEF Readable
    <2> QED
        BY <1>1, <1>10, <2>1, <2>2, ConsumedFromStart DEF Basic
<1>12. SeqConn(c)'
    <2>1. InTurn(c) => InTurn(c)'
        BY <1>3, <1>6 DEF InTurn
    <2>2. ASSUME ~pipelined[c] PROVE AnsweredOrAt(c)'
        <3> SUFFICES ASSUME NEW p \in 1 .. taken'[c], Stream(c)[p].last
                     PROVE  \/ ReqAt(c, p) < Turn(c)
                            \/ Completed(c) # {} /\ ReqAt(c, p) = Turn(c)
            BY <1>6, <1>9 DEF AnsweredOrAt
        <3>1. CASE p \in 1 .. taken[c]
            BY <1>8, <1>9, <2>2, <3>1 DEF SeqConn, AnsweredOrAt
        <3>2. CASE p \in Consumed(c)
            <4>1. ReqAt(c, p) \in Completed(c)
                BY <3>2 DEF Completed
            <4>2. ReqAt(c, p) = Turn(c)
                BY <1>2, <2>2, <3>2, ConsumedInTurn
            <4> QED
                BY <4>1, <4>2
        <3> QED
            BY <1>11, <3>1, <3>2
    <2>3. ASSUME ~pipelined[c] PROVE AtTurn(c)'
        <3> SUFFICES ASSUME Completed(c) # {}
                     PROVE  /\ ~Refused(c)
                            /\ Parsed(c).of = Turn(c)
                            /\ Turn(c) \in DOMAIN script[c].req
                            /\ Parsed(c).get = script[c].req[Turn(c)].get
                            /\ \E p \in 1 .. taken'[c] :
                                 Stream(c)[p].last /\ ReqAt(c, p) = Turn(c)
            BY <1>3, <1>4, <1>6, <1>9 DEF AtTurn
        <3>1. ~Refused(c) /\ MaxOf(Completed(c)) = Turn(c) /\ Turn(c) \in DOMAIN script[c].req
            BY <1>2, <2>3, CompletedInTurn
        <3>2. PICK q \in Consumed(c) : Stream(c)[q].last /\ ReqAt(c, q) = Turn(c)
            BY <1>2, <2>3, CompletedInTurn
        <3>3. q \in 1 .. taken'[c]
            <4>1. q \in 1 .. Len(Stream(c)) /\ q <= taken'[c]
                BY <1>2, <1>10, <2>3, <3>1, <3>2, ConsumedInTurn
            <4> QED
                BY <1>10, <4>1
        <3>4. Parsed(c).of = Turn(c) /\ Parsed(c).get = script[c].req[Turn(c)].get
            BY <3>1 DEF Parsed, AfterParse
        <3> QED
            BY <3>1, <3>2, <3>3, <3>4
    <2>4. ASSUME ~pipelined[c] PROVE UrlWhole(c)'
        <3> SUFFICES ASSUME Turn(c) \notin split'[c], ~Refused(c)
                     PROVE  \/ \A p \in 1 .. taken'[c] :
                                 ReqAt(c, p) = Turn(c) => ~IsKind(c, p, "url")
                            \/ /\ \E h \in 1 .. taken'[c] :
                                     IsKind(c, h, "head") /\ ReqAt(c, h) = Turn(c)
                               /\ UrlAfter(c) = FullUrl(c, Turn(c))
            <4>1. Parsed(c) # NoContext /\ Parsed(c).url = UrlAfter(c)
                BY <1>1, <1>2, ParsedType, NoContextAssumption DEF Basic, Parsed, AfterParse
            <4> QED
                BY <1>4, <1>6, <1>7, <1>9, <4>1 DEF UrlWhole
        <3>1. Turn(c) \notin split[c]
            BY <1>4
        <3>2. \A p \in Consumed(c) : IsKind(c, p, "url") => p + 1 \in Consumed(c)
            <4> SUFFICES ASSUME NEW p \in Consumed(c), IsKind(c, p, "url")
                         PROVE  p + 1 \in Consumed(c)
                OBVIOUS
            <4>1. ReqAt(c, p) = Turn(c) /\ p \in 1 .. Len(Stream(c))
                BY <1>2, <2>4, ConsumedInTurn
            <4>2. Turn(c) \in DOMAIN script[c].req
                BY <1>1, <4>1, StreamFacts DEF Basic
            <4> QED
                BY <1>4, <4>1, <4>2
        <3>3. ~Errno(c)
            BY DEF Errno, Refused
        <3>4. UrlWhole(c)
            BY <1>8, <2>4 DEF SeqConn
        <3>5. CASE \A p \in Consumed(c) : ~IsKind(c, p, "url")
            <4>1. CASE \A p \in 1 .. taken[c] : ReqAt(c, p) = Turn(c) => ~IsKind(c, p, "url")
                BY <1>11, <3>5, <4>1
            <4>2. ASSUME NEW h \in 1 .. taken[c], IsKind(c, h, "head"), ReqAt(c, h) = Turn(c),
                         msg[c].url = FullUrl(c, Turn(c))
                  PROVE  /\ h \in 1 .. taken'[c]
                         /\ UrlAfter(c) = FullUrl(c, Turn(c))
                <5>1. UrlAfter(c) = msg[c].url
                    BY <1>2, <2>4, <3>5, <4>2, NoPieceKeepsUrl
                <5> QED
                    BY <1>10, <4>2, <5>1
            <4> QED
                BY <3>1, <3>3, <3>4, <4>1, <4>2 DEF UrlWhole
        <3>6. ASSUME NEW u \in Consumed(c), IsKind(c, u, "url")
              PROVE  /\ \E h \in 1 .. taken'[c] :
                           IsKind(c, h, "head") /\ ReqAt(c, h) = Turn(c)
                     /\ UrlAfter(c) = FullUrl(c, Turn(c))
            <4>1. PICK h \in Consumed(c) : IsKind(c, h, "head")
                BY <1>2, <2>4, <3>2, <3>6, PieceBringsHead
            <4>2. ReqAt(c, h) = Turn(c) /\ h \in 1 .. Len(Stream(c)) /\ h <= taken'[c]
                BY <1>2, <1>10, <2>4, <4>1, ConsumedInTurn
            <4>3. ReqAt(c, u) = Turn(c) /\ u \in 1 .. Len(Stream(c)) /\ taken[c] < u
                BY <1>2, <2>4, <3>6, ConsumedInTurn
            <4>4. ASSUME NEW g \in 1 .. taken[c], IsKind(c, g, "head"), ReqAt(c, g) = Turn(c)
                  PROVE  FALSE
                <5>1. g \in 1 .. Len(Stream(c)) /\ g < u
                    BY <1>1, <1>10, <4>3, StreamFacts DEF Basic
                <5>2. IsKind(c, g, "url")
                    BY <1>1, <3>6, <4>3, <4>4, <5>1, RequestShape DEF Basic
                <5> QED
                    BY <4>4, <5>2 DEF IsKind
            <4>5. \A p \in 1 .. taken[c] : ReqAt(c, p) = Turn(c) => ~IsKind(c, p, "url")
                BY <3>1, <3>3, <3>4, <4>4 DEF UrlWhole
            <4>6. UrlAfter(c) = FullUrl(c, Turn(c))
                BY <1>2, <2>4, <4>1, <4>5, PiecesToHead
            <4> QED
                BY <1>10, <4>1, <4>2, <4>6
        <3> QED
            BY <3>5, <3>6
    <2>5. cur'[ThreadOf[c]] = c
        BY <1>2, <1>3
    <2>6. split[c] \subseteq split'[c]
        BY <1>4
    <2> QED
        BY <1>3, <1>7, <1>8, <2>1, <2>2, <2>3, <2>4, <2>5, <2>6 DEF SeqConn
<1> QED
    BY <1>5, <1>12, SeqInvByConnNext

\* The status that a handler chosen by a request's whole URL answers.
LEMMA StatusOfFullUrl ==
    ASSUME TypeOK, NEW c \in Conns, NEW r \in DOMAIN script[c].req,
           NEW u \in FullUrl(c, r)
    PROVE  StatusOf(c, script[c].req[r].get, FullUrl(c, r)) = StatusOfRequest(c, r)
<1>1. \A p \in FullUrl(c, r) : ReqAt(c, p) = r
    BY DEF FullUrl
<1>2. \E p \in FullUrl(c, r) : \A q \in FullUrl(c, r) : p <= q
    <2>1. FullUrl(c, r) \subseteq 0 .. Len(Stream(c)) /\ Len(Stream(c)) \in Nat
        BY StreamFacts DEF FullUrl
    <2> QED
        BY <2>1, LeastExists
<1>3. IsLogin(c, FullUrl(c, r)) <=> script[c].req[r].login
    BY <1>1, <1>2 DEF IsLogin
<1> QED
    BY <1>3 DEF StatusOf, StatusOfRequest

\* Dispath: the reply is to the request of the turn, which is then over.
LEMMA SeqDispath ==
    ASSUME IInv, SeqInv, NEW t \in Threads, NEW c \in Conns, cur[t] = c, Dispath(t)
    PROVE  SeqInv'
<1> USE ThreadsAssumption
<1> DEFINE reply == [code |-> StatusOf(c, msg[c].get, msg[c].url),
                     url |-> msg[c].url, req |-> msg[c].of]
<1>1. Basic
    BY DEF IInv, Basic
<1>2. ThreadOf[c] = t /\ msg[c] # NoContext /\ pc[t] = "dispatch"
    BY <1>1, InLoop, NoContextAssumption DEF Dispath
<1>3. /\ UNCHANGED <<script, sent, pipelined, avail, taken, msg, cur, split>>
      /\ out' = [out EXCEPT ![c] = Append(out[c], reply)]
      /\ pc' = [pc EXCEPT ![t] = "loop"]
    BY DEF Dispath, client
<1>4. out[c] \in Seq(Replies) /\ out'[c] = Append(out[c], reply)
    BY <1>1, <1>3 DEF Basic, TypeOK
<1>5. /\ DOMAIN out'[c] = 1 .. Len(out[c]) + 1
      /\ \A i \in 1 .. Len(out[c]) : out'[c][i] = out[c][i] /\ i \in DOMAIN out[c]
      /\ out'[c][Len(out[c]) + 1] = reply
      /\ Len(out'[c]) = Len(out[c]) + 1 /\ Len(out[c]) \in Nat
    BY <1>4
<1>6. \A d \in Conns : d # c => SeqConn(d)'
    <2> SUFFICES ASSUME NEW d \in Conns, d # c PROVE SeqConn(d)'
        OBVIOUS
    <2>1. Dispatching(d)' = Dispatching(d)
        BY <1>1, <1>3 DEF Dispatching, Basic, TypeOK
    <2>2. SameConn(d)
        BY <1>1, <1>3, <2>1 DEF SameConn, Basic, TypeOK
    <2> QED
        BY <2>2, SameConnKept, SeqInvByConn
<1>7. /\ \A p : ReqAt(c, p)' = ReqAt(c, p)
      /\ \A p, k : IsKind(c, p, k)' = IsKind(c, p, k)
      /\ Stream(c)' = Stream(c) /\ Turn(c)' = Turn(c) + 1 /\ Turn(c) \in Nat
    BY <1>3, <1>5 DEF Stream, Turn, ReqAt, IsKind
<1>8. \A r : FullUrl(c, r)' = FullUrl(c, r) /\ StatusOfRequest(c, r)' = StatusOfRequest(c, r)
    BY <1>3, <1>7 DEF FullUrl, StatusOfRequest
<1>9. SeqConn(c) /\ Dispatching(c) /\ ~Dispatching(c)'
    BY <1>1, <1>2, <1>3, SeqInvByConn DEF Dispatching, Basic, TypeOK
<1>10. ASSUME ~pipelined[c] PROVE InTurn(c)' /\ AnsweredOrAt(c)' /\ AtTurn(c)' /\ UrlWhole(c)'
    <2>1. /\ taken[c] \in Nat /\ sent[c] \in Nat /\ taken[c] <= sent[c]
          /\ sent[c] <= Len(Stream(c)) /\ Len(Stream(c)) \in Nat
        BY <1>1, StreamFacts DEF Basic, TypeOK, BufferInv
    <2>2. \A p \in 1 .. sent[c] : ReqAt(c, p) \in Nat /\ ReqAt(c, p) < Turn(c) + 1
        <3> SUFFICES ASSUME NEW p \in 1 .. sent[c]
                     PROVE  ReqAt(c, p) \in Nat /\ ReqAt(c, p) < Turn(c) + 1
            OBVIOUS
        <3>1. p \in 1 .. Len(Stream(c))
            BY <2>1
        <3>2. ReqAt(c, p) \in Nat
            BY <1>1, <3>1, StreamFacts DEF Basic
        <3>3. ReqAt(c, p) <= Turn(c)
            BY <1>9, <1>10 DEF SeqConn, InTurn
        <3> QED
            BY <1>7, <3>2, <3>3
    <2>3. InTurn(c)'
        BY <1>3, <1>7, <2>2 DEF InTurn
    <2>4. \A p \in 1 .. taken[c] : ReqAt(c, p) \in Nat /\ ReqAt(c, p) < Turn(c) + 1
        BY <2>1, <2>2
    <2>5. AnsweredOrAt(c)'
        BY <1>3, <1>7, <2>4 DEF AnsweredOrAt
    <2>6. AtTurn(c)'
        BY <1>9 DEF AtTurn
    <2>7. UrlWhole(c)'
        BY <1>3, <1>7, <2>4 DEF UrlWhole
    <2> QED
        BY <2>3, <2>5, <2>6, <2>7
<1>11. ASSUME ~pipelined[c]
       PROVE  /\ reply.req = Turn(c)
              /\ Turn(c) \notin split[c] =>
                   /\ reply.url = FullUrl(c, Turn(c))
                   /\ reply.code = StatusOfRequest(c, Turn(c))
    <2>1. /\ ~Errno(c) /\ msg[c].of = Turn(c) /\ Turn(c) \in DOMAIN script[c].req
          /\ msg[c].get = script[c].req[Turn(c)].get
        BY <1>9, <1>11 DEF SeqConn, AtTurn
    <2>2. PICK p \in 1 .. taken[c] : Stream(c)[p].last /\ ReqAt(c, p) = Turn(c)
        BY <1>9, <1>11 DEF SeqConn, AtTurn
    <2>3. taken[c] \in Nat /\ taken[c] <= Len(Stream(c)) /\ Len(Stream(c)) \in Nat
        BY <1>1, StreamFacts DEF Basic, TypeOK, BufferInv
    <2>4. PICK h \in 1 .. p : IsKind(c, h, "head") /\ ReqAt(c, h) = Turn(c)
        BY <1>1, <2>2, <2>3, LastHasHead DEF Basic
    <2>5. /\ h - 1 \in 1 .. Len(Stream(c)) /\ IsKind(c, h - 1, "url")
          /\ ReqAt(c, h - 1) = Turn(c)
        BY <1>1, <2>2, <2>3, <2>4, HeadHasUrl DEF Basic
    <2>6. h - 1 \in 1 .. taken[c] /\ h - 1 \in FullUrl(c, Turn(c))
        BY <2>2, <2>3, <2>4, <2>5 DEF FullUrl
    <2>7. ASSUME Turn(c) \notin split[c] PROVE msg[c].url = FullUrl(c, Turn(c))
        BY <1>9, <1>11, <2>1, <2>5, <2>6, <2>7 DEF SeqConn, UrlWhole
    <2>8. StatusOf(c, msg[c].get, FullUrl(c, Turn(c))) = StatusOfRequest(c, Turn(c))
        BY <1>1, <2>1, <2>6, StatusOfFullUrl DEF Basic
    <2> QED
        BY <2>1, <2>7, <2>8
<1>12. ASSUME ~pipelined[c], NEW i \in DOMAIN out'[c]
       PROVE  /\ out'[c][i].req = i
              /\ i \notin split[c] =>
                   /\ out'[c][i].url = FullUrl(c, i)
                   /\ out'[c][i].code = StatusOfRequest(c, i)
    <2>1. CASE i \in 1 .. Len(out[c])
        BY <1>5, <1>9, <1>12, <2>1 DEF SeqConn
    <2>2. CASE i = Len(out[c]) + 1
        BY <1>5, <1>11, <1>12, <2>2 DEF Turn
    <2> QED
        BY <1>5, <1>12, <2>1, <2>2
<1>13. SeqConn(c)'
    BY <1>3, <1>8, <1>9, <1>10, <1>12 DEF SeqConn
<1> QED
    BY <1>6, <1>13, SeqInvByConnNext
-----------------------------------------------------------------------------
\* Every step keeps it.
LEMMA SeqInvStep == IInv /\ SeqInv /\ [Next]_vars => SeqInv'
<1> SUFFICES ASSUME IInv, SeqInv, [Next]_vars PROVE SeqInv'
    OBVIOUS
<1>1. Basic
    BY DEF IInv, Basic
<1>2. ASSUME NEW c \in Conns, ClientSend(c) PROVE SeqInv'
    BY <1>2, SeqClientSend
<1>3. ASSUME NEW t \in Threads, NEW c \in Conns, OnMessage(t, c) PROVE SeqInv'
    BY <1>3, SeqOnMessage
<1>4. ASSUME NEW t \in Threads, Parse(t) PROVE SeqInv'
    <2>1. cur[t] \in Conns
        BY <1>1, <1>4, InLoop DEF Parse
    <2> QED
        BY <1>4, <2>1, SeqParse
<1>5. ASSUME NEW t \in Threads, Dispath(t) PROVE SeqInv'
    <2>1. cur[t] \in Conns
        BY <1>1, <1>5, InLoop DEF Dispath
    <2> QED
        BY <1>5, <2>1, SeqDispath
<1>6. ASSUME NEW t \in Threads, Return(t) PROVE SeqInv'
    BY <1>6, SeqReturn
<1>7. CASE UNCHANGED vars
    <2>1. ASSUME NEW c \in Conns PROVE SeqConn(c)'
        <3>1. SameConn(c)
            BY <1>7 DEF vars, SameConn, Dispatching
        <3> QED
            BY <3>1, SameConnKept, SeqInvByConn
    <2> QED
        BY <2>1, SeqInvByConnNext
<1> QED
    BY <1>2, <1>3, <1>4, <1>5, <1>6, <1>7 DEF Next

\* So it holds in every state of the server.
LEMMA SeqInvHolds == Spec => []SeqInv
<1>1. Init => SeqInv
    BY SeqInit
<1>2. IInv /\ SeqInv /\ [Next]_vars => SeqInv'
    BY SeqInvStep
<1> QED
    BY <1>1, <1>2, IInvHolds, PTL DEF Spec

\* A client that waits for each reply gets the i-th reply to its i-th request,
\* chosen by that request's own method and, unless it was split, its whole URL,
\* on the one reused HttpMessage and whatever the cuts elsewhere.
THEOREM WaitingClientAnswered == Spec => []SequentialClientAnswered
<1>1. SeqInv => SequentialClientAnswered
    BY DEF SeqInv
<1> QED
    BY <1>1, SeqInvHolds, PTL

\* When OnMessage has returned, all that was read is retrieved, and all that a
\* waiting client completed is answered.
THEOREM ReturnedMeansAnswered == Spec => []IdleMeansAnswered
<1>1. IInv /\ SeqInv => IdleMeansAnswered
    <2> SUFFICES ASSUME IInv, SeqInv, NEW c \in Conns, pc[ThreadOf[c]] = "idle"
                 PROVE  /\ taken[c] = avail[c]
                        /\ ~pipelined[c] => \A p \in 1 .. taken[c] : Stream(c)[p].last =>
                             \E i \in DOMAIN out[c] : out[c][i].req = ReqAt(c, p)
        BY DEF IdleMeansAnswered
    <2>1. ThreadOf[c] \in Threads /\ c # None
        BY ThreadsAssumption
    <2>2. cur[ThreadOf[c]] # c
        BY <2>1 DEF IInv, ThreadInv
    <2>3. taken[c] = avail[c]
        BY <2>2 DEF SeqInv
    <2>4. ASSUME ~pipelined[c], NEW p \in 1 .. taken[c], Stream(c)[p].last
          PROVE  \E i \in DOMAIN out[c] : out[c][i].req = ReqAt(c, p)
        <3>1. ReqAt(c, p) < Turn(c)
            BY <2>2, <2>4 DEF SeqInv, AnsweredOrAt, Dispatching
        <3>2. p \in 1 .. Len(Stream(c))
            BY <2>4, StreamFacts DEF IInv, BufferInv, TypeOK
        <3>3. ReqAt(c, p) \in Nat \ {0}
            BY <3>2, StreamFacts DEF IInv
        <3>4. out[c] \in Seq(Replies)
            BY DEF IInv, TypeOK
        <3>5. ReqAt(c, p) \in DOMAIN out[c]
            BY <3>1, <3>3, <3>4 DEF Turn
        <3> QED
            BY <2>4, <3>5 DEF SeqInv, SequentialClientAnswered
    <2> QED
        BY <2>3, <2>4
<1> QED
    BY <1>1, IInvHolds, SeqInvHolds, PTL
-----------------------------------------------------------------------------
(***************************************************************************)
(* The safety part of OneReplyPerRequest: initial states and steps of      *)
(* HttpConnection are initial states and steps of RequestReply.            *)
(***************************************************************************)
\* A parser that refused a byte keeps it in the Buffer.
StuckInv == \A c \in Conns : Errno(c) => taken[c] < avail[c]

LEMMA StuckInit == Init => StuckInv
BY DEF Init, StuckInv, Errno

LEMMA StuckStep == ASSUME Basic, StuckInv, [Next]_vars PROVE StuckInv'
<1>1. ASSUME NEW c \in Conns, ClientSend(c) PROVE StuckInv'
    BY <1>1 DEF ClientSend, StuckInv, Errno
<1>2. ASSUME NEW t \in Threads, NEW c \in Conns, OnMessage(t, c) PROVE StuckInv'
    <2> SUFFICES ASSUME NEW d \in Conns, Errno(d)' PROVE taken'[d] < avail'[d]
        BY DEF StuckInv
    <2>1. avail[d] \in Nat /\ sent[d] \in Nat /\ taken[d] \in Nat /\ avail[d] <= sent[d]
        BY DEF Basic, TypeOK, BufferInv
    <2>2. taken'[d] = taken[d] /\ avail'[d] \in {avail[d], sent[d]}
        BY <1>2 DEF OnMessage, Basic, TypeOK
    <2>3. Errno(d)
        BY <1>2 DEF OnMessage, Errno, Basic, TypeOK, NewMessage
    <2> QED
        BY <2>1, <2>2, <2>3 DEF StuckInv
<1>3. ASSUME NEW t \in Threads, Parse(t) PROVE StuckInv'
    <2>1. PICK c \in Conns : c = cur[t] /\ msg[c] # NoContext
        BY <1>3, InLoop, NoContextAssumption DEF Parse
    <2>2. avail' = avail /\ Readable(c) # {} /\ \A d \in Conns : d # c =>
            msg'[d] = msg[d] /\ taken'[d] = taken[d]
        BY <1>3, <2>1 DEF Parse, Basic, TypeOK
    <2>3. ASSUME Errno(c)' PROVE taken'[c] < avail'[c]
        <3>1. Refused(c)
            BY <1>3, <2>1, <2>3 DEF Parse, Parsed, AfterParse, Errno, Basic, TypeOK
        <3>2. taken'[c] = taken[c]
            BY <1>3, <2>1, <3>1 DEF Parse, ParseResult, Basic, TypeOK
        <3>3. taken[c] \in Nat /\ avail[c] \in Nat
            BY <2>1 DEF Basic, TypeOK
        <3>4. taken[c] < avail[c]
            BY <2>2, <3>3 DEF Readable
        <3>5. avail'[c] = avail[c]
            BY <2>2
        <3> QED
            BY <3>2, <3>4, <3>5
    <2>4. ASSUME NEW d \in Conns, d # c, Errno(d)' PROVE taken'[d] < avail'[d]
        BY <2>2, <2>4 DEF Errno, StuckInv
    <2> QED
        BY <2>3, <2>4 DEF StuckInv, Errno
<1>4. ASSUME NEW t \in Threads, Dispath(t) PROVE StuckInv'
    BY <1>4 DEF Dispath, StuckInv, Errno
<1>5. ASSUME NEW t \in Threads, Return(t) PROVE StuckInv'
    BY <1>5 DEF Return, StuckInv, Errno
<1>6. CASE UNCHANGED vars
    BY <1>6 DEF vars, StuckInv, Errno
<1> QED
    BY <1>1, <1>2, <1>3, <1>4, <1>5, <1>6 DEF Next

\* A thread whose parser refused a byte never leaves OnMessage.
LEMMA StuckStays ==
    ASSUME Basic, StuckInv, [Next]_vars, NEW t \in Threads, Stuck(t)
    PROVE  Stuck(t)'
<1> DEFINE d == cur[t]
<1>1. d \in Conns /\ pc[t] # "idle" /\ ThreadOf[d] = t /\ Errno(d) /\ taken[d] < avail[d]
    BY DEF Stuck, Basic, TypeOK, ThreadInv, Errno, StuckInv
<1>2. taken[d] \in Nat /\ avail[d] \in Nat /\ taken[d] + 1 \in Readable(d)
    BY <1>1 DEF Basic, TypeOK, Readable
<1>3. d # None
    BY <1>1, ThreadsAssumption
<1>4. ASSUME NEW e \in Conns, ClientSend(e) PROVE Stuck(t)'
    BY <1>4 DEF ClientSend, Stuck
<1>5. ASSUME NEW u \in Threads, NEW e \in Conns, OnMessage(u, e) PROVE Stuck(t)'
    <2>1. u # t /\ e # d
        BY <1>1, <1>5 DEF OnMessage
    <2>2. cur'[t] = d /\ msg'[d] = msg[d]
        BY <1>1, <1>5, <2>1 DEF OnMessage, Basic, TypeOK
    <2> QED
        BY <1>3, <2>2 DEF Stuck
<1>6. ASSUME NEW u \in Threads, Parse(u) PROVE Stuck(t)'
    <2>1. cur' = cur
        BY <1>6 DEF Parse
    <2>2. CASE cur[u] = d
        <3>1. Refused(d)
            BY <1>1 DEF Refused, Errno
        <3>2. msg'[d].errno
            BY <1>1, <1>6, <2>2, <3>1 DEF Parse, Parsed, AfterParse, Basic, TypeOK
        <3> QED
            BY <1>3, <2>1, <3>2 DEF Stuck
    <2>3. CASE cur[u] # d
        <3>1. msg'[d] = msg[d]
            BY <1>1, <1>6, <2>3 DEF Parse, Basic, TypeOK
        <3> QED
            BY <2>1, <3>1 DEF Stuck
    <2> QED
        BY <2>2, <2>3
<1>7. ASSUME NEW u \in Threads, Dispath(u) PROVE Stuck(t)'
    BY <1>7 DEF Dispath, Stuck
<1>8. ASSUME NEW u \in Threads, Return(u) PROVE Stuck(t)'
    <2>1. u # t
        BY <1>2, <1>8 DEF Return
    <2> QED
        BY <1>8, <2>1 DEF Return, Stuck, Basic, TypeOK
<1>9. CASE UNCHANGED vars
    BY <1>9 DEF vars, Stuck
<1> QED
    BY <1>4, <1>5, <1>6, <1>7, <1>8, <1>9 DEF Next

\* A client that broke off stays off.
LEMMA OffStays ==
    ASSUME Basic, StuckInv, [Next]_vars, NEW c \in Conns, Off(c)
    PROVE  Off(c)'
<1>1. ASSUME pipelined[c] PROVE pipelined'[c]
    BY <1>1 DEF Next, vars, ClientSend, OnMessage, Parse, Dispath, Return, client,
                Basic, TypeOK
<1> QED
    BY <1>1, StuckStays, ThreadsAssumption DEF Off

\* The requests complete in the first n tokens.
CompleteIn(c, n) ==
    {r \in DOMAIN script[c].req : \E p \in 1 .. n : ReqAt(c, p) = r /\ Stream(c)[p].last}

\* Of a client that waits they are those answered, or the one it is at as well.
LEMMA CompleteCounted ==
    ASSUME IInv, SeqInv, NEW c \in Conns, ~pipelined[c],
           NEW n \in sent[c] .. Len(Stream(c)),
           \A p \in 1 .. n : ReqAt(c, p) <= Turn(c)
    PROVE  Cardinality(CompleteIn(c, n)) =
             IF Turn(c) \in CompleteIn(c, n) THEN Len(out[c]) + 1 ELSE Len(out[c])
<1>1. /\ sent[c] \in Nat /\ avail[c] \in Nat /\ taken[c] \in Nat
      /\ avail[c] <= sent[c] /\ Len(Stream(c)) \in Nat /\ out[c] \in Seq(Replies)
      /\ TypeOK
    BY StreamFacts DEF IInv, TypeOK, BufferInv
<1>2. ASSUME NEW i \in 1 .. Len(out[c]) PROVE i \in CompleteIn(c, n)
    <2>1. i \in DOMAIN out[c] /\ out[c][i].req = i
        BY <1>1 DEF SeqInv, SequentialClientAnswered
    <2>2. PICK p \in 1 .. avail[c] : Stream(c)[p].last /\ ReqAt(c, p) = i
        BY <2>1 DEF IInv, ReplyInv, Past
    <2>3. p \in 1 .. n /\ p \in 1 .. Len(Stream(c))
        BY <1>1
    <2>4. i \in DOMAIN script[c].req
        BY <1>1, <2>2, <2>3, StreamFacts
    <2> QED
        BY <2>2, <2>3, <2>4 DEF CompleteIn
<1>3. ASSUME NEW r \in CompleteIn(c, n) PROVE r \in 1 .. Turn(c)
    <2>1. PICK p \in 1 .. n : ReqAt(c, p) = r
        BY DEF CompleteIn
    <2>2. r \in Nat \ {0}
        BY <1>1, StreamFacts DEF CompleteIn
    <2> QED
        BY <1>1, <2>1, <2>2 DEF Turn
<1>4. PICK k \in Nat : Len(out[c]) = k
    BY <1>1
<1>5. CASE Turn(c) \in CompleteIn(c, n)
    <2>1. \A r : r \in CompleteIn(c, n) <=> r \in 1 .. (k + 1)
        BY <1>2, <1>3, <1>4, <1>5 DEF Turn
    <2>2. CompleteIn(c, n) = 1 .. (k + 1)
        BY <2>1
    <2>3. Cardinality(1 .. (k + 1)) = k + 1
        BY FS_Interval
    <2> QED
        BY <1>4, <1>5, <2>2, <2>3
<1>6. CASE Turn(c) \notin CompleteIn(c, n)
    <2>1. \A r : r \in CompleteIn(c, n) <=> r \in 1 .. k
        BY <1>2, <1>3, <1>4, <1>6 DEF Turn
    <2>2. CompleteIn(c, n) = 1 .. k
        BY <2>1
    <2>3. Cardinality(1 .. k) = k
        BY FS_Interval
    <2> QED
        BY <1>4, <1>6, <2>2, <2>3
<1> QED
    BY <1>5, <1>6

LEMMA AskedIs == \A c \in Conns : Asked(c) = Cardinality(CompleteIn(c, sent[c]))
BY DEF Asked, Arrived, CompleteIn

\* The abstract state of a client, as RR maps it.
AskedOf(c) == IF Off(c) THEN 0 ELSE Asked(c)

AnsweredOf(c) == IF Off(c) THEN 0 ELSE Len(out[c])

\* The steps in which nobody who waits asks or is answered.
LEMMA BreakOffStep ==
    ASSUME \A c \in Conns : Off(c) => Off(c)',
           \A c \in Conns : ~Off(c)' => Asked(c)' = Asked(c) /\ Len(out'[c]) = Len(out[c])
    PROVE  RR!BreakOff
<1>1. \A c \in Conns : AskedOf(c)' = IF Off(c)' THEN 0 ELSE AskedOf(c)
    BY DEF AskedOf
<1>2. \A c \in Conns : AnsweredOf(c)' = IF Off(c)' THEN 0 ELSE AnsweredOf(c)
    BY DEF AnsweredOf
<1> QED
    BY <1>1, <1>2 DEF RR!BreakOff, AskedOf, AnsweredOf

\* The step in which a client that waits asks: it had all its replies.
LEMMA AskStep ==
    ASSUME NEW c \in Conns, ~Off(c), ~Off(c)',
           \A d \in Conns : Off(d)' <=> Off(d),
           \A d \in Conns : Len(out'[d]) = Len(out[d]),
           \A d \in Conns : d # c => Asked(d)' = Asked(d),
           Asked(c) = Len(out[c]), Asked(c)' = Asked(c) + 1
    PROVE  RR!Ask(c)
<1>1. AskedOf(c) = AnsweredOf(c) /\ AskedOf(c)' = AskedOf(c) + 1
    BY DEF AskedOf, AnsweredOf
<1>2. \A d \in Conns : d # c => AskedOf(d)' = AskedOf(d)
    BY DEF AskedOf
<1>3. [d \in Conns |-> AskedOf(d)]' = [[d \in Conns |-> AskedOf(d)] EXCEPT ![c] = @ + 1]
    BY <1>1, <1>2
<1>4. \A d \in Conns : AnsweredOf(d)' = AnsweredOf(d)
    BY DEF AnsweredOf
<1>5. {d \in Conns : Off(d)}' = {d \in Conns : Off(d)}
    OBVIOUS
<1> QED
    BY <1>1, <1>3, <1>4, <1>5 DEF RR!Ask, AskedOf, AnsweredOf

\* The step in which such a client is answered: it had asked.
LEMMA AnswerStep ==
    ASSUME NEW c \in Conns, ~Off(c),
           \A d \in Conns : Off(d)' <=> Off(d),
           \A d \in Conns : Asked(d)' = Asked(d),
           \A d \in Conns : d # c => Len(out'[d]) = Len(out[d]),
           Len(out[c]) < Asked(c), Len(out'[c]) = Len(out[c]) + 1
    PROVE  RR!Answer(c)
<1>1. AnsweredOf(c) < AskedOf(c) /\ AnsweredOf(c)' = AnsweredOf(c) + 1
    BY DEF AskedOf, AnsweredOf
<1>2. \A d \in Conns : d # c => AnsweredOf(d)' = AnsweredOf(d)
    BY DEF AnsweredOf
<1>3. [d \in Conns |-> AnsweredOf(d)]' =
        [[d \in Conns |-> AnsweredOf(d)] EXCEPT ![c] = @ + 1]
    BY <1>1, <1>2
<1>4. \A d \in Conns : AskedOf(d)' = AskedOf(d)
    BY DEF AskedOf
<1>5. {d \in Conns : Off(d)}' = {d \in Conns : Off(d)}
    OBVIOUS
<1> QED
    BY <1>1, <1>3, <1>4, <1>5 DEF RR!Answer, AskedOf, AnsweredOf

LEMMA AskedKept ==
    ASSUME NEW c \in Conns, script'[c] = script[c], sent'[c] = sent[c]
    PROVE  Asked(c)' = Asked(c)
BY DEF Asked, Arrived, ReqAt, Stream

LEMMA ReplyOfClientSend ==
    ASSUME IInv, SeqInv, SeqInv', NEW c \in Conns, ClientSend(c),
           \A d \in Conns : Off(d) => Off(d)'
    PROVE  RR!Next
<1>1. PICK n \in (sent[c] + 1) .. Len(Stream(c)) :
        /\ sent' = [sent EXCEPT ![c] = n]
        /\ pipelined' = [pipelined EXCEPT ![c] = @ \/ ReqAt(c, n) > Len(out[c]) + 1]
        /\ UNCHANGED <<script, avail, taken, msg, cur, pc, out, split>>
    BY DEF ClientSend
<1>2. /\ sent[c] \in Nat /\ sent[c] <= Len(Stream(c)) /\ Len(Stream(c)) \in Nat
      /\ sent'[c] = n /\ \A d \in Conns : d # c => sent'[d] = sent[d]
      /\ \A d \in Conns : d # c => pipelined'[d] = pipelined[d]
    BY <1>1, StreamFacts DEF IInv, TypeOK, BufferInv
<1>3. \A d \in Conns : d # c => Asked(d)' = Asked(d)
    BY <1>1, <1>2, AskedKept
<1>4. CASE Off(c)'
    BY <1>1, <1>3, <1>4, BreakOffStep DEF RR!Next
<1>5. CASE ~Off(c)'
    <2>1. ~Off(c) /\ ~pipelined[c] /\ ~pipelined'[c]
        BY <1>5 DEF Off
    <2>2. \A d \in Conns : Off(d)' <=> Off(d)
        BY <1>1, <1>2, <2>1 DEF Off, Stuck
    <2>3. \A p \in 1 .. n : ReqAt(c, p) <= Turn(c)
        BY <1>1, <1>2, <2>1 DEF SeqInv, InTurn, Turn, ReqAt, Stream
    <2>4. n \in sent[c] .. Len(Stream(c)) /\ sent[c] \in sent[c] .. Len(Stream(c))
          /\ \A p \in 1 .. sent[c] : ReqAt(c, p) <= Turn(c)
        BY <1>2, <2>3
    <2>5. Asked(c) = IF Turn(c) \in CompleteIn(c, sent[c])
                     THEN Len(out[c]) + 1 ELSE Len(out[c])
        BY <2>1, <2>4, AskedIs, CompleteCounted
    <2>6. Asked(c)' = Cardinality(CompleteIn(c, n))
        BY <1>1, <1>2 DEF Asked, Arrived, CompleteIn, ReqAt, Stream
    <2>7. Asked(c)' = IF Turn(c) \in CompleteIn(c, n)
                      THEN Len(out[c]) + 1 ELSE Len(out[c])
        BY <2>1, <2>3, <2>4, <2>6, CompleteCounted
    <2>8. Turn(c) \in CompleteIn(c, sent[c]) => Turn(c) \in CompleteIn(c, n)
        BY <1>2, <2>4 DEF CompleteIn
    <2>9. CASE Asked(c)' = Asked(c)
        BY <1>1, <1>3, <2>9, BreakOffStep DEF RR!Next
    <2>10. CASE Asked(c)' # Asked(c)
        <3>1. Asked(c) = Len(out[c]) /\ Asked(c)' = Asked(c) + 1
            BY <2>5, <2>7, <2>8, <2>10
        <3> QED
            BY <1>1, <1>3, <1>5, <2>1, <2>2, <3>1, AskStep DEF RR!Next
    <2> QED
        BY <2>9, <2>10
<1> QED
    BY <1>4, <1>5

LEMMA ReplyOfDispath ==
    ASSUME IInv, SeqInv, NEW t \in Threads, Dispath(t),
           \A d \in Conns : Off(d) => Off(d)'
    PROVE  RR!Next
<1>1. PICK c \in Conns : c = cur[t] /\ ThreadOf[c] = t
    BY InLoop DEF Dispath, IInv, Basic
<1>2. PICK e : out' = [out EXCEPT ![c] = Append(@, e)]
    BY <1>1 DEF Dispath
<1>3. UNCHANGED <<script, sent, pipelined, cur, msg>> /\ pc[t] = "dispatch"
    BY DEF Dispath, client
<1>4. out[c] \in Seq(Replies) /\ out \in [Conns -> Seq(Replies)]
    BY DEF IInv, TypeOK
<1>5. Len(out'[c]) = Len(out[c]) + 1 /\ \A d \in Conns : d # c => out'[d] = out[d]
    BY <1>1, <1>2, <1>4
<1>6. \A d \in Conns : Asked(d)' = Asked(d)
    BY <1>3, AskedKept
<1>7. \A d \in Conns : Off(d)' <=> Off(d)
    BY <1>3 DEF Off, Stuck
<1>8. CASE Off(c)
    BY <1>5, <1>6, <1>7, <1>8, BreakOffStep DEF RR!Next
<1>9. CASE ~Off(c)
    <2>1. ~pipelined[c] /\ Dispatching(c)
        BY <1>1, <1>3, <1>9 DEF Off, Dispatching
    <2>2. /\ sent[c] \in Nat /\ taken[c] \in Nat /\ avail[c] \in Nat
          /\ taken[c] <= avail[c] /\ avail[c] <= sent[c] /\ sent[c] <= Len(Stream(c))
          /\ Len(Stream(c)) \in Nat
        BY StreamFacts DEF IInv, TypeOK, BufferInv
    <2>3. Turn(c) \in CompleteIn(c, sent[c])
        BY <2>1, <2>2 DEF SeqInv, AtTurn, CompleteIn
    <2>4. \A p \in 1 .. sent[c] : ReqAt(c, p) <= Turn(c)
        BY <2>1 DEF SeqInv, InTurn
    <2>5. Asked(c) = Len(out[c]) + 1
        BY <2>1, <2>2, <2>3, <2>4, AskedIs, CompleteCounted
    <2>6. Len(out[c]) < Asked(c)
        BY <1>4, <2>5
    <2> QED
        BY <1>5, <1>6, <1>7, <1>9, <2>6, AnswerStep DEF RR!Next
<1> QED
    BY <1>8, <1>9

\* Every step of the server is one of RequestReply.
LEMMA ReplyStep ==
    ASSUME IInv, SeqInv, StuckInv, SeqInv', [Next]_vars
    PROVE  [RR!Next]_(RR!vars)
<1>1. Basic
    BY DEF IInv, Basic
<1>2. \A d \in Conns : Off(d) => Off(d)'
    BY <1>1, OffStays
<1>3. ASSUME NEW c \in Conns, ClientSend(c) PROVE RR!Next
    BY <1>2, <1>3, ReplyOfClientSend
<1>4. ASSUME NEW t \in Threads, Dispath(t) PROVE RR!Next
    BY <1>2, <1>4, ReplyOfDispath
<1>5. ASSUME UNCHANGED <<script, sent, out>> PROVE RR!Next
    <2>1. \A d \in Conns : Asked(d)' = Asked(d)
        BY <1>5, AskedKept
    <2> QED
        BY <1>2, <1>5, <2>1, BreakOffStep DEF RR!Next
<1>6. ASSUME NEW t \in Threads, NEW c \in Conns, OnMessage(t, c) PROVE RR!Next
    BY <1>5, <1>6 DEF OnMessage, client
<1>7. ASSUME NEW t \in Threads, Parse(t) \/ Return(t) PROVE RR!Next
    BY <1>5, <1>7 DEF Parse, Return, client
<1>8. CASE UNCHANGED vars
    BY <1>5, <1>8 DEF vars
<1> QED
    BY <1>3, <1>4, <1>6, <1>7, <1>8 DEF Next

LEMMA ReplyInit == Init => RR!Init
<1> SUFFICES ASSUME Init PROVE RR!Init
    OBVIOUS
<1>1. ASSUME NEW c \in Conns PROVE ~Off(c) /\ Asked(c) = 0 /\ Len(out[c]) = 0
    <2>1. pipelined[c] = FALSE /\ sent[c] = 0 /\ out[c] = <<>>
        BY DEF Init
    <2>2. ~Stuck(ThreadOf[c])
        BY ThreadsAssumption DEF Init, Stuck
    <2>3. {r \in DOMAIN script[c].req : Arrived(c, r)} = {}
        BY <2>1 DEF Arrived
    <2> QED
        BY <2>1, <2>2, <2>3, FS_EmptySet DEF Off, Asked
<1> QED
    BY <1>1 DEF RR!Init

\* The safety part of OneReplyPerRequest: to a client that waits, and is not on
\* a thread that a refused byte has stopped, each request brings one reply and
\* none comes unasked, however the bytes are cut and the threads interleave.
THEOREM ServesRequestReply == Spec => RR!Init /\ [][RR!Next]_(RR!vars)
<1>1. Basic /\ StuckInv /\ [Next]_vars => StuckInv'
    BY StuckStep
<1>2. IInv => Basic
    BY DEF IInv, Basic
<1>3. Spec => []StuckInv
    BY <1>1, <1>2, StuckInit, IInvHolds, PTL DEF Spec
<1>4. IInv /\ SeqInv /\ StuckInv /\ SeqInv' /\ [Next]_vars => [RR!Next]_(RR!vars)
    BY ReplyStep
<1> QED
    BY <1>3, <1>4, ReplyInit, IInvHolds, SeqInvHolds, PTL DEF Spec
-----------------------------------------------------------------------------
(***************************************************************************)
(* The while loop of OnMessage: how far a thread is from its end.          *)
(***************************************************************************)
LEMMA StuckHolds == Spec => [](Basic /\ StuckInv)
BY BasicInit, BasicStep, StuckInit, StuckStep, PTL DEF Spec

\* A bound on the steps that thread t has left in this OnMessage: two for each
\* token in the Buffer, a dispatch that is due, and the return.
StepsLeft(t) ==
    CASE pc[t] = "loop"     -> 2 * (avail[cur[t]] - taken[cur[t]]) + 1
      [] pc[t] = "dispatch" -> 2 * (avail[cur[t]] - taken[cur[t]]) + 2
      [] OTHER              -> 0

Bounded == \A t \in Threads : StepsLeft(t) \in Nat

LEMMA StepsLeftBounded == Basic => Bounded
<1> SUFFICES ASSUME Basic, NEW t \in Threads PROVE StepsLeft(t) \in Nat
    BY DEF Bounded
<1>1. CASE pc[t] = "idle"
    BY <1>1 DEF StepsLeft
<1>2. CASE pc[t] # "idle"
    <2>1. cur[t] \in Conns
        BY <1>2, InLoop
    <2>2. taken[cur[t]] \in Nat /\ avail[cur[t]] \in Nat /\ taken[cur[t]] <= avail[cur[t]]
        BY <2>1 DEF Basic, TypeOK, BufferInv
    <2> QED
        BY <2>2 DEF StepsLeft
<1> QED
    BY <1>1, <1>2

\* A step of thread t inside OnMessage.
RunsOn(t) == Parse(t) \/ Dispath(t) \/ Return(t)

\* A step of a thread brings its OnMessage nearer to the end, unless its parser
\* has refused a byte; a step of a client or another thread leaves it there.
LoopsOn ==
    \A t \in Threads : pc[t] # "idle" =>
        /\ StepsLeft(t) \in Nat /\ StepsLeft(t)' \in Nat
        /\ RunsOn(t) => StepsLeft(t)' < StepsLeft(t) \/ Stuck(t)'
        /\ ~RunsOn(t) => StepsLeft(t)' = StepsLeft(t)

LEMMA ParseLoopsOn ==
    ASSUME Basic, NEW t \in Threads, Parse(t)
    PROVE  StepsLeft(t)' < StepsLeft(t) \/ Stuck(t)'
<1> DEFINE c == cur[t]
<1>1. c \in Conns /\ msg[c] \in Messages /\ pc[t] = "loop" /\ Readable(c) # {}
    BY InLoop DEF Parse
<1>2. cur' = cur /\ c # None /\ msg'[c] = Parsed(c) /\ avail' = avail
    BY <1>1, ThreadsAssumption DEF Parse, Basic, TypeOK
<1>3. CASE Refused(c)
    BY <1>2, <1>3 DEF Stuck, Parsed, AfterParse
<1>4. CASE ~Refused(c)
    <2>1. taken[c] \in Nat /\ avail[c] \in Nat
        BY <1>1 DEF Basic, TypeOK
    <2>2. taken'[c] = taken[c] + ParseResult(c)
        BY <1>1 DEF Parse, Basic, TypeOK
    <2>3. taken'[c] \in Consumed(c) /\ Consumed(c) \subseteq Readable(c)
        BY <1>1, <1>4, <2>2, ConsumedFacts DEF Basic
    <2>4. taken'[c] \in taken[c] + 1 .. avail[c]
        BY <2>3 DEF Readable
    <2>5. pc'[t] \in {"loop", "dispatch"}
        BY DEF Parse, Basic, TypeOK
    <2> QED
        BY <1>1, <1>2, <2>1, <2>4, <2>5 DEF StepsLeft
<1> QED
    BY <1>3, <1>4

\* What a thread has left in OnMessage no other step changes.
LEMMA OthersLeaveIt ==
    ASSUME Basic, [Next]_vars, NEW t \in Threads, pc[t] # "idle", ~RunsOn(t)
    PROVE  StepsLeft(t)' = StepsLeft(t)
<1> DEFINE d == cur[t]
<1>1. d \in Conns /\ ThreadOf[d] = t /\ d # None
    BY InLoop, ThreadsAssumption
<1>2. ASSUME pc'[t] = pc[t], cur'[t] = d, avail'[d] = avail[d], taken'[d] = taken[d]
      PROVE  StepsLeft(t)' = StepsLeft(t)
    BY <1>2 DEF StepsLeft
<1>3. ASSUME NEW c \in Conns, ClientSend(c) PROVE StepsLeft(t)' = StepsLeft(t)
    BY <1>2, <1>3 DEF ClientSend
<1>4. ASSUME NEW u \in Threads, NEW c \in Conns, OnMessage(u, c)
      PROVE  StepsLeft(t)' = StepsLeft(t)
    <2>1. u # t /\ c # d
        BY <1>1, <1>4 DEF OnMessage
    <2> QED
        BY <1>1, <1>2, <1>4, <2>1 DEF OnMessage, Basic, TypeOK
<1>5. ASSUME NEW u \in Threads, RunsOn(u) PROVE StepsLeft(t)' = StepsLeft(t)
    <2>1. u # t /\ pc[u] # "idle"
        BY <1>5 DEF RunsOn, Parse, Dispath, Return
    <2>2. cur[u] # d
        BY <1>1, <2>1, OneThreadPerConnection
    <2> QED
        BY <1>1, <1>2, <1>5, <2>1, <2>2
           DEF RunsOn, Parse, Dispath, Return, Basic, TypeOK
<1>6. CASE UNCHANGED vars
    BY <1>2, <1>6 DEF vars
<1> QED
    BY <1>3, <1>4, <1>5, <1>6 DEF Next, RunsOn

\* OnMessage: each turn of its while loop retrieves at least one byte, or the
\* parser has refused one, and no other connection or thread can lengthen it:
\* why OnMessageReturns holds of requests of any length and number.
THEOREM LoopGetsOn == Spec => [][LoopsOn]_vars
<1>1. Basic /\ Bounded /\ Bounded' /\ [Next]_vars => [LoopsOn]_vars
    <2> SUFFICES ASSUME Basic, Bounded, Bounded', Next, NEW t \in Threads, pc[t] # "idle"
                 PROVE  /\ StepsLeft(t) \in Nat /\ StepsLeft(t)' \in Nat
                        /\ RunsOn(t) => StepsLeft(t)' < StepsLeft(t) \/ Stuck(t)'
                        /\ ~RunsOn(t) => StepsLeft(t)' = StepsLeft(t)
        BY DEF LoopsOn
    <2>1. StepsLeft(t) \in Nat /\ StepsLeft(t)' \in Nat
        BY DEF Bounded
    <2>2. ASSUME Dispath(t) \/ Return(t) PROVE StepsLeft(t)' < StepsLeft(t)
        <3>1. cur[t] \in Conns /\ taken[cur[t]] \in Nat /\ avail[cur[t]] \in Nat
              /\ taken[cur[t]] <= avail[cur[t]]
            BY InLoop DEF Basic, TypeOK, BufferInv
        <3>2. CASE Dispath(t)
            <4>1. pc[t] = "dispatch" /\ pc'[t] = "loop"
                  /\ cur' = cur /\ taken' = taken /\ avail' = avail
                BY <3>2 DEF Dispath, Basic, TypeOK
            <4> QED
                BY <3>1, <4>1 DEF StepsLeft
        <3>3. CASE Return(t)
            <4>1. pc[t] = "loop" /\ pc'[t] = "idle"
                BY <3>3 DEF Return, Basic, TypeOK
            <4> QED
                BY <3>1, <4>1 DEF StepsLeft
        <3> QED
            BY <2>2, <3>2, <3>3
    <2> QED
        BY <2>1, <2>2, ParseLoopsOn, OthersLeaveIt DEF RunsOn
<1> QED
    BY <1>1, StepsLeftBounded, StuckHolds, PTL DEF Spec

\* A thread that is stuck stays so, and takes nothing from the Buffer of any of
\* its connections any more.
StuckTakesNothing ==
    \A t \in Threads : Stuck(t) =>
        /\ Stuck(t)'
        /\ \A c \in Conns : ThreadOf[c] = t => taken'[c] = taken[c]

\* OnMessage: one byte that the parser of a connection refuses keeps the IO
\* thread in its loop for ever, and the thread's other connections wait.
THEOREM StuckForEver == Spec => [][StuckTakesNothing]_vars
<1>1. Basic /\ StuckInv /\ [Next]_vars => [StuckTakesNothing]_vars
    <2> SUFFICES ASSUME Basic, StuckInv, Next, NEW t \in Threads, Stuck(t)
                 PROVE  /\ Stuck(t)'
                        /\ \A c \in Conns : ThreadOf[c] = t => taken'[c] = taken[c]
        BY DEF StuckTakesNothing
    <2>1. Stuck(t)'
        BY StuckStays
    <2>2. ASSUME NEW c \in Conns, ThreadOf[c] = t PROVE taken'[c] = taken[c]
        <3>1. ASSUME NEW u \in Threads, Parse(u) PROVE taken'[c] = taken[c]
            <4>1. cur[u] \in Conns /\ ThreadOf[cur[u]] = u
                BY <3>1, InLoop DEF Parse
            <4>2. CASE cur[u] = c
                <5>1. u = t /\ msg[c].errno
                    BY <2>2, <4>1, <4>2 DEF Stuck
                <5>2. ParseResult(c) = 0
                    BY <5>1 DEF ParseResult, Refused
                <5> QED
                    BY <3>1, <4>2, <5>2 DEF Parse, Basic, TypeOK
            <4>3. CASE cur[u] # c
                BY <3>1, <4>1, <4>3 DEF Parse, Basic, TypeOK
            <4> QED
                BY <4>2, <4>3
        <3>2. CASE taken' = taken
            BY <3>2
        <3> QED
            BY <3>1, <3>2 DEF Next, ClientSend, OnMessage, Dispath, Return
    <2> QED
        BY <2>1, <2>2
<1> QED
    BY <1>1, StuckHolds, PTL DEF Spec
=============================================================================
