----------------------------- MODULE HttpMessage -----------------------------
(***************************************************************************)
(* One HttpMessage, the context of a connection: Parse gives what was read *)
(* to http_parser_execute, which calls back with the pieces of headers and *)
(* bodies it finds in there.  A piece that reaches the end of what Parse   *)
(* was given is reported as it is; the rest comes in the next Parse.       *)
(*                                                                         *)
(* A text (a name, a value, a chunk of a body) is PieceCount tokens of the *)
(* stream.  URLs and the result of Parse are in HttpConnection.            *)
(***************************************************************************)
EXTENDS Integers, Sequences

CONSTANTS
    Streams,        \* what clients may send
    Words,          \* names, values and chunks
    Upgrades,       \* numbers of the requests that ask for an upgrade
    PieceCount      \* tokens of a text

Kinds == {"name", "value", "chunk", "head", "tail", "bad"}

\* A token of a text is its piece-th; "head" ends the headers, "tail" a body
\* in chunks.  The last token of a request completes it.
Tokens ==
    [req : Nat \ {0}, kind : Kinds, text : Words, piece : 1 .. PieceCount, last : BOOLEAN]

IsText(tk) == tk.kind \in {"name", "value", "chunk"}

(***************************************************************************)
(* Requests follow one another; each text has its pieces in order, and a   *)
(* value follows its name.                                                 *)
(***************************************************************************)
WellFormed(s) ==
    /\ s \in Seq(Tokens)
    /\ \A p \in 1 .. Len(s) :
         /\ s[p].last => \/ s[p].kind \in {"head", "tail"}
                         \/ s[p].kind = "chunk" /\ s[p].piece = PieceCount
         /\ IsText(s[p]) /\ s[p].piece > 1 =>
              p > 1 /\ s[p - 1] = [s[p] EXCEPT !.piece = @ - 1, !.last = FALSE]
         /\ s[p].kind = "value" /\ s[p].piece = 1 =>
              /\ p > 1 /\ s[p - 1].kind = "name" /\ s[p - 1].req = s[p].req
              /\ s[p - 1].piece = PieceCount
         /\ s[p].kind = "name" /\ s[p].piece = PieceCount /\ p < Len(s) =>
              s[p + 1].kind = "value" /\ s[p + 1].req = s[p].req
    /\ \A p, q \in 1 .. Len(s) : p < q =>
         /\ s[p].req <= s[q].req
         /\ s[p].last => s[p].req < s[q].req

ASSUME StreamsAssumption == \A s \in Streams : WellFormed(s)

ASSUME WordsAssumption == PieceCount \in Nat \ {0} /\ Upgrades \subseteq Nat

VARIABLES
    stream,         \* what the client sends
    given,          \* end of what Parse was given
    at,             \* how much http_parser_execute has gone through
    stage,          \* "idle", in "parse", at a "complete" message, at "return"
    errno,          \* parser_.http_errno is set
    message_parsed, \* parsed_
    header_parsed,  \* header_parsed_
    last_field,     \* __last_field_, the pieces in it
    headers,        \* headers_
    body,           \* body_
    of,             \* the request that method_ and status_ are of
    from,           \* history: where this Parse, or the last, began
    cut             \* history: requests with a text reported in pieces

message_vars == <<stream, given, at, stage, errno, message_parsed, header_parsed,
                  last_field, headers, body, of, from, cut>>
-----------------------------------------------------------------------------
Token(p) == stream[p]

\* The pieces of text t from the i-th to the j-th.
Pieces(t, i, j) == [text |-> t, pieces |-> i .. j]

Whole(t) == Pieces(t, 1, PieceCount)

Nothing == [pieces |-> {}]

\* The tokens of the text that begins or goes on after `at`, as far as given.
Run ==
    {p \in at + 1 .. given : \A q \in at + 2 .. p :
        /\ Token(q).kind = Token(at + 1).kind
        /\ Token(q).piece = Token(q - 1).piece + 1}

RunEnd == CHOOSE p \in Run : \A q \in Run : q <= p

\* (at, length) of a data callback.
Reported == Pieces(Token(at + 1).text, Token(at + 1).piece, Token(RunEnd).piece)

MessageInit ==
    /\ stream \in Streams
    /\ given = 0
    /\ at = 0
    /\ stage = "idle"
    /\ errno = FALSE
    /\ message_parsed = FALSE
    /\ header_parsed = FALSE
    /\ last_field = Nothing
    /\ headers = <<>>
    /\ body = Nothing
    /\ of = 0
    /\ from = 0
    /\ cut = {}

\* Parse of what the Buffer holds, which keeps the refused bytes.  After an
\* error http_parser_execute does nothing.
Parse ==
    /\ stage = "idle"
    /\ given' \in given .. Len(stream)
    /\ errno \/ at < given'
    /\ message_parsed' = FALSE
    /\ header_parsed' = FALSE
    /\ stage' = IF errno THEN "return" ELSE "parse"
    /\ from' = at
    /\ UNCHANGED <<stream, at, errno, last_field, headers, body, of, cut>>

\* http_parser_execute is at a token of this kind.
Sees(kind) ==
    /\ stage = "parse"
    /\ at < given
    /\ Token(at + 1).kind = kind

\* It goes on after the callback for the tokens up to p.
GoesOn(p) ==
    /\ at' = p
    /\ stage' = IF Token(p).last THEN "complete" ELSE "parse"

\* A data callback with the pieces of a text that were given.  Where only the
\* end of a name or value is left, a callback of no length reports it: its last
\* piece alone, in a request that is then in cut.
Calls(kind) ==
    /\ Sees(kind)
    /\ GoesOn(RunEnd)
    /\ cut' = IF Reported = Whole(Token(at + 1).text) THEN cut
              ELSE cut \cup {Token(at + 1).req}

OnHeaderField ==
    /\ Calls("name")
    /\ last_field' = Reported
    /\ UNCHANGED <<stream, given, errno, message_parsed, header_parsed, headers, body, of, from>>

\* headers_[name] = value
Put(f, name, value) ==
    [k \in DOMAIN f \cup {name} |-> IF k = name THEN value ELSE f[k]]

\* Mutant: insert instead of operator[].
OnHeaderValueInserts ==
    /\ Calls("value")
    /\ headers' = IF last_field \in DOMAIN headers THEN headers
                  ELSE Put(headers, last_field, Reported)
    /\ UNCHANGED <<stream, given, errno, message_parsed, header_parsed, last_field, body, of, from>>

OnHeaderValue ==
    /\ Calls("value")
    /\ headers' = Put(headers, last_field, Reported)
    /\ UNCHANGED <<stream, given, errno, message_parsed, header_parsed, last_field, body, of, from>>

\* Mutant: the headers are for the next request.
OnHeadersCompleteClears ==
    /\ Sees("head")
    /\ GoesOn(at + 1)
    /\ header_parsed' = TRUE
    /\ headers' = <<>>
    /\ UNCHANGED <<stream, given, errno, message_parsed, last_field, body, of, from, cut>>

OnHeadersComplete ==
    /\ Sees("head")
    /\ GoesOn(at + 1)
    /\ header_parsed' = TRUE
    /\ UNCHANGED <<stream, given, errno, message_parsed, last_field, headers, body, of, from, cut>>

\* Mutant: append instead of assign, as for a body in pieces.
OnBodyAppends ==
    /\ Calls("chunk")
    /\ body' = IF body = Nothing THEN Reported ELSE [before |-> body, chunk |-> Reported]
    /\ UNCHANGED <<stream, given, errno, message_parsed, header_parsed, last_field, headers, of, from>>

OnBody ==
    /\ Calls("chunk")
    /\ body' = Reported
    /\ UNCHANGED <<stream, given, errno, message_parsed, header_parsed, last_field, headers, of, from>>

\* The end of a body in chunks calls back for the message only.
BodyTail ==
    /\ Sees("tail")
    /\ GoesOn(at + 1)
    /\ UNCHANGED <<stream, given, errno, message_parsed, header_parsed, last_field, headers, body, of, from, cut>>

\* method_, status_ and parsed_.  After an upgrade the parser stops.
OnMessageComplete ==
    /\ stage = "complete"
    /\ message_parsed' = TRUE
    /\ of' = Token(at).req
    /\ stage' = IF Token(at).req \in Upgrades THEN "return" ELSE "parse"
    /\ UNCHANGED <<stream, given, at, errno, header_parsed, last_field, headers, body, from, cut>>

\* The parser refuses a byte.
Refuse ==
    /\ Sees("bad")
    /\ errno' = TRUE
    /\ stage' = "return"
    /\ UNCHANGED <<stream, given, at, message_parsed, header_parsed, last_field, headers, body, of, from, cut>>

Return ==
    /\ stage = "return" \/ (stage = "parse" /\ at = given)
    /\ stage' = "idle"
    /\ UNCHANGED <<stream, given, at, errno, message_parsed, header_parsed,
                   last_field, headers, body, of, from, cut>>

MessageNext ==
    \/ Parse \/ OnHeaderField \/ OnHeaderValue \/ OnHeadersComplete \/ OnBody \/ BodyTail
    \/ OnMessageComplete \/ Refuse \/ Return

MessageSpec == MessageInit /\ [][MessageNext]_message_vars
-----------------------------------------------------------------------------
\* The values that went by for a name, by the place of their last piece, from
\* place lo on.
ValuesOf(name, lo) ==
    {p \in lo .. at : /\ Token(p).kind = "value" /\ Token(p).piece = PieceCount
                      /\ Token(p - PieceCount).text = name}

LastOf(S) == CHOOSE p \in S : \A q \in S : q <= p

Names == {Token(p).text : p \in {q \in 1 .. at : Token(q).kind = "name"}}

\* The message has just been parsed, and nothing of the next request with it.
Ready == stage = "idle" /\ message_parsed /\ at > 0 /\ Token(at).last

Begin(r) == CHOOSE p \in 1 .. at : Token(p).req = r /\ \A q \in 1 .. at : Token(q).req = r => p <= q

\* Each header of a request, the last of those with the same name, is in
\* headers_ when Parse is done with that request, whatever earlier requests of
\* the connection left there, unless one of its own texts came in pieces.
OwnHeaders ==
    Ready /\ of \notin cut =>
        \A name \in Names : LET own == ValuesOf(name, Begin(of)) IN
            own # {} => /\ Whole(name) \in DOMAIN headers
                        /\ headers[Whole(name)] = Whole(Token(LastOf(own)).text)

\* headers_ is never emptied: as long as no text came in pieces it holds, of
\* each name any request so far gave, the last value, and nothing else.
HeadersAccumulate ==
    cut = {} =>
        /\ DOMAIN headers = {Whole(name) : name \in {n \in Names : ValuesOf(n, 1) # {}}}
        /\ \A name \in Names : ValuesOf(name, 1) # {} =>
             headers[Whole(name)] = Whole(Token(LastOf(ValuesOf(name, 1))).text)

\* A body that comes in one chunk is in body_, and nothing else is, when Parse
\* is done with its request, whatever earlier requests of the connection left
\* there, unless a text of the request came in pieces.
OwnBody ==
    Ready /\ of \notin cut =>
        LET own == {p \in Begin(of) .. at : Token(p).kind = "chunk" /\ Token(p).piece = 1} IN
        \A p \in own : own = {p} => body = Whole(Token(p).text)

=============================================================================
