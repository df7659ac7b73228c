--------------------------- MODULE MCHttpMessage ----------------------------
(***************************************************************************)
(* Streams for TLC: any two requests with no header, one, or the same name *)
(* twice, and with no body, one with a length or two chunks; some with a   *)
(* third request or a refused byte behind.  A text is two tokens.          *)
(***************************************************************************)
EXTENDS HttpMessage

Text(kind, t) ==
    <<[kind |-> kind, text |-> t, piece |-> 1], [kind |-> kind, text |-> t, piece |-> 2]>>

Header(name, value) == Text("name", name) \o Text("value", value)

HeadEnd == <<[kind |-> "head", text |-> "n1", piece |-> 1]>>

EndOfChunks == <<[kind |-> "tail", text |-> "n1", piece |-> 1]>>

Refused == <<[kind |-> "bad", text |-> "n1", piece |-> 1]>>

Simple == Header("n1", "v1") \o HeadEnd

Twice == Header("n1", "v1") \o Header("n1", "v2") \o HeadEnd

Post == Header("n2", "v1") \o HeadEnd \o Text("chunk", "c1")

Chunked == HeadEnd \o Text("chunk", "c1") \o Text("chunk", "c2") \o EndOfChunks

Shapes == {HeadEnd, Simple, Twice, Post, Chunked}

\* The tokens of shape s as request r.
Request(s, r) ==
    [p \in 1 .. Len(s) |->
        [req |-> r, kind |-> s[p].kind, text |-> s[p].text, piece |-> s[p].piece,
         last |-> p = Len(s) /\ s[p].kind # "bad"]]

SmallStreams ==
    {Request(a, 1) \o Request(b, 2) : a, b \in Shapes}
      \cup {Request(Post, 1) \o Request(b, 2) \o Request(c, 3) :
              b \in {HeadEnd, Simple}, c \in {Simple, Refused}}

SmallWords == {"n1", "n2", "v1", "v2", "c1", "c2"}
=============================================================================
