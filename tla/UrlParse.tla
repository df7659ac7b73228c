------------------------------ MODULE UrlParse ------------------------------
(***************************************************************************)
(* Url::Parse: the parts of a URL, one step per part and per argument.     *)
(* Strings are sequences of characters: the separators, the digit "1" and  *)
(* the letter "c".  Positions count from 0, as in the code.                *)
(***************************************************************************)
EXTENDS Integers, Sequences, FiniteSetsExt

CONSTANTS
    Urls,       \* URLs by their parts
    Strings,    \* other strings
    MaxInt,     \* the greatest int
    None        \* port_ as the constructor leaves it; no colon

Digits == {"1"}

\* The parts a URL is put together from.  A query is a sequence of arguments,
\* the empty one without a "?".
Texts == Seq({":", "/", "?", "=", "&", "c"} \cup Digits)

Without(s, cs) == \A i \in DOMAIN s : s[i] \notin cs

\* The text of a URL.
ArgText(a) == a.key \o <<"=">> \o a.value

\* The text of the arguments from the i-th on.
ArgsText(q) ==
    LET rest[i \in 1 .. Len(q) + 1] ==
            IF i > Len(q) THEN <<>>
            ELSE (IF i = 1 THEN <<"?">> ELSE <<"&">>) \o ArgText(q[i]) \o rest[i + 1]
    IN  rest

QueryText(q) == ArgsText(q)[1]

Text(u) ==
    u.protocol \o <<":", "/", "/">> \o u.host
      \o (IF u.port = None THEN <<>> ELSE <<":">> \o u.port)
      \o u.path
      \o QueryText(u.query)

IsUrl(u) ==
    /\ u.protocol \in Texts /\ Without(u.protocol, {":", "/"})
    /\ u.host \in Texts /\ Without(u.host, {":", "/"})
    /\ u.port = None \/ (u.port \in Texts /\ Without(u.port, {":", "/"}))
    /\ u.path \in Texts /\ u.path # <<>> /\ u.path[1] = "/" /\ Without(u.path, {"?"})
    /\ u.query \in Seq([key : Texts, value : Texts])
    /\ \A i \in DOMAIN u.query :
         /\ Without(u.query[i].key, {"=", "&"})
         /\ Without(u.query[i].value, {"&"})

ASSUME UrlsAssumption == \A u \in Urls : IsUrl(u)

ASSUME StringsAssumption == Strings \subseteq Texts /\ MaxInt \in Nat /\ None \notin Nat

VARIABLES
    raw,        \* raw_url_str_
    pc,         \* the part Parse is at, "done" or "threw"
    parsed,     \* parsed_
    protocol, host, port, url,
    args,       \* args_, a function on the keys
    arg_start,
    parts       \* history: the parts raw_url_str_ was put together from

vars == <<raw, pc, parsed, protocol, host, port, url, args, arg_start, parts>>
-----------------------------------------------------------------------------
npos == -1

\* s.find_first_of(cs, from) and s.find_last_of(cs).
FindFirst(s, cs, from) ==
    LET hits == {i \in from .. Len(s) - 1 : s[i + 1] \in cs}
    IN  IF hits = {} THEN npos ELSE Min(hits)

FindLast(s, cs) == Max({npos} \cup {i \in 0 .. Len(s) - 1 : s[i + 1] \in cs})

\* The characters from position a up to, not including, position b.
Part(s, a, b) == SubSeq(s, a + 1, b)

\* A position, or the end of the string when there is none.
OrEnd(i) == IF i = npos THEN Len(raw) ELSE i

\* The number that digits stand for.
Number(ds) ==
    LET value[n \in 0 .. Len(ds)] == IF n = 0 THEN 0 ELSE 10 * value[n - 1] + 1
    IN  value[Len(ds)]

\* The local variables of Parse.
protocol_end  == FindFirst(raw, {":", "/"}, 0)
host_start    == protocol_end + 3
host_end      == FindFirst(raw, {"/"}, host_start)
host_real_end == FindLast(host, {":"})
url_end       == OrEnd(FindFirst(raw, {"?"}, host_end))
arg_end       == FindFirst(raw, {"="}, arg_start)
value_end     == OrEnd(FindFirst(raw, {"&"}, arg_end + 1))

-----------------------------------------------------------------------------
\* A Url of a string put together from parts, or of any other string.
Start(s, u) ==
    /\ raw = s /\ parts = u
    /\ pc = "protocol"
    /\ parsed = FALSE
    /\ protocol = <<>> /\ host = <<>> /\ port = None /\ url = <<>>
    /\ args = <<>>
    /\ arg_start = 0

Init ==
    \/ \E u \in Urls : Start(Text(u), u)
    \/ \E s \in Strings : Start(s, None)

Finish(ok) ==
    /\ parsed' = ok
    /\ pc' = "done"

\* protocol ://
ParseProtocol ==
    /\ pc = "protocol"
    /\ \/ /\ protocol_end = npos
          /\ Finish(FALSE)
          /\ UNCHANGED protocol
       \/ /\ protocol_end # npos
          /\ protocol' = Part(raw, 0, protocol_end)
          /\ pc' = "host"
          /\ UNCHANGED parsed
    /\ UNCHANGED <<raw, host, port, url, args, arg_start, parts>>

\* host /
ParseHost ==
    /\ pc = "host"
    /\ \/ /\ host_end = npos
          /\ Finish(FALSE)
          /\ UNCHANGED host
       \/ /\ host_end # npos
          /\ host' = Part(raw, host_start, host_end)
          /\ pc' = "port"
          /\ UNCHANGED parsed
    /\ UNCHANGED <<raw, protocol, port, url, args, arg_start, parts>>

PortText == Part(host, host_real_end + 1, Len(host))

BadPort(text) == \E i \in DOMAIN text : text[i] \notin Digits

\* std::stoi does not throw.
IsInt(text) == text # <<>> /\ Number(text) <= MaxInt

\* What becomes of a host with a port.
TakePort ==
    \/ /\ BadPort(PortText)
       /\ Finish(FALSE)
       /\ UNCHANGED <<host, port>>
    \/ /\ ~BadPort(PortText) /\ ~IsInt(PortText)
       /\ pc' = "threw"
       /\ UNCHANGED <<parsed, host, port>>
    \/ /\ ~BadPort(PortText) /\ IsInt(PortText)
       /\ port' = Number(PortText)
       /\ host' = Part(host, 0, host_real_end)
       /\ pc' = "url"
       /\ UNCHANGED parsed

\* The colon's position in the host is compared with that of a "/" in raw.
HasPort == host_real_end # npos /\ host_real_end < host_end - 1

NoPort ==
    /\ ~HasPort
    /\ pc' = "url"
    /\ UNCHANGED <<parsed, host, port>>

\* port :
ParsePort ==
    /\ pc = "port"
    /\ NoPort \/ (HasPort /\ TakePort)
    /\ UNCHANGED <<raw, protocol, url, args, arg_start, parts>>

\* Mutant: the path starts where the host does.
ParseUrlFromHost ==
    /\ pc = "url"
    /\ url' = Part(raw, host_start, url_end)
    /\ \/ /\ url_end = Len(raw)
          /\ Finish(TRUE)
          /\ UNCHANGED arg_start
       \/ /\ url_end # Len(raw)
          /\ arg_start' = url_end + 1
          /\ pc' = "args"
          /\ UNCHANGED parsed
    /\ UNCHANGED <<raw, protocol, host, port, args, parts>>

\* url ?
ParseUrl ==
    /\ pc = "url"
    /\ url' = Part(raw, host_end, url_end)
    /\ \/ /\ url_end = Len(raw)
          /\ Finish(TRUE)
          /\ UNCHANGED arg_start
       \/ /\ url_end # Len(raw)
          /\ arg_start' = url_end + 1
          /\ pc' = "args"
          /\ UNCHANGED parsed
    /\ UNCHANGED <<raw, protocol, host, port, args, parts>>

\* args_[key] = value
Assign(f, key, value) ==
    [k \in DOMAIN f \cup {key} |-> IF k = key THEN value ELSE f[k]]

\* Mutants: the value ends with the URL; the next argument starts at the end
\* of this one's key.
ParseArgGreedy ==
    /\ pc = "args"
    /\ \/ /\ arg_start >= Len(raw) \/ arg_end = npos
          /\ Finish(TRUE)
          /\ UNCHANGED <<args, arg_start, parts>>
       \/ /\ arg_start < Len(raw) /\ arg_end # npos
          /\ args' = Assign(args, Part(raw, arg_start, arg_end), Part(raw, arg_end + 1, Len(raw)))
          /\ arg_start' = value_end + 1
          /\ UNCHANGED <<pc, parsed>>
    /\ UNCHANGED <<raw, protocol, host, port, url, parts>>

ParseArgStuck ==
    /\ pc = "args"
    /\ \/ /\ arg_start >= Len(raw) \/ arg_end = npos
          /\ Finish(TRUE)
          /\ UNCHANGED <<args, arg_start, parts>>
       \/ /\ arg_start < Len(raw) /\ arg_end # npos
          /\ args' = Assign(args, Part(raw, arg_start, arg_end), Part(raw, arg_end + 1, value_end))
          /\ arg_start' = arg_end
          /\ UNCHANGED <<pc, parsed>>
    /\ UNCHANGED <<raw, protocol, host, port, url, parts>>

\* One turn of the loop over the arguments, or its end.
ParseArg ==
    /\ pc = "args"
    /\ \/ /\ arg_start >= Len(raw) \/ arg_end = npos
          /\ Finish(TRUE)
          /\ UNCHANGED <<args, arg_start, parts>>
       \/ /\ arg_start < Len(raw) /\ arg_end # npos
          /\ args' = Assign(args, Part(raw, arg_start, arg_end), Part(raw, arg_end + 1, value_end))
          /\ arg_start' = value_end + 1
          /\ UNCHANGED <<pc, parsed>>
    /\ UNCHANGED <<raw, protocol, host, port, url, parts>>

Next == ParseProtocol \/ ParseHost \/ ParsePort \/ ParseUrl \/ ParseArg

Spec == Init /\ [][Next]_vars

\* Parse is one sequential call.
FairSpec == Spec /\ WF_vars(Next)
-----------------------------------------------------------------------------
\* Type invariant of the Url under construction.
TypeOK ==
    /\ raw \in Texts
    /\ pc \in {"protocol", "host", "port", "url", "args", "done", "threw"}
    /\ parsed \in BOOLEAN
    /\ protocol \in Texts /\ host \in Texts /\ url \in Texts
    /\ port \in {None} \cup 0 .. MaxInt
    /\ \A k \in DOMAIN args : k \in Texts /\ args[k] \in Texts
    /\ arg_start \in Nat
    /\ parts \in Urls \cup {None}

\* What the port of u makes of the URL.
PortThrows(u)  == u.port # None /\ ~BadPort(u.port) /\ (u.port = <<>> \/ Number(u.port) > MaxInt)
PortRefused(u) == u.port # None /\ BadPort(u.port)

\* The arguments of u: of a key given twice, the last value.
ArgsOf(u) ==
    LET q == u.query
    IN  [k \in {q[i].key : i \in DOMAIN q} |->
            q[Max({i \in DOMAIN q : q[i].key = k})].value]

\* Url::Parse takes a URL apart into the parts it was put together from,
\* whatever separators its path, keys and values contain; it refuses one whose
\* port is no number, and stoi throws for an empty or too great one only.
PartsRestored ==
    parts # None /\ pc \in {"done", "threw"} =>
        /\ pc = "threw" <=> PortThrows(parts)
        /\ pc = "done" => (parsed <=> ~PortRefused(parts))
        /\ pc = "done" /\ parsed =>
             /\ protocol = parts.protocol
             /\ host = parts.host
             /\ port = IF parts.port = None THEN None ELSE Number(parts.port)
             /\ url = parts.path
             /\ args = ArgsOf(parts)

\* Of any string that Parse accepts, protocol, host and path are neighbouring
\* pieces from its beginning, and what follows the path is a query.
PiecesOfRaw ==
    pc = "done" /\ parsed =>
        LET h == Len(protocol) + 3
            u == FindFirst(raw, {"/"}, h)
        IN  /\ Part(raw, 0, Len(protocol)) = protocol
            /\ Part(raw, h, h + Len(host)) = host
            /\ u + Len(url) <= Len(raw)
            /\ Part(raw, u, u + Len(url)) = url
            /\ u + Len(url) = Len(raw) \/ raw[u + Len(url) + 1] = "?"

\* Parse ends for every string: each turn of its loop moves arg_start on.
ParseEnds == <>(pc \in {"done", "threw"})
=============================================================================
