---------------------------- MODULE MCUrlParse ------------------------------
(***************************************************************************)
(* An instance of UrlParse for TLC: every combination of a few hosts,      *)
(* ports, paths and queries with separators in odd places, and all strings *)
(* of up to four characters.                                               *)
(***************************************************************************)
EXTENDS UrlParse

Keys == {<<>>, <<"c">>, <<"1">>, <<"?">>}

Values == {<<>>, <<"c">>, <<"=">>, <<"/", ":">>}

Args == [key : Keys, value : Values]

SmallUrls ==
    [protocol : {<<"c">>},
     host     : {<<>>, <<"c", "1">>},
     port     : {None, <<>>, <<"1">>, <<"1", "1">>, <<"1", "1", "1">>, <<"c">>, <<"1", "c">>},
     path     : {<<"/">>, <<"/", "c">>, <<"/", ":", "1">>, <<"/", "=", "&">>, <<"/", "/", "/">>},
     query    : UNION {[1 .. n -> Args] : n \in 0 .. 2}]

Characters == {":", "/", "?", "=", "&", "1", "c"}

SmallStrings == UNION {[1 .. n -> Characters] : n \in 0 .. 4}
=============================================================================
