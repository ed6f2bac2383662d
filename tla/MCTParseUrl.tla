----------------------------- MODULE MCTParseUrl -----------------------------
(* Queries of a few fields, whole and broken, every short tail of marks,   *)
(* and a few domains with and without a port, given one after another.     *)
EXTENDS RequestUrl, Naturals, SequencesExt

CONSTANTS TailLength, MaxFields

Marks == {"a", "b", "=", "&", "?", ":"}
Numerals == {"0", "1", "2", "3", "4", "5", "6", "7", "8", "9"}
MCChars == Marks \cup {"/", "h", "+", "-"} \cup Numerals

Domains == {<<"h">>, <<"h", ":", "8", "0", "1">>, <<"h", ":", "7", "0", "0", "0", "0">>,
            <<"h", ":", "a">>, <<"h", ":", "-", "1">>, <<"h", ":">>}

Begun(d) == <<"h", ":", "/", "/">> \o d
Odd == {<<"a">>, <<"h", ":", "/">>, Begun(<<"h">>)} \cup {Begun(d) : d \in Domains}
Plain == {Begun(d) \o t : d \in Domains, t \in {<<"/", "a">>, <<"/", "a", ":", "b">>}}
Few == Odd \cup Plain

Names == {<<"a">>, <<"b">>, <<"b", "a">>}
Broken == {<<>>, <<"a">>, <<"a", "=">>, <<"=", "b">>, <<"a", "=", "b", "=", "a">>,
           <<"?", "a", "=", "b">>, <<"b", ":">>}
FieldTexts == {n \o <<"=", v>> : n \in Names, v \in {"a", "1"}} \cup Broken

Joined(s) == FoldLeft(LAMBDA t, f : t \o <<"&">> \o f, s[1], Tail(s))
Queries == UNION {{Joined(s) : s \in TupleOf(FieldTexts, n)} : n \in 1 .. MaxFields}

MCUrls ==
    Few \cup {Begun(<<"h">>) \o <<"/", "a", "?">> \o q : q \in Queries}
        \cup {Begun(<<"h">>) \o <<"/">> \o t : t \in TupleOf(Marks, TailLength)}

MCParams == {<<"a">>, <<"b">>, <<"b", "a">>}
=============================================================================
