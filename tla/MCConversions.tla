---------------------------- MODULE MCConversions -----------------------------
(* An instance of Conversions for TLC.  Documents and headers have letters *)
(* only as far as the sources tell them apart; a media type of a letter    *)
(* and a slash stands for application/json, and words have three digits.   *)
(* A day has 606 units, so that every instant fits in 32 bits.             *)
EXTENDS Conversions

CONSTANTS a, b, j, s, J, S, slash, space, tab, feed, semicolon

UpTo(n, characters) == UNION {[1 .. k -> characters] : k \in 0 .. n}

MCMediaType == <<j, slash>>
MCUpperOf == j :> J @@ s :> S

MCSplitTexts == UpTo(5, {a, b, space, tab})
MCHeaders == UpTo(5, {j, s, J, S, slash, space, semicolon})
MCWords == {0, 1, 9, 10, 15, 16, 159, 160, 255, 256, 2571, 4095}

(* The quote, the backslash, the letters of escapes, controls with and     *)
(* without a short escape, the first and last characters that need none,   *)
(* and the two bytes of a letter beyond ASCII.                             *)
MCQuotedTexts ==
    UpTo(3, {0, 8, 9, 10, 12, 13, 31, 32, 34, 48, 92, 98, 110, 117, 127, -61, -87})

(* Units at the ends of days at the ends of months, leap years, widths of  *)
(* the year and the range of years.                                        *)
Dates ==
    {<<0, 1, 1>>, <<0, 2, 29>>, <<0, 12, 31>>, <<9, 12, 31>>, <<100, 2, 28>>,
     <<100, 3, 1>>, <<999, 12, 31>>, <<1000, 1, 1>>, <<1900, 2, 28>>, <<1900, 3, 1>>,
     <<1969, 12, 31>>, <<1970, 1, 1>>, <<1970, 1, 31>>, <<1972, 2, 29>>, <<1999, 12, 31>>,
     <<2000, 2, 29>>, <<2024, 2, 29>>, <<2025, 10, 9>>, <<2100, 2, 28>>, <<9999, 12, 31>>}

MCInstants ==
    {DaysCounted(date[1], date[2], date[3]) * Day + unit :
        date \in Dates, unit \in {0, 1, 10, 100, 101, 303, Day - 1}}

(* "/h", "/i" and "/i/{u}/d" stand for the three routes; uids have up to   *)
(* two characters.                                                         *)
MCRoutePaths ==
    "health" :> <<47, 104>> @@ "indexes" :> <<47, 105>>
      @@ "documents" :> <<47, 105, 47, 123, 117, 125, 47, 100>>
MCUidParameter == <<117>>

(* The words of the routes, no text, uids, one too long, one with a dot,   *)
(* and the parameter as it is written in either syntax.                    *)
MCSegments ==
    {<<104>>, <<105>>, <<100>>, <<>>, <<95, 45>>, <<65, 57>>, <<97, 98, 99>>,
     <<97, 46>>, <<123, 117, 125>>, <<58, 117>>}
MCPaths ==
    LET given == {FlattenSeq([k \in DOMAIN segments |-> <<Slash>> \o segments[k]]) :
                    segments \in UNION {[1 .. n -> MCSegments] : n \in 1 .. 4}}
    IN  given \cup {Tail(path) : path \in given}

(* A form feed separates words, and is not whitespace to JSON.             *)
MCRawObjects == UpTo(5, {a, space, tab, feed})
==============================================================================
