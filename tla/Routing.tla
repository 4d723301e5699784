------------------------------- MODULE Routing --------------------------------
(* How the path of a request becomes a route and an index uid:             *)
(* to_library_pattern() and path_parameters_of() in httplib_server.cpp,    *)
(* path_parameter() in application/http_server.hpp and IndexUid::parse()   *)
(* in core/index_uid.cpp.  A character is its ASCII code.                  *)
EXTENDS Integers, SequencesExt

CONSTANTS
    RoutePaths,     \* RoutePaths[route]: the path add_route() was given
    UidParameter,   \* the name the document routes ask for
    MaxUidLength    \* 64

Slash == 47
PathColon == 58
OpenBrace == 123
CloseBrace == 125

(* The routes the server adds: one has a parameter, which is a segment of  *)
(* its own and not the last, and the others have none.                     *)
ASSUME RoutingAssumption ==
    /\ MaxUidLength \in Nat \ {0}
    /\ \A route \in DOMAIN RoutePaths : RoutePaths[route] \in Seq(Int)
    /\ \A route \in DOMAIN RoutePaths \ {"documents"} :
          \A i \in DOMAIN RoutePaths[route] :
             RoutePaths[route][i] \notin {OpenBrace, CloseBrace, PathColon}
    /\ "documents" \in DOMAIN RoutePaths
    /\ LET path == RoutePaths["documents"] IN
       \E open, close \in DOMAIN path :
          /\ 1 < open /\ open < close /\ close < Len(path)
          /\ path[open - 1] = Slash /\ path[open] = OpenBrace
          /\ path[close] = CloseBrace /\ path[close + 1] = Slash
          /\ UidParameter = SubSeq(path, open + 1, close - 1)
          /\ \A i \in open .. close : path[i] # Slash
          /\ \A i \in DOMAIN path \ {open, close} :
                path[i] \notin {OpenBrace, CloseBrace, PathColon}

(* Mutant: the closing brace is left in the name. *)
PatternWithBrace(path) ==
    [i \in DOMAIN path |-> IF path[i] = OpenBrace THEN PathColon ELSE path[i]]

(* The pattern, after so many characters of the path. *)
ToLibraryPattern(path) ==
    LET pattern[n \in 0 .. Len(path)] ==
          IF n = 0 THEN <<>>
          ELSE IF path[n] = OpenBrace THEN Append(pattern[n - 1], PathColon)
          ELSE IF path[n] # CloseBrace THEN Append(pattern[n - 1], path[n])
          ELSE pattern[n - 1]
    IN  pattern[Len(path)]

(* External: cpp-httplib compares a path with a pattern segment by segment *)
(* and takes `:name` for any one segment, an empty one included.  What is  *)
(* before the first slash is a segment too.                                *)
Segments(path) ==
    LET segments[n \in 0 .. Len(path)] ==
          IF n = 0 THEN <<<<>>>>
          ELSE IF path[n] = Slash THEN Append(segments[n - 1], <<>>)
          ELSE [segments[n - 1] EXCEPT ![Len(segments[n - 1])] = Append(@, path[n])]
    IN  segments[Len(path)]

IsParameter(segment) == segment # <<>> /\ segment[1] = PathColon

Matches(pattern, path) ==
    LET wanted == Segments(pattern)
        given == Segments(path) IN
    /\ Len(wanted) = Len(given)
    /\ \A k \in DOMAIN wanted : IsParameter(wanted[k]) \/ wanted[k] = given[k]

(* path_parameters_of(), over what the library bound. *)
PathParameters(pattern, path) ==
    LET wanted == Segments(pattern) IN
    {[name |-> Tail(wanted[k]), value |-> Segments(path)[k]] :
        k \in {k \in DOMAIN wanted : IsParameter(wanted[k])}}

(* path_parameter(): empty where the route declares no such segment. *)
PathParameter(parameters, name) ==
    LET found == {parameter \in parameters : parameter.name = name} IN
    IF found = {} THEN <<>> ELSE (CHOOSE parameter \in found : TRUE).value

IsUidCharacter(character) ==
    character \in (97 .. 122) \cup (65 .. 90) \cup (48 .. 57) \cup {95, 45}

(* IndexUid::parse() *)
IsUid(text) ==
    /\ text # <<>> /\ Len(text) <= MaxUidLength
    /\ \A i \in DOMAIN text : IsUidCharacter(text[i])

(* The routes a request's path reaches, each with the uid its handler      *)
(* goes on with: none, where it answers invalid_index_uid or asks for no   *)
(* uid at all.                                                             *)
HandlersOf(path) ==
    {LET parameters == PathParameters(ToLibraryPattern(RoutePaths[route]), path) IN
     [route |-> route,
      uid |-> {uid \in {PathParameter(parameters, UidParameter)} : IsUid(uid)}] :
       route \in {route \in DOMAIN RoutePaths :
                    Matches(ToLibraryPattern(RoutePaths[route]), path)}}
==============================================================================
