-------------------------------- MODULE Uri --------------------------------
(***************************************************************************)
(* Uri::CreateUri (src/HTTP/uri.cpp): the table-driven machine that Ragel  *)
(* generated, its actions, and what Uri::dump makes of the result.         *)
(*                                                                         *)
(* A character stands for a run of characters of one class: "http" and "a" *)
(* for letters, "80" and "81" for digits.  A percent escape and the other  *)
(* unreserved characters behave as a letter does after the scheme; IP      *)
(* literals in brackets are left out.  The states of an IPv4 address act   *)
(* as those of a registered name, and are one state here.                  *)
(***************************************************************************)
EXTENDS Naturals, Sequences

CONSTANTS
    NoPart,       \* a part that the text leaves out
    UserInfos, Hosts, Ports, Paths, Queries, Fragments   \* the parts tried

LetterRuns == {"http", "a"}
DigitRuns  == {"80", "81"}

\* what a part is made of
HostChars == LetterRuns \cup DigitRuns
UserChars == HostChars \cup {":"}
Pchar     == UserChars \cup {"@"}
PathChars == Pchar \cup {"/"}
TailChars == PathChars \cup {"?"}
UriChars  == TailChars \cup {"#"}

\* a path starts with a slash
Rooted(path) == path = <<>> \/ path[1] = "/"

ASSUME UriAssumption ==
    /\ NoPart \notin Seq(UriChars)
    /\ UserInfos \subseteq {NoPart} \cup Seq(UserChars)
    /\ Hosts \subseteq Seq(HostChars)
    /\ Ports \subseteq {NoPart} \cup Seq(DigitRuns)
    /\ \A path \in Paths : path \in Seq(PathChars) /\ Rooted(path)
    /\ Queries \cup Fragments \subseteq {NoPart} \cup Seq(TailChars)

VARIABLES
    parts,   \* the parts the text was put together from
    text,    \* uristr
    pos,     \* p: how many characters have been read
    cs,      \* the machine's state; "returned" and "thrown" when CreateUri is left
    absolute,\* the authority follows a scheme
    mark,    \* the position mark points to, 0 for NULL
    uri      \* the Uri's members

uriVars == <<parts, text, pos, cs, absolute, mark, uri>>

\* text before or after a part that is there
Lead(prefix, part)  == IF part = NoPart THEN <<>> ELSE prefix \o part
Trail(part, suffix) == IF part = NoPart THEN <<>> ELSE part \o suffix

TextOf(q) ==
    Trail(q.scheme, <<":">>) \o <<"/", "/">> \o Trail(q.userinfo, <<"@">>) \o q.host
       \o Lead(<<":">>, q.port) \o q.path \o Lead(<<"?">>, q.query) \o Lead(<<"#">>, q.fragment)

\* Uri(): m_port is 0, the strings are empty
EmptyUri == [scheme |-> <<>>, userinfo |-> <<>>, host |-> <<>>, port |-> <<>>,
             path |-> <<>>, query |-> <<>>, fragment |-> <<>>]

UriInit ==
    /\ parts \in [scheme : {NoPart, <<"http">>}, userinfo : UserInfos, host : Hosts,
                  port : Ports, path : Paths, query : Queries, fragment : Fragments]
    /\ text = TextOf(parts) /\ pos = 0
    /\ cs = "start" /\ absolute = FALSE /\ mark = 0 /\ uri = EmptyUri
-----------------------------------------------------------------------------
(* The tables.  A row is a set of states, a set of characters, the state   *)
(* they lead to.                                                           *)

SchemeRows ==
    {<<{"start"}, LetterRuns, "scheme">>, <<{"scheme"}, HostChars, "scheme">>,
     <<{"scheme"}, {":"}, "colon">>,
     <<{"start"}, DigitRuns \cup {"@"}, "segment">>, <<{"scheme"}, {"@"}, "segment">>,
     <<{"segment"}, LetterRuns \cup DigitRuns \cup {"@"}, "segment">>,
     <<{"start"}, {"/"}, "slash">>, <<{"colon"}, {"/"}, "slash">>,
     <<{"slash"}, {"/"}, "authority">>,
     <<{"scheme", "segment"}, {"/"}, "path">>, <<{"colon", "slash"}, Pchar, "path">>,
     <<{"path"}, PathChars, "path">>}

AuthorityRows ==
    {<<{"authority", "name"}, HostChars, "name">>,
     <<{"authority", "name"}, {":"}, "named">>,
     <<{"named", "number"}, DigitRuns, "number">>,
     <<{"named", "number"}, LetterRuns \cup {":"}, "password">>,
     <<{"password"}, UserChars, "password">>,
     <<{"authority", "name", "named", "number", "password"}, {"@"}, "user">>,
     <<{"user", "host"}, HostChars, "host">>,
     <<{"user", "host"}, {":"}, "hosted">>,
     <<{"hosted", "port"}, DigitRuns, "port">>}

\* where an authority may end, and everything before the query
AuthorityEnds == {"authority", "name", "named", "number", "user", "host", "hosted", "port"}
BeforeQuery   == AuthorityEnds \cup {"start", "scheme", "segment", "colon", "slash", "path", "saved"}

TailRows ==
    {<<{"saved"}, PathChars, "saved">>,
     <<BeforeQuery, {"?"}, "query">>, <<BeforeQuery \cup {"query", "querying"}, {"#"}, "fragment">>,
     <<{"query", "querying"}, TailChars, "querying">>,
     <<{"fragment", "fragmenting"}, TailChars, "fragmenting">>}

UriTarget(from, c) ==
    IF from \in AuthorityEnds /\ c = "/" THEN IF absolute THEN "saved" ELSE "path"
    ELSE LET rows == {r \in SchemeRows \cup AuthorityRows \cup TailRows : from \in r[1] /\ c \in r[2]}
         IN  IF rows = {} THEN "error" ELSE (CHOOSE r \in rows : TRUE)[3]

\* the actions of leaving an authority: the host or the port is saved, marked first when
\* it is empty
LeaveAuthority(from) ==
    CASE from \in {"authority", "user"} -> <<"mark", "host">>
      [] from \in {"name", "host"}      -> <<"host">>
      [] from \in {"named", "hosted"}   -> <<"mark", "port">>
      [] from \in {"number", "port"}    -> <<"port">>

StartUnmarked(acts) == acts   \* mutant of StartPath: the path is not marked

\* an action that is there already is not taken again: a path's mark may be one with the
\* mark of an empty host or port before it
StartPath(acts) == IF acts[1] = "mark" THEN acts ELSE Append(acts, "mark")

\* the actions of ending the part that a state is in, at c or at the end of the text
EndActions(from, c) ==
    CASE from \in AuthorityEnds ->
             LET leave == LeaveAuthority(from) IN
             IF ~absolute THEN leave
             ELSE StartPath(leave) \o (IF c = "/" THEN <<>> ELSE <<"path">>)
      [] from = "saved"       -> <<"path">>
      [] from = "query"       -> <<"mark", "query">>
      [] from = "querying"    -> <<"query">>
      [] from = "fragment"    -> <<"mark", "fragment">>
      [] from = "fragmenting" -> <<"fragment">>
      [] OTHER                -> <<>>

CharActions(from, c, to) ==
    CASE from = "scheme" /\ c = ":"                               -> <<"scheme">>
      [] c = "@" /\ to = "user"                                   -> IF from = "authority"
                                                                     THEN <<"mark", "userinfo">>
                                                                     ELSE <<"userinfo">>
      [] c = ":" /\ to \in {"named", "hosted"}                    -> LeaveAuthority(from)
      [] <<from, to>> \in {<<"start", "scheme">>, <<"authority", "name">>, <<"named", "number">>,
                           <<"user", "host">>, <<"hosted", "port">>, <<"query", "querying">>,
                           <<"fragment", "fragmenting">>}         -> <<"mark">>
      [] c \in {"?", "#"} /\ to \in {"query", "fragment"}         -> EndActions(from, c)
      [] from \in AuthorityEnds /\ c = "/"                        -> EndActions(from, c)
      [] OTHER                                                    -> <<>>

\* one action at p, on m = [mark, uri, ok]: a string from a null mark throws, but the host
\* and the user information are left alone then.  save_host keeps the mark
Act(m, action, p) ==
    LET part == SubSeq(text, m.mark, p - 1) IN
    CASE action = "mark" -> [m EXCEPT !.mark = p]
      [] action = "host" -> IF m.mark = 0 THEN m ELSE [m EXCEPT !.uri.host = part]
      [] action = "port" -> [m EXCEPT !.mark = 0, !.uri.port = IF part = <<>> THEN @ ELSE part]
      [] action = "userinfo" -> [m EXCEPT !.mark = 0, !.uri.userinfo = IF m.mark = 0 THEN @ ELSE part]
      [] OTHER -> IF m.mark = 0 THEN [m EXCEPT !.ok = FALSE]
                  ELSE [m EXCEPT !.mark = 0, !.uri[action] = part]

RunActions(acts, p) ==
    LET m[i \in 0 .. Len(acts)] ==
          IF i = 0 THEN [mark |-> mark, uri |-> uri, ok |-> TRUE]
          ELSE IF m[i - 1].ok THEN Act(m[i - 1], acts[i], p) ELSE m[i - 1]
    IN  m[Len(acts)]

Effect(acts, p, to) ==
    LET m == RunActions(acts, p) IN
    mark' = m.mark /\ uri' = m.uri /\ cs' = IF m.ok THEN to ELSE "thrown"
-----------------------------------------------------------------------------
Scanning == cs \notin {"error", "thrown", "returned", "refused"}

\* the loop of the machine: one character
UriChar ==
    /\ Scanning /\ pos < Len(text)
    /\ LET c == text[pos + 1]
           to == UriTarget(cs, c)
       IN  /\ Effect(IF to = "error" THEN <<>> ELSE CharActions(cs, c, to), pos + 1, to)
           /\ absolute' = (absolute \/ cs = "colon")
    /\ pos' = pos + 1
    /\ UNCHANGED <<parts, text>>

\* the end of the text: its actions, and CreateUri's test of the state
UriEof ==
    /\ Scanning /\ pos = Len(text)
    /\ Effect(EndActions(cs, "eof"), pos + 1, IF cs = "password" THEN "refused" ELSE "returned")
    /\ UNCHANGED <<parts, text, pos, absolute>>

\* getPath() and isDefaultPort(), as dump() uses them
GetPath(u) == IF u.path = <<>> THEN <<"/">> ELSE u.path
IsDefaultPort(u) ==
    \/ u.port = <<>>
    \/ u.scheme = <<"http">> /\ u.port = <<"80">>
    \/ u.scheme = <<"https">> /\ u.port = <<"443">>

\* dump(): the parts it writes
Dump(u) ==
    LET Or(part) == IF part = <<>> THEN NoPart ELSE part IN
    [u EXCEPT !.userinfo = Or(@), !.port = IF IsDefaultPort(u) THEN NoPart ELSE @,
              !.path = GetPath(u), !.query = Or(@), !.fragment = Or(@)]

\* a program that dumps an absolute Uri and creates one from the text
Reparse ==
    /\ cs = "returned" /\ uri.scheme # <<>> /\ text # TextOf(Dump(uri))
    /\ parts' = Dump(uri) /\ text' = TextOf(parts') /\ pos' = 0
    /\ cs' = "start" /\ absolute' = FALSE /\ mark' = 0 /\ uri' = EmptyUri

UriNext == UriChar \/ UriEof \/ Reparse

UriSpec == UriInit /\ [][UriNext]_uriVars
-----------------------------------------------------------------------------
PartOf(part) == IF part = NoPart THEN <<>> ELSE part

\* the port's mark is also set inside user information, by a digit after a colon
DigitsAfterColon(part) == \E i \in 1 .. Len(part) - 1 : part[i] = ":" /\ part[i + 1] \in DigitRuns

\* CreateUri takes a text apart into the parts it was made of, whichever of them are
\* missing or empty: but for a password that starts with a digit, which loses the user's
\* name, and for a path with no scheme before the authority, which is dropped.  It throws
\* exactly for an empty port after a scheme.  Likewise for the text dump() makes of the
\* result, whose parts are those of the Uri.
UriPartsKept ==
    /\ cs \notin {"error", "refused"}
    /\ cs = "thrown"   => parts.scheme # NoPart /\ parts.port = <<>>
    /\ cs = "returned" =>
          /\ parts.scheme # NoPart => parts.port # <<>>
          /\ \A f \in {"scheme", "host", "port", "query", "fragment"} : uri[f] = PartOf(parts[f])
          /\ uri.path = IF parts.scheme = NoPart THEN <<>> ELSE parts.path
          /\ ~DigitsAfterColon(PartOf(parts.userinfo)) => uri.userinfo = PartOf(parts.userinfo)
=============================================================================
