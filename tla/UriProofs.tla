----------------------------- MODULE UriProofs -----------------------------
(***************************************************************************)
(* CreateUri takes every text apart into the parts it was made of, however *)
(* long they are and whichever of them are missing or empty.  The text's   *)
(* layout says where each part is; the invariant says of each state of the *)
(* machine where in the text it may be, what the mark points to there, and *)
(* which parts have been saved.                                            *)
(***************************************************************************)
EXTENDS Uri, Integers, SequenceTheorems, TLAPS

-----------------------------------------------------------------------------
(* Texts of a Uri, taken apart.                                            *)

\* the parts of a text
UriParts ==
    {q \in [scheme : {NoPart, <<"http">>}, userinfo : {NoPart} \cup Seq(UserChars), host : Seq(HostChars),
            port : {NoPart} \cup Seq(DigitRuns), path : Seq(PathChars),
            query : {NoPart} \cup Seq(TailChars), fragment : {NoPart} \cup Seq(TailChars)] : Rooted(q.path)}

UriFields == {"scheme", "userinfo", "host", "port", "path", "query", "fragment"}
Uris == [scheme : Seq(UriChars), userinfo : Seq(UriChars), host : Seq(UriChars), port : Seq(UriChars),
         path : Seq(UriChars), query : Seq(UriChars), fragment : Seq(UriChars)]

\* how far the text goes before the user information, and after each part
UserAt(q)   == Len(Trail(q.scheme, <<":">>)) + 2
HostAt(q)   == UserAt(q) + Len(Trail(q.userinfo, <<"@">>))
HostEnd(q)  == HostAt(q) + Len(q.host)
PortEnd(q)  == HostEnd(q) + Len(Lead(<<":">>, q.port))
PathEnd(q)  == PortEnd(q) + Len(q.path)
QueryEnd(q) == PathEnd(q) + Len(Lead(<<"?">>, q.query))
TextEnd(q)  == QueryEnd(q) + Len(Lead(<<"#">>, q.fragment))

-----------------------------------------------------------------------------
(* The machine in the text: where each of its states may be, what the mark *)
(* points to there, and which parts have been saved.                       *)

UriTyped ==
    /\ parts \in UriParts /\ text = TextOf(parts)
    /\ pos \in 0 .. Len(text) /\ mark \in Nat /\ uri \in Uris /\ absolute \in BOOLEAN

HasScheme == parts.scheme # NoPart
HasUser   == parts.userinfo # NoPart
HasPort   == parts.port # NoPart

\* a digit after a colon of the user information may have moved the mark
UserSaved ==
    /\ uri.userinfo \in Seq(UserChars)
    /\ ~DigitsAfterColon(PartOf(parts.userinfo)) => uri.userinfo = PartOf(parts.userinfo)
PathSaved ==
    /\ HasScheme => parts.port # <<>>
    /\ uri.path = IF HasScheme THEN parts.path ELSE <<>>

AuthoritySaved ==
    /\ uri.scheme = PartOf(parts.scheme) /\ UserSaved
    /\ uri.host = parts.host /\ uri.port = PartOf(parts.port)

BeforeScheme ==
    /\ cs = "start" /\ pos = 0 /\ mark = 0 /\ uri = EmptyUri /\ ~absolute

InScheme ==
    /\ cs = "scheme" /\ pos = 1 /\ mark = 1 /\ uri = EmptyUri /\ ~absolute /\ HasScheme

AfterScheme ==
    /\ uri.scheme = PartOf(parts.scheme)
    /\ \A f \in UriFields \ {"scheme"} : uri[f] = <<>>
    /\ mark = 0
    /\ \/ cs = "colon" /\ pos = 2 /\ HasScheme /\ ~absolute
       \/ cs = "slash" /\ pos = UserAt(parts) - 1 /\ (absolute <=> HasScheme)

\* before the @ of a text that has user information
InUser ==
    /\ HasUser /\ (absolute <=> HasScheme)
    /\ uri.scheme = PartOf(parts.scheme)
    /\ \A f \in {"userinfo", "port", "path", "query", "fragment"} : uri[f] = <<>>
    /\ UserAt(parts) <= pos /\ pos < HostAt(parts)
    /\ cs \in {"authority", "name", "named", "number", "password"}
    /\ cs = "authority" <=> pos = UserAt(parts)
    /\ cs = "named" => text[pos] = ":"
    /\ cs # "authority" =>
          /\ UserAt(parts) < mark /\ mark <= pos
          /\ ~DigitsAfterColon(parts.userinfo) => mark = UserAt(parts) + 1

\* in the host or the port
Early(early, late) == cs = IF HasUser THEN late ELSE early
InHost ==
    /\ (absolute <=> HasScheme)
    /\ uri.scheme = PartOf(parts.scheme) /\ UserSaved
    /\ \A f \in {"port", "path", "query", "fragment"} : uri[f] = <<>>
    /\ \/ Early("authority", "user") /\ pos = HostAt(parts)
       \/ /\ Early("name", "host") /\ HostAt(parts) < pos /\ pos <= HostEnd(parts)
          /\ mark = HostAt(parts) + 1
       \/ /\ Early("named", "hosted") /\ pos = HostEnd(parts) + 1
          /\ HasPort /\ uri.host = parts.host
       \/ /\ Early("number", "port") /\ HostEnd(parts) + 1 < pos /\ pos <= PortEnd(parts)
          /\ mark = HostEnd(parts) + 2
          /\ HasPort /\ uri.host = parts.host

InPath ==
    /\ AuthoritySaved /\ (absolute <=> HasScheme)
    /\ \A f \in {"path", "query", "fragment"} : uri[f] = <<>>
    /\ PortEnd(parts) < pos /\ pos <= PathEnd(parts)
    /\ IF HasScheme THEN cs = "saved" /\ mark = IF parts.port = <<>> THEN 0 ELSE PortEnd(parts) + 1
                    ELSE cs = "path"

InQuery ==
    /\ AuthoritySaved /\ PathSaved /\ (absolute <=> HasScheme)
    /\ \A f \in {"query", "fragment"} : uri[f] = <<>>
    /\ parts.query # NoPart
    /\ \/ cs = "query" /\ pos = PathEnd(parts) + 1
       \/ /\ cs = "querying" /\ PathEnd(parts) + 1 < pos /\ pos <= QueryEnd(parts)
          /\ mark = PathEnd(parts) + 2

InFragment ==
    /\ AuthoritySaved /\ PathSaved /\ uri.query = PartOf(parts.query) /\ (absolute <=> HasScheme)
    /\ uri.fragment = <<>> /\ parts.fragment # NoPart
    /\ \/ cs = "fragment" /\ pos = QueryEnd(parts) + 1
       \/ /\ cs = "fragmenting" /\ QueryEnd(parts) + 1 < pos
          /\ mark = QueryEnd(parts) + 2

UriRead ==
    \/ cs = "thrown" /\ HasScheme /\ parts.port = <<>>
    \/ /\ cs = "returned" /\ AuthoritySaved /\ PathSaved
       /\ uri.query = PartOf(parts.query) /\ uri.fragment = PartOf(parts.fragment)

UriInv ==
    /\ UriTyped
    /\ \/ BeforeScheme \/ InScheme \/ AfterScheme \/ InUser \/ InHost
       \/ InPath \/ InQuery \/ InFragment \/ UriRead
-----------------------------------------------------------------------------
\* The sets of characters.
LEMMA CharSets ==
    /\ DigitRuns \subseteq HostChars /\ HostChars \subseteq UserChars /\ UserChars \subseteq PathChars
    /\ PathChars \subseteq TailChars /\ TailChars \subseteq UriChars
    /\ "http" \in HostChars /\ ":" \in UserChars /\ "@" \in PathChars /\ "/" \in PathChars
    /\ "?" \in TailChars /\ "#" \in UriChars
BY DEF UriChars, TailChars, PathChars, Pchar, UserChars, HostChars, LetterRuns, DigitRuns

\* The parts are sequences of characters of a Uri.
LEMMA Parts ==
    ASSUME NEW q \in UriParts
    PROVE  /\ q.scheme # NoPart => q.scheme = <<"http">>
           /\ q.userinfo # NoPart => q.userinfo \in Seq(UserChars) /\ q.userinfo \in Seq(UriChars)
           /\ q.host \in Seq(HostChars) /\ q.host \in Seq(UriChars)
           /\ q.port # NoPart => q.port \in Seq(DigitRuns) /\ q.port \in Seq(UriChars)
           /\ q.path \in Seq(PathChars) /\ q.path \in Seq(UriChars)
           /\ q.path # <<>> => q.path[1] = "/"
           /\ q.query # NoPart => q.query \in Seq(TailChars) /\ q.query \in Seq(UriChars)
           /\ q.fragment # NoPart => q.fragment \in Seq(TailChars) /\ q.fragment \in Seq(UriChars)
<1>1. \A S, T : S \subseteq T => Seq(S) \subseteq Seq(T)
  BY SeqMonotonic
<1>2. /\ Seq(UserChars) \subseteq Seq(UriChars) /\ Seq(HostChars) \subseteq Seq(UriChars)
      /\ Seq(DigitRuns) \subseteq Seq(UriChars) /\ Seq(PathChars) \subseteq Seq(UriChars)
      /\ Seq(TailChars) \subseteq Seq(UriChars)
  <2>1. /\ UserChars \subseteq UriChars /\ HostChars \subseteq UriChars /\ DigitRuns \subseteq UriChars
        /\ PathChars \subseteq UriChars /\ TailChars \subseteq UriChars
    BY CharSets
  <2> QED BY <1>1, <2>1
<1> QED BY <1>2 DEF UriParts, Rooted

\* A part after a text.
LEMMA WithPart ==
    ASSUME NEW p \in Seq(UriChars), NEW x \in Seq(UriChars)
    PROVE  /\ p \o x \in Seq(UriChars) /\ Len(p \o x) = Len(p) + Len(x)
           /\ Len(p) \in Nat /\ Len(x) \in Nat /\ Len(p \o x) \in Nat
           /\ \A i \in 1 .. Len(p) : (p \o x)[i] = p[i]
           /\ \A i \in Len(p) + 1 .. Len(p) + Len(x) : (p \o x)[i] = x[i - Len(p)]
OBVIOUS

\* A part with a character behind it.
LEMMA WithTrail ==
    ASSUME NEW p \in Seq(UriChars), NEW x \in {NoPart} \cup Seq(UriChars), NEW c \in UriChars
    PROVE  LET t == p \o Trail(x, <<c>>) IN
           /\ t \in Seq(UriChars) /\ Len(t) = Len(p) + Len(Trail(x, <<c>>)) /\ Len(t) \in Nat
           /\ \A i \in 1 .. Len(p) : t[i] = p[i]
           /\ IF x = NoPart THEN Len(t) = Len(p)
              ELSE /\ Len(x) \in Nat /\ Len(t) = Len(p) + Len(x) + 1 /\ t[Len(t)] = c
                   /\ \A i \in Len(p) + 1 .. Len(p) + Len(x) : t[i] = x[i - Len(p)]
<1>1. CASE x = NoPart
  <2>1. Trail(x, <<c>>) = <<>>
    BY <1>1 DEF Trail
  <2> QED BY <1>1, <2>1
<1>2. CASE x # NoPart
  <2>1. PICK y : y = x \o <<c>>
    OBVIOUS
  <2>2. Trail(x, <<c>>) = y
    BY <1>2, <2>1 DEF Trail
  <2>3. /\ y \in Seq(UriChars) /\ Len(y) = Len(x) + 1 /\ Len(x) \in Nat
        /\ y[Len(x) + 1] = c /\ \A i \in 1 .. Len(x) : y[i] = x[i]
    BY <1>2, <2>1
  <2>4. PICK t : t = p \o y
    OBVIOUS
  <2>5. /\ t \in Seq(UriChars) /\ Len(t) = Len(p) + Len(y) /\ Len(p) \in Nat
        /\ \A i \in 1 .. Len(p) : t[i] = p[i]
        /\ \A i \in Len(p) + 1 .. Len(p) + Len(y) : t[i] = y[i - Len(p)]
    <3>1. /\ p \o y \in Seq(UriChars) /\ Len(p \o y) = Len(p) + Len(y) /\ Len(p) \in Nat
          /\ \A i \in 1 .. Len(p) : (p \o y)[i] = p[i]
          /\ \A i \in Len(p) + 1 .. Len(p) + Len(y) : (p \o y)[i] = y[i - Len(p)]
      BY <2>3, WithPart
    <3> QED BY <2>4, <3>1
  <2>6. t[Len(t)] = c
    <3>1. Len(t) \in Len(p) + 1 .. Len(p) + Len(y) /\ Len(t) - Len(p) = Len(x) + 1
      BY <2>3, <2>5
    <3> QED BY <2>3, <2>5, <3>1
  <2>7. ASSUME NEW i \in Len(p) + 1 .. Len(p) + Len(x) PROVE t[i] = x[i - Len(p)]
    <3>1. i \in Len(p) + 1 .. Len(p) + Len(y) /\ i - Len(p) \in 1 .. Len(x)
      BY <2>3, <2>5
    <3> QED BY <2>3, <2>5, <3>1
  <2>8. Len(t) \in Nat /\ Len(t) = Len(p) + Len(x) + 1
    BY <2>3, <2>5
  <2> QED BY <1>2, <2>2, <2>3, <2>4, <2>5, <2>6, <2>7, <2>8
<1> QED BY <1>1, <1>2

\* A part with a character before it.
LEMMA WithLead ==
    ASSUME NEW p \in Seq(UriChars), NEW x \in {NoPart} \cup Seq(UriChars), NEW c \in UriChars
    PROVE  LET t == p \o Lead(<<c>>, x) IN
           /\ t \in Seq(UriChars) /\ Len(t) = Len(p) + Len(Lead(<<c>>, x)) /\ Len(t) \in Nat
           /\ \A i \in 1 .. Len(p) : t[i] = p[i]
           /\ IF x = NoPart THEN Len(t) = Len(p)
              ELSE /\ Len(x) \in Nat /\ Len(t) = Len(p) + 1 + Len(x) /\ t[Len(p) + 1] = c
                   /\ \A i \in Len(p) + 2 .. Len(t) : t[i] = x[i - (Len(p) + 1)]
<1>1. CASE x = NoPart
  <2>1. Lead(<<c>>, x) = <<>>
    BY <1>1 DEF Lead
  <2> QED BY <1>1, <2>1
<1>2. CASE x # NoPart
  <2>1. PICK y : y = <<c>> \o x
    OBVIOUS
  <2>2. Lead(<<c>>, x) = y
    BY <1>2, <2>1 DEF Lead
  <2>3. /\ y \in Seq(UriChars) /\ Len(y) = 1 + Len(x) /\ Len(x) \in Nat
        /\ y[1] = c /\ \A i \in 2 .. 1 + Len(x) : y[i] = x[i - 1]
    BY <1>2, <2>1
  <2>4. PICK t : t = p \o y
    OBVIOUS
  <2>5. /\ t \in Seq(UriChars) /\ Len(t) = Len(p) + Len(y) /\ Len(p) \in Nat
        /\ \A i \in 1 .. Len(p) : t[i] = p[i]
        /\ \A i \in Len(p) + 1 .. Len(p) + Len(y) : t[i] = y[i - Len(p)]
    <3>1. /\ p \o y \in Seq(UriChars) /\ Len(p \o y) = Len(p) + Len(y) /\ Len(p) \in Nat
          /\ \A i \in 1 .. Len(p) : (p \o y)[i] = p[i]
          /\ \A i \in Len(p) + 1 .. Len(p) + Len(y) : (p \o y)[i] = y[i - Len(p)]
      BY <2>3, WithPart
    <3> QED BY <2>4, <3>1
  <2>6. t[Len(p) + 1] = c
    <3>1. Len(p) + 1 \in Len(p) + 1 .. Len(p) + Len(y) /\ (Len(p) + 1) - Len(p) = 1
      BY <2>3, <2>5
    <3> QED BY <2>3, <2>5, <3>1
  <2>7. ASSUME NEW i \in Len(p) + 2 .. Len(t) PROVE t[i] = x[i - (Len(p) + 1)]
    <3>1. PICK n \in Nat : n = Len(p)
      BY <2>5
    <3>2. i \in n + 1 .. n + Len(y) /\ i - n \in 2 .. 1 + Len(x)
      BY <2>3, <2>5, <3>1
    <3>3. t[i] = y[i - n] /\ y[i - n] = x[(i - n) - 1]
      BY <2>3, <2>5, <3>1, <3>2
    <3>4. (i - n) - 1 = i - (n + 1)
      OBVIOUS
    <3> QED BY <3>1, <3>3, <3>4
  <2>8. Len(t) \in Nat /\ Len(t) = Len(p) + 1 + Len(x)
    BY <2>3, <2>5
  <2> QED BY <1>2, <2>2, <2>3, <2>4, <2>5, <2>6, <2>7, <2>8
<1> QED BY <1>1, <1>2

\* Where the parts are in the text.
LEMMA Layout ==
    ASSUME NEW q \in UriParts, NEW t, t = TextOf(q)
    PROVE  /\ t \in Seq(UriChars) /\ Len(t) = TextEnd(q)
           /\ IF q.scheme = NoPart THEN UserAt(q) = 2
              ELSE UserAt(q) = 4 /\ t[1] = "http" /\ t[2] = ":"
           /\ t[UserAt(q) - 1] = "/" /\ t[UserAt(q)] = "/"
           /\ IF q.userinfo = NoPart THEN HostAt(q) = UserAt(q)
              ELSE /\ Len(q.userinfo) \in Nat /\ HostAt(q) = UserAt(q) + Len(q.userinfo) + 1
                   /\ t[HostAt(q)] = "@"
                   /\ \A i \in UserAt(q) + 1 .. UserAt(q) + Len(q.userinfo) : t[i] = q.userinfo[i - UserAt(q)]
           /\ Len(q.host) \in Nat /\ HostEnd(q) = HostAt(q) + Len(q.host)
           /\ \A i \in HostAt(q) + 1 .. HostEnd(q) : t[i] = q.host[i - HostAt(q)]
           /\ IF q.port = NoPart THEN PortEnd(q) = HostEnd(q)
              ELSE /\ Len(q.port) \in Nat /\ PortEnd(q) = HostEnd(q) + 1 + Len(q.port)
                   /\ t[HostEnd(q) + 1] = ":"
                   /\ \A i \in HostEnd(q) + 2 .. PortEnd(q) : t[i] = q.port[i - (HostEnd(q) + 1)]
           /\ Len(q.path) \in Nat /\ PathEnd(q) = PortEnd(q) + Len(q.path)
           /\ \A i \in PortEnd(q) + 1 .. PathEnd(q) : t[i] = q.path[i - PortEnd(q)]
           /\ IF q.query = NoPart THEN QueryEnd(q) = PathEnd(q)
              ELSE /\ Len(q.query) \in Nat /\ QueryEnd(q) = PathEnd(q) + 1 + Len(q.query)
                   /\ t[PathEnd(q) + 1] = "?"
                   /\ \A i \in PathEnd(q) + 2 .. QueryEnd(q) : t[i] = q.query[i - (PathEnd(q) + 1)]
           /\ IF q.fragment = NoPart THEN TextEnd(q) = QueryEnd(q)
              ELSE /\ Len(q.fragment) \in Nat /\ TextEnd(q) = QueryEnd(q) + 1 + Len(q.fragment)
                   /\ t[QueryEnd(q) + 1] = "#"
                   /\ \A i \in QueryEnd(q) + 2 .. TextEnd(q) : t[i] = q.fragment[i - (QueryEnd(q) + 1)]
<1> DEFINE S == Seq(UriChars)
<1>c. {"http", ":", "@", "/", "?", "#"} \subseteq UriChars
  BY CharSets
<1>p. /\ q.userinfo # NoPart => q.userinfo \in S
      /\ q.host \in S
      /\ q.port # NoPart => q.port \in S
      /\ q.path \in S
      /\ q.query # NoPart => q.query \in S
      /\ q.fragment # NoPart => q.fragment \in S
  BY Parts
<1>1. PICK a : a = Trail(q.scheme, <<":">>) \o <<"/", "/">>
  OBVIOUS
<1>2. PICK b : b = a \o Trail(q.userinfo, <<"@">>)
  OBVIOUS
<1>3. PICK d : d = b \o q.host
  OBVIOUS
<1>4. PICK e : e = d \o Lead(<<":">>, q.port)
  OBVIOUS
<1>5. PICK f : f = e \o q.path
  OBVIOUS
<1>6. PICK g : g = f \o Lead(<<"?">>, q.query)
  OBVIOUS
<1>7. t = g \o Lead(<<"#">>, q.fragment)
  BY <1>1, <1>2, <1>3, <1>4, <1>5, <1>6 DEF TextOf
<1>11. /\ a \in S /\ Len(a) = UserAt(q)
       /\ IF q.scheme = NoPart THEN UserAt(q) = 2
          ELSE UserAt(q) = 4 /\ a[1] = "http" /\ a[2] = ":"
       /\ a[UserAt(q) - 1] = "/" /\ a[UserAt(q)] = "/"
  <2>1. PICK y : y = Trail(q.scheme, <<":">>)
    OBVIOUS
  <2>2. PICK z : z = <<"/", "/">>
    OBVIOUS
  <2>3. z \in S /\ Len(z) = 2 /\ z[1] = "/" /\ z[2] = "/"
    BY <1>c, <2>2
  <2>4. a = y \o z
    BY <1>1, <2>1, <2>2
  <2>5. UserAt(q) = Len(y) + 2
    BY <2>1 DEF UserAt
  <2>6. CASE q.scheme = NoPart
    <3>1. y = <<>>
      BY <2>1, <2>6 DEF Trail
    <3>2. y \in S /\ Len(y) = 0
      BY <3>1
    <3> QED BY <2>3, <2>4, <2>5, <2>6, <3>2
  <2>7. CASE q.scheme # NoPart
    <3>1. PICK u : u = <<"http">>
      OBVIOUS
    <3>2. PICK v : v = <<":">>
      OBVIOUS
    <3>3. u \in S /\ Len(u) = 1 /\ u[1] = "http" /\ v \in S /\ Len(v) = 1 /\ v[1] = ":"
      BY <1>c, <3>1, <3>2
    <3>4. y = u \o v
      BY <2>1, <2>7, <3>1, <3>2, Parts DEF Trail
    <3>5. y \in S /\ Len(y) = 2 /\ y[1] = "http" /\ y[2] = ":"
      <4>1. /\ u \o v \in S /\ Len(u \o v) = Len(u) + Len(v)
            /\ \A i \in 1 .. Len(u) : (u \o v)[i] = u[i]
            /\ \A i \in Len(u) + 1 .. Len(u) + Len(v) : (u \o v)[i] = v[i - Len(u)]
        BY <3>3, WithPart
      <4> HIDE DEF S
      <4> QED BY <3>3, <3>4, <4>1
    <3>6. a \in S /\ Len(a) = 4 /\ a[1] = "http" /\ a[2] = ":" /\ a[3] = "/" /\ a[4] = "/"
      <4>1. /\ y \o z \in S /\ Len(y \o z) = Len(y) + Len(z)
            /\ \A i \in 1 .. Len(y) : (y \o z)[i] = y[i]
            /\ \A i \in Len(y) + 1 .. Len(y) + Len(z) : (y \o z)[i] = z[i - Len(y)]
        BY <2>3, <3>5, WithPart
      <4> HIDE DEF S
      <4> QED BY <2>3, <2>4, <3>5, <4>1
    <3> QED BY <2>5, <2>7, <3>5, <3>6
  <2> QED BY <2>6, <2>7
<1> HIDE DEF S
<1>12. /\ b \in S /\ Len(b) = HostAt(q) /\ Len(b) \in Nat
       /\ \A i \in 1 .. UserAt(q) : b[i] = a[i]
       /\ IF q.userinfo = NoPart THEN HostAt(q) = UserAt(q)
          ELSE /\ Len(q.userinfo) \in Nat /\ HostAt(q) = UserAt(q) + Len(q.userinfo) + 1
               /\ b[HostAt(q)] = "@"
               /\ \A i \in UserAt(q) + 1 .. UserAt(q) + Len(q.userinfo) : b[i] = q.userinfo[i - UserAt(q)]
  <2>1. LET r == a \o Trail(q.userinfo, <<"@">>) IN
        /\ r \in S /\ Len(r) = Len(a) + Len(Trail(q.userinfo, <<"@">>)) /\ Len(r) \in Nat
        /\ \A i \in 1 .. Len(a) : r[i] = a[i]
        /\ IF q.userinfo = NoPart THEN Len(r) = Len(a)
           ELSE /\ Len(q.userinfo) \in Nat /\ Len(r) = Len(a) + Len(q.userinfo) + 1 /\ r[Len(r)] = "@"
                /\ \A i \in Len(a) + 1 .. Len(a) + Len(q.userinfo) : r[i] = q.userinfo[i - Len(a)]
    <3>1. a \in Seq(UriChars)
      BY <1>11 DEF S
    <3>2. q.userinfo \in {NoPart} \cup Seq(UriChars)
      BY <1>p DEF S
    <3>3. "@" \in UriChars
      BY <1>c
    <3> QED BY <3>1, <3>2, <3>3, WithTrail DEF S
  <2> QED BY <1>2, <1>11, <2>1 DEF HostAt
<1>13. /\ d \in S /\ Len(d) = HostEnd(q) /\ Len(q.host) \in Nat /\ HostEnd(q) = HostAt(q) + Len(q.host)
       /\ \A i \in 1 .. HostAt(q) : d[i] = b[i]
       /\ \A i \in HostAt(q) + 1 .. HostEnd(q) : d[i] = q.host[i - HostAt(q)]
  <2>1. /\ b \o q.host \in S /\ Len(b \o q.host) = Len(b) + Len(q.host) /\ Len(q.host) \in Nat
        /\ \A i \in 1 .. Len(b) : (b \o q.host)[i] = b[i]
        /\ \A i \in Len(b) + 1 .. Len(b) + Len(q.host) : (b \o q.host)[i] = q.host[i - Len(b)]
    BY <1>p, <1>12, WithPart DEF S
  <2> QED BY <1>3, <1>12, <2>1 DEF HostEnd
<1>14. /\ e \in S /\ Len(e) = PortEnd(q) /\ Len(e) \in Nat
       /\ \A i \in 1 .. HostEnd(q) : e[i] = d[i]
       /\ IF q.port = NoPart THEN PortEnd(q) = HostEnd(q)
          ELSE /\ Len(q.port) \in Nat /\ PortEnd(q) = HostEnd(q) + 1 + Len(q.port)
               /\ e[HostEnd(q) + 1] = ":"
               /\ \A i \in HostEnd(q) + 2 .. PortEnd(q) : e[i] = q.port[i - (HostEnd(q) + 1)]
  <2>1. LET r == d \o Lead(<<":">>, q.port) IN
        /\ r \in S /\ Len(r) = Len(d) + Len(Lead(<<":">>, q.port)) /\ Len(r) \in Nat
        /\ \A i \in 1 .. Len(d) : r[i] = d[i]
        /\ IF q.port = NoPart THEN Len(r) = Len(d)
           ELSE /\ Len(q.port) \in Nat /\ Len(r) = Len(d) + 1 + Len(q.port) /\ r[Len(d) + 1] = ":"
                /\ \A i \in Len(d) + 2 .. Len(r) : r[i] = q.port[i - (Len(d) + 1)]
    <3>1. d \in Seq(UriChars)
      BY <1>13 DEF S
    <3>2. q.port \in {NoPart} \cup Seq(UriChars)
      BY <1>p DEF S
    <3>3. ":" \in UriChars
      BY <1>c
    <3> QED BY <3>1, <3>2, <3>3, WithLead, ZenonT(40) DEF S
  <2> QED BY <1>4, <1>13, <2>1 DEF PortEnd
<1>15. /\ f \in S /\ Len(f) = PathEnd(q) /\ Len(q.path) \in Nat /\ PathEnd(q) = PortEnd(q) + Len(q.path)
       /\ \A i \in 1 .. PortEnd(q) : f[i] = e[i]
       /\ \A i \in PortEnd(q) + 1 .. PathEnd(q) : f[i] = q.path[i - PortEnd(q)]
  <2>1. /\ e \o q.path \in S /\ Len(e \o q.path) = Len(e) + Len(q.path) /\ Len(q.path) \in Nat
        /\ \A i \in 1 .. Len(e) : (e \o q.path)[i] = e[i]
        /\ \A i \in Len(e) + 1 .. Len(e) + Len(q.path) : (e \o q.path)[i] = q.path[i - Len(e)]
    BY <1>p, <1>14, WithPart DEF S
  <2> QED BY <1>5, <1>14, <2>1 DEF PathEnd
<1>16. /\ g \in S /\ Len(g) = QueryEnd(q) /\ Len(g) \in Nat
       /\ \A i \in 1 .. PathEnd(q) : g[i] = f[i]
       /\ IF q.query = NoPart THEN QueryEnd(q) = PathEnd(q)
          ELSE /\ Len(q.query) \in Nat /\ QueryEnd(q) = PathEnd(q) + 1 + Len(q.query)
               /\ g[PathEnd(q) + 1] = "?"
               /\ \A i \in PathEnd(q) + 2 .. QueryEnd(q) : g[i] = q.query[i - (PathEnd(q) + 1)]
  <2>1. LET r == f \o Lead(<<"?">>, q.query) IN
        /\ r \in S /\ Len(r) = Len(f) + Len(Lead(<<"?">>, q.query)) /\ Len(r) \in Nat
        /\ \A i \in 1 .. Len(f) : r[i] = f[i]
        /\ IF q.query = NoPart THEN Len(r) = Len(f)
           ELSE /\ Len(q.query) \in Nat /\ Len(r) = Len(f) + 1 + Len(q.query) /\ r[Len(f) + 1] = "?"
                /\ \A i \in Len(f) + 2 .. Len(r) : r[i] = q.query[i - (Len(f) + 1)]
    <3>1. f \in Seq(UriChars)
      BY <1>15 DEF S
    <3>2. q.query \in {NoPart} \cup Seq(UriChars)
      BY <1>p DEF S
    <3>3. "?" \in UriChars
      BY <1>c
    <3> QED BY <3>1, <3>2, <3>3, WithLead, ZenonT(40) DEF S
  <2> QED BY <1>6, <1>15, <2>1 DEF QueryEnd
<1>17. /\ t \in S /\ Len(t) = TextEnd(q) /\ Len(t) \in Nat
       /\ \A i \in 1 .. QueryEnd(q) : t[i] = g[i]
       /\ IF q.fragment = NoPart THEN TextEnd(q) = QueryEnd(q)
          ELSE /\ Len(q.fragment) \in Nat /\ TextEnd(q) = QueryEnd(q) + 1 + Len(q.fragment)
               /\ t[QueryEnd(q) + 1] = "#"
               /\ \A i \in QueryEnd(q) + 2 .. TextEnd(q) : t[i] = q.fragment[i - (QueryEnd(q) + 1)]
  <2>1. LET r == g \o Lead(<<"#">>, q.fragment) IN
        /\ r \in S /\ Len(r) = Len(g) + Len(Lead(<<"#">>, q.fragment)) /\ Len(r) \in Nat
        /\ \A i \in 1 .. Len(g) : r[i] = g[i]
        /\ IF q.fragment = NoPart THEN Len(r) = Len(g)
           ELSE /\ Len(q.fragment) \in Nat /\ Len(r) = Len(g) + 1 + Len(q.fragment) /\ r[Len(g) + 1] = "#"
                /\ \A i \in Len(g) + 2 .. Len(r) : r[i] = q.fragment[i - (Len(g) + 1)]
    <3>1. g \in Seq(UriChars)
      BY <1>16 DEF S
    <3>2. q.fragment \in {NoPart} \cup Seq(UriChars)
      BY <1>p DEF S
    <3>3. "#" \in UriChars
      BY <1>c
    <3> QED BY <3>1, <3>2, <3>3, WithLead, ZenonT(40) DEF S
  <2> QED BY <1>7, <1>16, <2>1 DEF TextEnd
<1>18. /\ UserAt(q) \in Nat /\ HostAt(q) \in Nat /\ HostEnd(q) \in Nat /\ PortEnd(q) \in Nat
       /\ PathEnd(q) \in Nat /\ QueryEnd(q) \in Nat /\ TextEnd(q) \in Nat
       /\ 2 <= UserAt(q) /\ UserAt(q) <= HostAt(q) /\ HostAt(q) <= HostEnd(q) /\ HostEnd(q) <= PortEnd(q)
       /\ PortEnd(q) <= PathEnd(q) /\ PathEnd(q) <= QueryEnd(q) /\ QueryEnd(q) <= TextEnd(q)
  <2>1. UserAt(q) \in Nat /\ 2 <= UserAt(q)
    BY <1>11
  <2>2. HostAt(q) \in Nat /\ UserAt(q) <= HostAt(q)
    BY <1>12, <2>1
  <2>3. HostEnd(q) \in Nat /\ HostAt(q) <= HostEnd(q)
    BY <1>13, <2>2
  <2>4. PortEnd(q) \in Nat /\ HostEnd(q) <= PortEnd(q)
    BY <1>14, <2>3
  <2>5. PathEnd(q) \in Nat /\ PortEnd(q) <= PathEnd(q)
    BY <1>15, <2>4
  <2>6. QueryEnd(q) \in Nat /\ PathEnd(q) <= QueryEnd(q)
    BY <1>16, <2>5
  <2>7. TextEnd(q) \in Nat /\ QueryEnd(q) <= TextEnd(q)
    BY <1>17, <2>6
  <2> QED BY <2>1, <2>2, <2>3, <2>4, <2>5, <2>6, <2>7
<1>21. /\ \A i \in 1 .. PathEnd(q) : t[i] = f[i]
       /\ \A i \in 1 .. PortEnd(q) : t[i] = e[i]
       /\ \A i \in 1 .. HostEnd(q) : t[i] = d[i]
       /\ \A i \in 1 .. HostAt(q) : t[i] = b[i]
       /\ \A i \in 1 .. UserAt(q) : t[i] = a[i]
  <2>2. \A i \in 1 .. PathEnd(q) : t[i] = f[i]
    BY <1>16, <1>17, <1>18
  <2>3. \A i \in 1 .. PortEnd(q) : t[i] = e[i]
    BY <1>15, <1>18, <2>2
  <2>4. \A i \in 1 .. HostEnd(q) : t[i] = d[i]
    BY <1>14, <1>18, <2>3
  <2>5. \A i \in 1 .. HostAt(q) : t[i] = b[i]
    BY <1>13, <1>18, <2>4
  <2>6. \A i \in 1 .. UserAt(q) : t[i] = a[i]
    BY <1>12, <1>18, <2>5
  <2> QED BY <2>2, <2>3, <2>4, <2>5, <2>6
<1>31. t \in Seq(UriChars)
  BY <1>17 DEF S
<1>32. /\ (q.scheme # NoPart => t[1] = "http" /\ t[2] = ":")
       /\ t[UserAt(q) - 1] = "/" /\ t[UserAt(q)] = "/"
  BY <1>11, <1>18, <1>21
<1>33. ASSUME q.userinfo # NoPart
       PROVE  /\ t[HostAt(q)] = "@"
              /\ \A i \in UserAt(q) + 1 .. UserAt(q) + Len(q.userinfo) : t[i] = q.userinfo[i - UserAt(q)]
  <2>1. PICK u \in Nat, h \in Nat, n \in Nat : u = UserAt(q) /\ h = HostAt(q) /\ n = Len(q.userinfo) /\ h = u + n + 1
    BY <1>12, <1>18, <1>33
  <2>2. \A i \in 1 .. h : t[i] = b[i]
    BY <1>21, <2>1
  <2>3. b[h] = "@" /\ \A i \in u + 1 .. u + n : b[i] = q.userinfo[i - u]
    BY <1>12, <1>33, <2>1
  <2>4. t[h] = "@"
    <3>1. h \in 1 .. h
      BY <2>1
    <3> QED BY <3>1, <2>2, <2>3
  <2>5. ASSUME NEW i \in u + 1 .. u + n
        PROVE  t[i] = q.userinfo[i - u]
    <3>1. i \in 1 .. h
      BY <2>1
    <3> QED BY <3>1, <2>2, <2>3
  <2> QED BY <2>1, <2>4, <2>5
<1>34. \A i \in HostAt(q) + 1 .. HostEnd(q) : t[i] = q.host[i - HostAt(q)]
  BY <1>13, <1>18, <1>21
<1>35. ASSUME q.port # NoPart
       PROVE  t[HostEnd(q) + 1] = ":" /\ \A i \in HostEnd(q) + 2 .. PortEnd(q) : t[i] = q.port[i - (HostEnd(q) + 1)]
  <2>1. PICK h \in Nat, p \in Nat : h = HostEnd(q) /\ p = PortEnd(q) /\ h + 1 <= p
    BY <1>14, <1>18, <1>35
  <2>2. \A i \in 1 .. p : t[i] = e[i]
    BY <1>21, <2>1
  <2>3. e[h + 1] = ":" /\ \A i \in h + 2 .. p : e[i] = q.port[i - (h + 1)]
    BY <1>14, <1>35, <2>1
  <2>4. t[h + 1] = ":"
    <3>1. h + 1 \in 1 .. p
      BY <2>1
    <3> QED BY <3>1, <2>2, <2>3
  <2>5. ASSUME NEW i \in h + 2 .. p
        PROVE  t[i] = q.port[i - (h + 1)]
    <3>1. i \in 1 .. p
      BY <2>1
    <3> QED BY <3>1, <2>2, <2>3
  <2> QED BY <2>1, <2>4, <2>5
<1>36. \A i \in PortEnd(q) + 1 .. PathEnd(q) : t[i] = q.path[i - PortEnd(q)]
  BY <1>15, <1>18, <1>21
<1>37. q.query # NoPart =>
          t[PathEnd(q) + 1] = "?" /\ \A i \in PathEnd(q) + 2 .. QueryEnd(q) : t[i] = q.query[i - (PathEnd(q) + 1)]
  BY <1>16, <1>17, <1>18
<1> QED
  BY <1>11, <1>12, <1>13, <1>14, <1>15, <1>16, <1>17, <1>31, <1>32, <1>33, <1>34, <1>35, <1>36, <1>37, Zenon

\* The places are in order; two are equal where the part between them is missing or empty.
LEMMA Places ==
    ASSUME NEW q \in UriParts
    PROVE  /\ UserAt(q) \in Nat /\ HostAt(q) \in Nat /\ HostEnd(q) \in Nat /\ PortEnd(q) \in Nat
           /\ PathEnd(q) \in Nat /\ QueryEnd(q) \in Nat /\ TextEnd(q) \in Nat
           /\ UserAt(q) = IF q.scheme = NoPart THEN 2 ELSE 4
           /\ IF q.userinfo = NoPart THEN HostAt(q) = UserAt(q) ELSE UserAt(q) < HostAt(q)
           /\ HostAt(q) <= HostEnd(q) /\ (q.host = <<>> <=> HostEnd(q) = HostAt(q))
           /\ IF q.port = NoPart THEN PortEnd(q) = HostEnd(q)
              ELSE HostEnd(q) < PortEnd(q) /\ (q.port = <<>> <=> PortEnd(q) = HostEnd(q) + 1)
           /\ PortEnd(q) <= PathEnd(q) /\ (q.path = <<>> <=> PathEnd(q) = PortEnd(q))
           /\ IF q.query = NoPart THEN QueryEnd(q) = PathEnd(q)
              ELSE PathEnd(q) < QueryEnd(q) /\ (q.query = <<>> <=> QueryEnd(q) = PathEnd(q) + 1)
           /\ IF q.fragment = NoPart THEN TextEnd(q) = QueryEnd(q)
              ELSE QueryEnd(q) < TextEnd(q) /\ (q.fragment = <<>> <=> TextEnd(q) = QueryEnd(q) + 1)
<1>1. PICK t : t = TextOf(q)
  OBVIOUS
<1>2. \A x \in Seq(UriChars) : x = <<>> <=> Len(x) = 0
  BY EmptySeq
<1>3. /\ q.host = <<>> <=> Len(q.host) = 0
      /\ q.port # NoPart => (q.port = <<>> <=> Len(q.port) = 0)
      /\ q.path = <<>> <=> Len(q.path) = 0
      /\ q.query # NoPart => (q.query = <<>> <=> Len(q.query) = 0)
      /\ q.fragment # NoPart => (q.fragment = <<>> <=> Len(q.fragment) = 0)
  BY <1>2, Parts
<1>4. /\ UserAt(q) = IF q.scheme = NoPart THEN 2 ELSE 4
      /\ IF q.userinfo = NoPart THEN HostAt(q) = UserAt(q)
         ELSE Len(q.userinfo) \in Nat /\ HostAt(q) = UserAt(q) + Len(q.userinfo) + 1
      /\ Len(q.host) \in Nat /\ HostEnd(q) = HostAt(q) + Len(q.host)
      /\ IF q.port = NoPart THEN PortEnd(q) = HostEnd(q)
         ELSE Len(q.port) \in Nat /\ PortEnd(q) = HostEnd(q) + 1 + Len(q.port)
      /\ Len(q.path) \in Nat /\ PathEnd(q) = PortEnd(q) + Len(q.path)
      /\ IF q.query = NoPart THEN QueryEnd(q) = PathEnd(q)
         ELSE Len(q.query) \in Nat /\ QueryEnd(q) = PathEnd(q) + 1 + Len(q.query)
      /\ IF q.fragment = NoPart THEN TextEnd(q) = QueryEnd(q)
         ELSE Len(q.fragment) \in Nat /\ TextEnd(q) = QueryEnd(q) + 1 + Len(q.fragment)
  BY <1>1, Layout
<1>5. /\ UserAt(q) \in Nat /\ HostAt(q) \in Nat /\ UserAt(q) = IF q.scheme = NoPart THEN 2 ELSE 4
      /\ IF q.userinfo = NoPart THEN HostAt(q) = UserAt(q) ELSE UserAt(q) < HostAt(q)
  <2>1. UserAt(q) \in Nat /\ UserAt(q) = IF q.scheme = NoPart THEN 2 ELSE 4
    BY <1>4
  <2>2. HostAt(q) \in Nat /\ IF q.userinfo = NoPart THEN HostAt(q) = UserAt(q) ELSE UserAt(q) < HostAt(q)
    <3>1. CASE q.userinfo = NoPart
      BY <1>4, <2>1, <3>1
    <3>2. CASE q.userinfo # NoPart
      <4>1. PICK n \in Nat : n = Len(q.userinfo)
        BY <1>4, <3>2
      <4>2. PICK a \in Nat : a = UserAt(q)
        BY <2>1
      <4>3. HostAt(q) = a + n + 1
        BY <1>4, <3>2, <4>1, <4>2
      <4> QED BY <3>2, <4>2, <4>3
    <3> QED BY <3>1, <3>2
  <2> QED BY <2>1, <2>2
<1>6. HostEnd(q) \in Nat /\ HostAt(q) <= HostEnd(q) /\ (q.host = <<>> <=> HostEnd(q) = HostAt(q))
  BY <1>3, <1>4, <1>5
<1>7. /\ PortEnd(q) \in Nat
      /\ IF q.port = NoPart THEN PortEnd(q) = HostEnd(q)
         ELSE HostEnd(q) < PortEnd(q) /\ (q.port = <<>> <=> PortEnd(q) = HostEnd(q) + 1)
  BY <1>3, <1>4, <1>6
<1>8. PathEnd(q) \in Nat /\ PortEnd(q) <= PathEnd(q) /\ (q.path = <<>> <=> PathEnd(q) = PortEnd(q))
  BY <1>3, <1>4, <1>7
<1>9. /\ QueryEnd(q) \in Nat
      /\ IF q.query = NoPart THEN QueryEnd(q) = PathEnd(q)
         ELSE PathEnd(q) < QueryEnd(q) /\ (q.query = <<>> <=> QueryEnd(q) = PathEnd(q) + 1)
  BY <1>3, <1>4, <1>8
<1>10. /\ TextEnd(q) \in Nat
       /\ IF q.fragment = NoPart THEN TextEnd(q) = QueryEnd(q)
          ELSE QueryEnd(q) < TextEnd(q) /\ (q.fragment = <<>> <=> TextEnd(q) = QueryEnd(q) + 1)
  BY <1>3, <1>4, <1>9
<1> QED BY <1>5, <1>6, <1>7, <1>8, <1>9, <1>10

\* What a piece of a text is made of.
LEMMA Among ==
    ASSUME NEW from \in Nat, NEW to \in Nat, NEW n \in Nat, to = from + n, NEW x, NEW t, NEW C,
           \A j \in 1 .. n : x[j] \in C, \A i \in from + 1 .. to : t[i] = x[i - from]
    PROVE  \A i \in from + 1 .. to : t[i] \in C
OBVIOUS

\* The characters at the places.
LEMMA Chars ==
    ASSUME NEW q \in UriParts, NEW t, t = TextOf(q)
    PROVE  /\ t \in Seq(UriChars) /\ Len(t) = TextEnd(q)
           /\ q.scheme # NoPart => t[1] = "http" /\ t[2] = ":"
           /\ t[UserAt(q) - 1] = "/" /\ t[UserAt(q)] = "/"
           /\ q.userinfo # NoPart =>
                 t[HostAt(q)] = "@" /\ \A i \in UserAt(q) + 1 .. HostAt(q) - 1 : t[i] \in UserChars
           /\ \A i \in HostAt(q) + 1 .. HostEnd(q) : t[i] \in HostChars
           /\ q.port # NoPart =>
                 t[HostEnd(q) + 1] = ":" /\ \A i \in HostEnd(q) + 2 .. PortEnd(q) : t[i] \in DigitRuns
           /\ \A i \in PortEnd(q) + 1 .. PathEnd(q) : t[i] \in PathChars
           /\ PortEnd(q) < PathEnd(q) => t[PortEnd(q) + 1] = "/"
           /\ q.query # NoPart =>
                 t[PathEnd(q) + 1] = "?" /\ \A i \in PathEnd(q) + 2 .. QueryEnd(q) : t[i] \in TailChars
           /\ q.fragment # NoPart =>
                 t[QueryEnd(q) + 1] = "#" /\ \A i \in QueryEnd(q) + 2 .. TextEnd(q) : t[i] \in TailChars
<1>n. /\ UserAt(q) \in Nat /\ HostAt(q) \in Nat /\ HostEnd(q) \in Nat /\ PortEnd(q) \in Nat
      /\ PathEnd(q) \in Nat /\ QueryEnd(q) \in Nat /\ TextEnd(q) \in Nat
  BY Places
<1>1. /\ t \in Seq(UriChars) /\ Len(t) = TextEnd(q)
      /\ q.scheme # NoPart => t[1] = "http" /\ t[2] = ":"
      /\ t[UserAt(q) - 1] = "/" /\ t[UserAt(q)] = "/"
  BY Layout
<1>2. ASSUME q.userinfo # NoPart
      PROVE  t[HostAt(q)] = "@" /\ \A i \in UserAt(q) + 1 .. HostAt(q) - 1 : t[i] \in UserChars
  <2>1. /\ Len(q.userinfo) \in Nat /\ HostAt(q) = UserAt(q) + Len(q.userinfo) + 1 /\ t[HostAt(q)] = "@"
        /\ \A i \in UserAt(q) + 1 .. UserAt(q) + Len(q.userinfo) : t[i] = q.userinfo[i - UserAt(q)]
    BY <1>2, Layout
  <2>2. \A i \in 1 .. Len(q.userinfo) : q.userinfo[i] \in UserChars
    BY <1>2, Parts
  <2>a. PICK from \in Nat : from = UserAt(q)
    BY <1>n
  <2>b. PICK to \in Nat : to = HostAt(q) - 1
    BY <1>n, <2>1
  <2>c. to = from + Len(q.userinfo) /\ \A i \in from + 1 .. to : t[i] = q.userinfo[i - from]
    BY <1>n, <2>1, <2>a, <2>b, SMTT(30)
  <2>d. \A i \in from + 1 .. to : t[i] \in UserChars
    BY <2>1, <2>2, <2>c, Among
  <2> QED BY <1>n, <2>1, <2>2, <2>a, <2>b, <2>d
<1>3. \A i \in HostAt(q) + 1 .. HostEnd(q) : t[i] \in HostChars
  <2>1. /\ Len(q.host) \in Nat /\ HostEnd(q) = HostAt(q) + Len(q.host)
        /\ \A i \in HostAt(q) + 1 .. HostEnd(q) : t[i] = q.host[i - HostAt(q)]
    BY Layout
  <2>2. \A i \in 1 .. Len(q.host) : q.host[i] \in HostChars
    BY Parts
  <2>a. PICK from \in Nat : from = HostAt(q)
    BY <1>n
  <2>b. PICK to \in Nat : to = HostEnd(q)
    BY <1>n, <2>1
  <2>c. to = from + Len(q.host) /\ \A i \in from + 1 .. to : t[i] = q.host[i - from]
    BY <1>n, <2>1, <2>a, <2>b
  <2>d. \A i \in from + 1 .. to : t[i] \in HostChars
    BY <2>1, <2>2, <2>c, Among
  <2> QED BY <1>n, <2>1, <2>2, <2>a, <2>b, <2>d
<1>4. ASSUME q.port # NoPart
      PROVE  t[HostEnd(q) + 1] = ":" /\ \A i \in HostEnd(q) + 2 .. PortEnd(q) : t[i] \in DigitRuns
  <2>1. /\ Len(q.port) \in Nat /\ PortEnd(q) = HostEnd(q) + 1 + Len(q.port) /\ t[HostEnd(q) + 1] = ":"
        /\ \A i \in HostEnd(q) + 2 .. PortEnd(q) : t[i] = q.port[i - (HostEnd(q) + 1)]
    BY <1>4, Layout
  <2>2. \A i \in 1 .. Len(q.port) : q.port[i] \in DigitRuns
    BY <1>4, Parts
  <2>a. PICK from \in Nat : from = HostEnd(q) + 1
    BY <1>n
  <2>b. PICK to \in Nat : to = PortEnd(q)
    BY <1>n, <2>1
  <2>c. to = from + Len(q.port) /\ \A i \in from + 1 .. to : t[i] = q.port[i - from]
    BY <1>n, <2>1, <2>a, <2>b
  <2>d. \A i \in from + 1 .. to : t[i] \in DigitRuns
    BY <2>1, <2>2, <2>c, Among
  <2> QED BY <1>n, <2>1, <2>2, <2>a, <2>b, <2>d
<1>5. /\ \A i \in PortEnd(q) + 1 .. PathEnd(q) : t[i] \in PathChars
      /\ PortEnd(q) < PathEnd(q) => t[PortEnd(q) + 1] = "/"
  <2>1. /\ Len(q.path) \in Nat /\ PathEnd(q) = PortEnd(q) + Len(q.path)
        /\ \A i \in PortEnd(q) + 1 .. PathEnd(q) : t[i] = q.path[i - PortEnd(q)]
    BY Layout
  <2>2. (\A i \in 1 .. Len(q.path) : q.path[i] \in PathChars) /\ (q.path # <<>> => q.path[1] = "/")
    BY Parts
  <2>3. PortEnd(q) < PathEnd(q) => t[PortEnd(q) + 1] = "/"
    <3>1. SUFFICES ASSUME PortEnd(q) < PathEnd(q) PROVE t[PortEnd(q) + 1] = "/"
      OBVIOUS
    <3>2. PortEnd(q) + 1 \in PortEnd(q) + 1 .. PathEnd(q) /\ (PortEnd(q) + 1) - PortEnd(q) = 1
      BY <1>n, <3>1
    <3>3. q.path # <<>>
      BY <1>n, <3>1, Places
    <3> QED BY <2>1, <2>2, <3>2, <3>3
  <2>a. PICK from \in Nat : from = PortEnd(q)
    BY <1>n
  <2>b. PICK to \in Nat : to = PathEnd(q)
    BY <1>n, <2>1
  <2>c. to = from + Len(q.path) /\ \A i \in from + 1 .. to : t[i] = q.path[i - from]
    BY <1>n, <2>1, <2>a, <2>b
  <2>d. \A i \in from + 1 .. to : t[i] \in PathChars
    BY <2>1, <2>2, <2>c, Among
  <2> QED BY <1>n, <2>1, <2>2, <2>a, <2>b, <2>d, <2>3
<1>6. ASSUME q.query # NoPart
      PROVE  t[PathEnd(q) + 1] = "?" /\ \A i \in PathEnd(q) + 2 .. QueryEnd(q) : t[i] \in TailChars
  <2>1. /\ Len(q.query) \in Nat /\ QueryEnd(q) = PathEnd(q) + 1 + Len(q.query) /\ t[PathEnd(q) + 1] = "?"
        /\ \A i \in PathEnd(q) + 2 .. QueryEnd(q) : t[i] = q.query[i - (PathEnd(q) + 1)]
    BY <1>6, Layout
  <2>2. \A i \in 1 .. Len(q.query) : q.query[i] \in TailChars
    BY <1>6, Parts
  <2>a. PICK from \in Nat : from = PathEnd(q) + 1
    BY <1>n
  <2>b. PICK to \in Nat : to = QueryEnd(q)
    BY <1>n, <2>1
  <2>c. to = from + Len(q.query) /\ \A i \in from + 1 .. to : t[i] = q.query[i - from]
    BY <1>n, <2>1, <2>a, <2>b
  <2>d. \A i \in from + 1 .. to : t[i] \in TailChars
    BY <2>1, <2>2, <2>c, Among
  <2> QED BY <1>n, <2>1, <2>2, <2>a, <2>b, <2>d
<1>7. ASSUME q.fragment # NoPart
      PROVE  t[QueryEnd(q) + 1] = "#" /\ \A i \in QueryEnd(q) + 2 .. TextEnd(q) : t[i] \in TailChars
  <2>1. /\ Len(q.fragment) \in Nat /\ TextEnd(q) = QueryEnd(q) + 1 + Len(q.fragment) /\ t[QueryEnd(q) + 1] = "#"
        /\ \A i \in QueryEnd(q) + 2 .. TextEnd(q) : t[i] = q.fragment[i - (QueryEnd(q) + 1)]
    BY <1>7, Layout
  <2>2. \A i \in 1 .. Len(q.fragment) : q.fragment[i] \in TailChars
    BY <1>7, Parts
  <2>a. PICK from \in Nat : from = QueryEnd(q) + 1
    BY <1>n
  <2>b. PICK to \in Nat : to = TextEnd(q)
    BY <1>n, <2>1
  <2>c. to = from + Len(q.fragment) /\ \A i \in from + 1 .. to : t[i] = q.fragment[i - from]
    BY <1>n, <2>1, <2>a, <2>b
  <2>d. \A i \in from + 1 .. to : t[i] \in TailChars
    BY <2>1, <2>2, <2>c, Among
  <2> QED BY <1>n, <2>1, <2>2, <2>a, <2>b, <2>d
<1> QED BY <1>1, <1>2, <1>3, <1>4, <1>5, <1>6, <1>7, Zenon

\* A piece of a sequence that agrees with another sequence is that sequence.
LEMMA Piece ==
    ASSUME NEW t \in Seq(UriChars), NEW x \in Seq(UriChars), NEW from \in Nat, from + Len(x) <= Len(t),
           \A i \in from + 1 .. from + Len(x) : t[i] = x[i - from]
    PROVE  SubSeq(t, from + 1, from + Len(x)) = x
<1>1. PICK n \in Nat : n = Len(x)
  OBVIOUS
<1>2. PICK y : y = SubSeq(t, from + 1, from + n)
  OBVIOUS
<1>3. y \in Seq(UriChars) /\ Len(y) = n /\ \A i \in 1 .. n : y[i] = t[from + i]
  <2>1. \A i \in from + 1 .. from + n : t[i] \in UriChars
    BY <1>1
  <2>2. from + 1 \in Int /\ from + n \in Int
    OBVIOUS
  <2>3. /\ y \in Seq(UriChars) /\ Len(y) = IF from + 1 <= from + n THEN from + n - (from + 1) + 1 ELSE 0
        /\ \A i \in 1 .. from + n - (from + 1) + 1 : y[i] = t[from + 1 + i - 1]
    BY <1>2, <2>1, <2>2, SubSeqProperties
  <2>4. ASSUME NEW i \in 1 .. n PROVE y[i] = t[from + i]
    <3>1. i \in 1 .. from + n - (from + 1) + 1 /\ from + 1 + i - 1 = from + i
      OBVIOUS
    <3> QED BY <2>3, <3>1
  <2> QED BY <2>3, <2>4
<1>4. \A i \in 1 .. n : y[i] = x[i]
  <2>1. ASSUME NEW i \in 1 .. n PROVE y[i] = x[i]
    <3>1. from + i \in from + 1 .. from + Len(x) /\ (from + i) - from = i
      BY <1>1
    <3> QED BY <1>3, <3>1
  <2> QED BY <2>1
<1>5. y = x
  BY <1>1, <1>3, <1>4, SeqEqual
<1> QED BY <1>1, <1>2, <1>5

\* The parts, cut out of the text.
LEMMA Cuts ==
    ASSUME NEW q \in UriParts, NEW t, t = TextOf(q)
    PROVE  /\ q.scheme # NoPart => SubSeq(t, 1, 1) = q.scheme
           /\ q.userinfo # NoPart => SubSeq(t, UserAt(q) + 1, HostAt(q) - 1) = q.userinfo
           /\ SubSeq(t, HostAt(q) + 1, HostEnd(q)) = q.host
           /\ q.port # NoPart => SubSeq(t, HostEnd(q) + 2, PortEnd(q)) = q.port
           /\ SubSeq(t, PortEnd(q) + 1, PathEnd(q)) = q.path
           /\ q.query # NoPart => SubSeq(t, PathEnd(q) + 2, QueryEnd(q)) = q.query
           /\ q.fragment # NoPart => SubSeq(t, QueryEnd(q) + 2, TextEnd(q)) = q.fragment
<1>n. /\ UserAt(q) \in Nat /\ HostAt(q) \in Nat /\ HostEnd(q) \in Nat /\ PortEnd(q) \in Nat
      /\ PathEnd(q) \in Nat /\ QueryEnd(q) \in Nat /\ TextEnd(q) \in Nat
      /\ HostAt(q) <= HostEnd(q) /\ HostEnd(q) <= PortEnd(q) /\ PortEnd(q) <= PathEnd(q)
      /\ PathEnd(q) <= QueryEnd(q) /\ QueryEnd(q) <= TextEnd(q)
  <2>1. /\ UserAt(q) \in Nat /\ HostAt(q) \in Nat /\ HostEnd(q) \in Nat /\ PortEnd(q) \in Nat
        /\ PathEnd(q) \in Nat /\ QueryEnd(q) \in Nat /\ TextEnd(q) \in Nat
        /\ HostAt(q) <= HostEnd(q) /\ PortEnd(q) <= PathEnd(q)
    BY Places
  <2>2. HostEnd(q) <= PortEnd(q)
    BY <2>1, Places
  <2>3. PathEnd(q) <= QueryEnd(q)
    BY <2>1, Places
  <2>4. QueryEnd(q) <= TextEnd(q)
    BY <2>1, Places
  <2> QED BY <2>1, <2>2, <2>3, <2>4
<1>p. ASSUME NEW from \in Nat, NEW to \in Nat, NEW x \in Seq(UriChars), to = from + Len(x), to <= TextEnd(q),
             \A i \in from + 1 .. to : t[i] = x[i - from]
      PROVE  SubSeq(t, from + 1, to) = x
  <2>1. t \in Seq(UriChars) /\ Len(t) = TextEnd(q)
    BY Layout
  <2> QED BY <1>p, <2>1, Piece
<1>1. ASSUME q.scheme # NoPart PROVE SubSeq(t, 1, 1) = q.scheme
  <2>1. t[1] = "http" /\ UserAt(q) = 4
    BY <1>1, Layout
  <2>2. PICK x : x = <<"http">>
    OBVIOUS
  <2>3. x \in Seq(UriChars) /\ Len(x) = 1 /\ x[1] = "http"
    BY <2>2, CharSets
  <2>4. SubSeq(t, 0 + 1, 1) = x
    <3>1. \A i \in 0 + 1 .. 1 : t[i] = x[i - 0]
      BY <2>1, <2>3
    <3>2. 1 = 0 + Len(x) /\ 1 <= TextEnd(q)
      BY <1>n, <2>1, <2>3, Places
    <3> QED BY <1>n, <1>p, <2>3, <3>1, <3>2
  <2>5. 0 + 1 = 1 /\ q.scheme = x
    BY <1>1, <2>2, Parts
  <2> QED BY <2>4, <2>5
<1>2. ASSUME q.userinfo # NoPart PROVE SubSeq(t, UserAt(q) + 1, HostAt(q) - 1) = q.userinfo
  <2>1. /\ Len(q.userinfo) \in Nat /\ HostAt(q) = UserAt(q) + Len(q.userinfo) + 1
        /\ \A i \in UserAt(q) + 1 .. UserAt(q) + Len(q.userinfo) : t[i] = q.userinfo[i - UserAt(q)]
    BY <1>2, Layout
  <2>2. HostAt(q) - 1 = UserAt(q) + Len(q.userinfo) /\ HostAt(q) - 1 \in Nat /\ HostAt(q) - 1 <= TextEnd(q)
    BY <1>n, <2>1, SMTT(30)
  <2>3. q.userinfo \in Seq(UriChars)
    BY <1>2, Parts
  <2> QED BY <1>n, <1>p, <2>1, <2>2, <2>3
<1>3. SubSeq(t, HostAt(q) + 1, HostEnd(q)) = q.host
  <2>1. /\ HostEnd(q) = HostAt(q) + Len(q.host) /\ q.host \in Seq(UriChars)
        /\ \A i \in HostAt(q) + 1 .. HostEnd(q) : t[i] = q.host[i - HostAt(q)]
    BY Layout, Parts
  <2> QED BY <1>n, <1>p, <2>1
<1>4. ASSUME q.port # NoPart PROVE SubSeq(t, HostEnd(q) + 2, PortEnd(q)) = q.port
  <2>1. /\ Len(q.port) \in Nat /\ PortEnd(q) = HostEnd(q) + 1 + Len(q.port)
        /\ \A i \in HostEnd(q) + 2 .. PortEnd(q) : t[i] = q.port[i - (HostEnd(q) + 1)]
    BY <1>4, Layout
  <2>2. PICK from \in Nat : from = HostEnd(q) + 1
    BY <1>n
  <2>3. PortEnd(q) = from + Len(q.port) /\ \A i \in from + 1 .. PortEnd(q) : t[i] = q.port[i - from]
    BY <1>n, <2>1, <2>2
  <2>4. SubSeq(t, from + 1, PortEnd(q)) = q.port
    BY <1>4, <1>n, <1>p, <2>3, Parts
  <2>5. HostEnd(q) \in Nat
    BY <1>n
  <2>6. from + 1 = HostEnd(q) + 2
    BY <2>2, <2>5
  <2> QED BY <2>4, <2>6
<1>5. SubSeq(t, PortEnd(q) + 1, PathEnd(q)) = q.path
  <2>1. /\ PathEnd(q) = PortEnd(q) + Len(q.path) /\ q.path \in Seq(UriChars)
        /\ \A i \in PortEnd(q) + 1 .. PathEnd(q) : t[i] = q.path[i - PortEnd(q)]
    BY Layout, Parts
  <2> QED BY <1>n, <1>p, <2>1
<1>6. ASSUME q.query # NoPart PROVE SubSeq(t, PathEnd(q) + 2, QueryEnd(q)) = q.query
  <2>1. /\ Len(q.query) \in Nat /\ QueryEnd(q) = PathEnd(q) + 1 + Len(q.query)
        /\ \A i \in PathEnd(q) + 2 .. QueryEnd(q) : t[i] = q.query[i - (PathEnd(q) + 1)]
    BY <1>6, Layout
  <2>2. PICK from \in Nat : from = PathEnd(q) + 1
    BY <1>n
  <2>3. QueryEnd(q) = from + Len(q.query) /\ \A i \in from + 1 .. QueryEnd(q) : t[i] = q.query[i - from]
    BY <1>n, <2>1, <2>2
  <2>4. SubSeq(t, from + 1, QueryEnd(q)) = q.query
    BY <1>6, <1>n, <1>p, <2>3, Parts
  <2>5. PathEnd(q) \in Nat
    BY <1>n
  <2>6. from + 1 = PathEnd(q) + 2
    BY <2>2, <2>5
  <2> QED BY <2>4, <2>6
<1>7. ASSUME q.fragment # NoPart PROVE SubSeq(t, QueryEnd(q) + 2, TextEnd(q)) = q.fragment
  <2>1. /\ Len(q.fragment) \in Nat /\ TextEnd(q) = QueryEnd(q) + 1 + Len(q.fragment)
        /\ \A i \in QueryEnd(q) + 2 .. TextEnd(q) : t[i] = q.fragment[i - (QueryEnd(q) + 1)]
    BY <1>7, Layout
  <2>2. PICK from \in Nat : from = QueryEnd(q) + 1
    BY <1>n
  <2>3. TextEnd(q) = from + Len(q.fragment) /\ \A i \in from + 1 .. TextEnd(q) : t[i] = q.fragment[i - from]
    BY <1>n, <2>1, <2>2
  <2>4. SubSeq(t, from + 1, TextEnd(q)) = q.fragment
    BY <1>7, <1>n, <1>p, <2>3, Parts
  <2>5. QueryEnd(q) \in Nat
    BY <1>n
  <2>6. from + 1 = QueryEnd(q) + 2
    BY <2>2, <2>5
  <2> QED BY <2>4, <2>6
<1> QED BY <1>1, <1>2, <1>3, <1>4, <1>5, <1>6, <1>7, Zenon

\* User information in the text: a digit after a colon, and a piece of it.
LEMMA UserPieces ==
    ASSUME NEW q \in UriParts, NEW t, t = TextOf(q), q.userinfo # NoPart
    PROVE  /\ \A i \in UserAt(q) + 1 .. HostAt(q) - 2 :
                 t[i] = ":" /\ t[i + 1] \in DigitRuns => DigitsAfterColon(q.userinfo)
           /\ \A i \in UserAt(q) + 1 .. HostAt(q) - 1 : SubSeq(t, i, HostAt(q) - 1) \in Seq(UserChars)
<1>1. /\ Len(q.userinfo) \in Nat /\ HostAt(q) = UserAt(q) + Len(q.userinfo) + 1 /\ UserAt(q) \in Nat
      /\ \A i \in UserAt(q) + 1 .. UserAt(q) + Len(q.userinfo) : t[i] = q.userinfo[i - UserAt(q)]
  BY Layout, Places, SMTT(30)
<1>2. PICK a \in Nat : a = UserAt(q)
  BY <1>1
<1>3. PICK n \in Nat : n = Len(q.userinfo)
  BY <1>1
<1>4. ASSUME NEW i \in UserAt(q) + 1 .. HostAt(q) - 2, t[i] = ":", t[i + 1] \in DigitRuns
      PROVE  DigitsAfterColon(q.userinfo)
  <2>0. i \in a + 1 .. a + n - 1
    BY <1>1, <1>2, <1>3
  <2>1. PICK j \in 1 .. n - 1 : j = i - a
    BY <2>0
  <2>2. i \in a + 1 .. a + n /\ i + 1 \in a + 1 .. a + n /\ i - a = j /\ (i + 1) - a = j + 1
    BY <2>0, <2>1
  <2>3. q.userinfo[j] = ":" /\ q.userinfo[j + 1] \in DigitRuns
    BY <1>1, <1>2, <1>3, <1>4, <2>2
  <2> QED BY <1>3, <2>3 DEF DigitsAfterColon
<1>5. ASSUME NEW i \in UserAt(q) + 1 .. HostAt(q) - 1 PROVE SubSeq(t, i, HostAt(q) - 1) \in Seq(UserChars)
  <2>1. \A j \in UserAt(q) + 1 .. HostAt(q) - 1 : t[j] \in UserChars
    BY Chars
  <2>2. i \in Int /\ HostAt(q) - 1 \in Int /\ \A j \in i .. HostAt(q) - 1 : t[j] \in UserChars
    BY <1>1, <2>1, SMTT(30)
  <2> QED BY <2>2, SubSeqProperties
<1> QED BY <1>4, <1>5

-----------------------------------------------------------------------------
(* The machine.                                                            *)

Rows == SchemeRows \cup AuthorityRows \cup TailRows

\* No two rows have a state and a character in common but lead elsewhere.
LEMMA Deterministic ==
    ASSUME NEW u \in Rows, NEW v \in Rows, NEW from \in u[1], NEW c \in u[2], from \in v[1], c \in v[2]
    PROVE  u[3] = v[3]
<1> USE DEF Rows, SchemeRows, AuthorityRows, TailRows, AuthorityEnds, BeforeQuery, TailChars, PathChars, Pchar,
            UserChars, HostChars, LetterRuns, DigitRuns
<1>1. CASE u \in SchemeRows
  OBVIOUS
<1>2. CASE u \in AuthorityRows
  OBVIOUS
<1>3. CASE u \in TailRows
  OBVIOUS
<1> QED BY <1>1, <1>2, <1>3

\* A row tells where its states and characters lead.
LEMMA RowTaken ==
    ASSUME NEW r \in Rows, NEW from \in r[1], NEW c \in r[2], ~(from \in AuthorityEnds /\ c = "/")
    PROVE  UriTarget(from, c) = r[3]
<1> DEFINE rows == {u \in Rows : from \in u[1] /\ c \in u[2]}
<1>1. UriTarget(from, c) = IF rows = {} THEN "error" ELSE (CHOOSE u \in rows : TRUE)[3]
  BY DEF UriTarget, Rows
<1>2. r \in rows
  OBVIOUS
<1>3. PICK u \in rows : u = CHOOSE v \in rows : TRUE
  BY <1>2
<1>4. u[3] = r[3]
  BY Deterministic
<1> HIDE DEF rows
<1> QED BY <1>1, <1>2, <1>3, <1>4

\* Where the states that a text goes through and its characters lead.
LEMMA Moves ==
    /\ \A from \in {"start"}, c \in LetterRuns : UriTarget(from, c) = "scheme"
    /\ \A from \in {"scheme"}, c \in {":"} : UriTarget(from, c) = "colon"
    /\ \A from \in {"start"}, c \in {"/"} : UriTarget(from, c) = "slash"
    /\ \A from \in {"colon"}, c \in {"/"} : UriTarget(from, c) = "slash"
    /\ \A from \in {"slash"}, c \in {"/"} : UriTarget(from, c) = "authority"
    /\ \A from \in {"path"}, c \in PathChars : UriTarget(from, c) = "path"
    /\ \A from \in {"authority", "name"}, c \in HostChars : UriTarget(from, c) = "name"
    /\ \A from \in {"authority", "name"}, c \in {":"} : UriTarget(from, c) = "named"
    /\ \A from \in {"named", "number"}, c \in DigitRuns : UriTarget(from, c) = "number"
    /\ \A from \in {"named", "number"}, c \in LetterRuns \cup {":"} : UriTarget(from, c) = "password"
    /\ \A from \in {"password"}, c \in UserChars : UriTarget(from, c) = "password"
    /\ \A from \in {"authority", "name", "named", "number", "password"}, c \in {"@"} : UriTarget(from, c) = "user"
    /\ \A from \in {"user", "host"}, c \in HostChars : UriTarget(from, c) = "host"
    /\ \A from \in {"user", "host"}, c \in {":"} : UriTarget(from, c) = "hosted"
    /\ \A from \in {"hosted", "port"}, c \in DigitRuns : UriTarget(from, c) = "port"
    /\ \A from \in {"saved"}, c \in PathChars : UriTarget(from, c) = "saved"
    /\ \A from \in BeforeQuery, c \in {"?"} : UriTarget(from, c) = "query"
    /\ \A from \in BeforeQuery \cup {"query", "querying"}, c \in {"#"} : UriTarget(from, c) = "fragment"
    /\ \A from \in {"query", "querying"}, c \in TailChars : UriTarget(from, c) = "querying"
    /\ \A from \in {"fragment", "fragmenting"}, c \in TailChars : UriTarget(from, c) = "fragmenting"
    /\ \A from \in AuthorityEnds : UriTarget(from, "/") = IF absolute THEN "saved" ELSE "path"
<1>a. ASSUME NEW F, NEW C, NEW to, <<F, C, to>> \in Rows, F \cap AuthorityEnds = {} \/ "/" \notin C
      PROVE  \A from \in F, c \in C : UriTarget(from, c) = to
  <2>1. PICK r \in Rows : r = <<F, C, to>>
    BY <1>a
  <2>2. \A from \in r[1], c \in r[2] : UriTarget(from, c) = r[3]
    BY <1>a, <2>1, RowTaken
  <2> QED BY <2>1, <2>2
<1>b. /\ "/" \notin HostChars /\ "/" \notin UserChars /\ "/" \notin DigitRuns /\ "/" \notin LetterRuns \cup {":"}
      /\ "/" \notin LetterRuns
  BY DEF HostChars, UserChars, DigitRuns, LetterRuns
<1>1. \A from \in {"start"}, c \in LetterRuns : UriTarget(from, c) = "scheme"
  <2>1. <<{"start"}, LetterRuns, "scheme">> \in Rows
    BY Zenon DEF Rows, SchemeRows
  <2>2. ({"start"}) \cap AuthorityEnds = {} \/ "/" \notin LetterRuns
    BY <1>b DEF AuthorityEnds
  <2> QED BY <1>a, <2>1, <2>2
<1>2. \A from \in {"scheme"}, c \in {":"} : UriTarget(from, c) = "colon"
  <2>1. <<{"scheme"}, {":"}, "colon">> \in Rows
    BY Zenon DEF Rows, SchemeRows
  <2>2. ({"scheme"}) \cap AuthorityEnds = {} \/ "/" \notin {":"}
    BY <1>b DEF AuthorityEnds
  <2> QED BY <1>a, <2>1, <2>2
<1>3. \A from \in {"start"}, c \in {"/"} : UriTarget(from, c) = "slash"
  <2>1. <<{"start"}, {"/"}, "slash">> \in Rows
    BY Zenon DEF Rows, SchemeRows
  <2>2. ({"start"}) \cap AuthorityEnds = {} \/ "/" \notin {"/"}
    BY <1>b DEF AuthorityEnds
  <2> QED BY <1>a, <2>1, <2>2
<1>4. \A from \in {"colon"}, c \in {"/"} : UriTarget(from, c) = "slash"
  <2>1. <<{"colon"}, {"/"}, "slash">> \in Rows
    BY Zenon DEF Rows, SchemeRows
  <2>2. ({"colon"}) \cap AuthorityEnds = {} \/ "/" \notin {"/"}
    BY <1>b DEF AuthorityEnds
  <2> QED BY <1>a, <2>1, <2>2
<1>5. \A from \in {"slash"}, c \in {"/"} : UriTarget(from, c) = "authority"
  <2>1. <<{"slash"}, {"/"}, "authority">> \in Rows
    BY Zenon DEF Rows, SchemeRows
  <2>2. ({"slash"}) \cap AuthorityEnds = {} \/ "/" \notin {"/"}
    BY <1>b DEF AuthorityEnds
  <2> QED BY <1>a, <2>1, <2>2
<1>6. \A from \in {"path"}, c \in PathChars : UriTarget(from, c) = "path"
  <2>1. <<{"path"}, PathChars, "path">> \in Rows
    BY Zenon DEF Rows, SchemeRows
  <2>2. ({"path"}) \cap AuthorityEnds = {} \/ "/" \notin PathChars
    BY <1>b DEF AuthorityEnds
  <2> QED BY <1>a, <2>1, <2>2
<1>7. \A from \in {"authority", "name"}, c \in HostChars : UriTarget(from, c) = "name"
  <2>1. <<{"authority", "name"}, HostChars, "name">> \in Rows
    BY Zenon DEF Rows, AuthorityRows
  <2>2. ({"authority", "name"}) \cap AuthorityEnds = {} \/ "/" \notin HostChars
    BY <1>b DEF AuthorityEnds
  <2> QED BY <1>a, <2>1, <2>2
<1>8. \A from \in {"authority", "name"}, c \in {":"} : UriTarget(from, c) = "named"
  <2>1. <<{"authority", "name"}, {":"}, "named">> \in Rows
    BY Zenon DEF Rows, AuthorityRows
  <2>2. ({"authority", "name"}) \cap AuthorityEnds = {} \/ "/" \notin {":"}
    BY <1>b DEF AuthorityEnds
  <2> QED BY <1>a, <2>1, <2>2
<1>9. \A from \in {"named", "number"}, c \in DigitRuns : UriTarget(from, c) = "number"
  <2>1. <<{"named", "number"}, DigitRuns, "number">> \in Rows
    BY Zenon DEF Rows, AuthorityRows
  <2>2. ({"named", "number"}) \cap AuthorityEnds = {} \/ "/" \notin DigitRuns
    BY <1>b DEF AuthorityEnds
  <2> QED BY <1>a, <2>1, <2>2
<1>10. \A from \in {"named", "number"}, c \in LetterRuns \cup {":"} : UriTarget(from, c) = "password"
  <2>1. <<{"named", "number"}, LetterRuns \cup {":"}, "password">> \in Rows
    BY Zenon DEF Rows, AuthorityRows
  <2>2. ({"named", "number"}) \cap AuthorityEnds = {} \/ "/" \notin LetterRuns \cup {":"}
    BY <1>b DEF AuthorityEnds
  <2> QED BY <1>a, <2>1, <2>2
<1>11. \A from \in {"password"}, c \in UserChars : UriTarget(from, c) = "password"
  <2>1. <<{"password"}, UserChars, "password">> \in Rows
    BY Zenon DEF Rows, AuthorityRows
  <2>2. ({"password"}) \cap AuthorityEnds = {} \/ "/" \notin UserChars
    BY <1>b DEF AuthorityEnds
  <2> QED BY <1>a, <2>1, <2>2
<1>12. \A from \in {"authority", "name", "named", "number", "password"}, c \in {"@"} : UriTarget(from, c) = "user"
  <2>1. <<{"authority", "name", "named", "number", "password"}, {"@"}, "user">> \in Rows
    BY Zenon DEF Rows, AuthorityRows
  <2>2. ({"authority", "name", "named", "number", "password"}) \cap AuthorityEnds = {} \/ "/" \notin {"@"}
    BY <1>b DEF AuthorityEnds
  <2> QED BY <1>a, <2>1, <2>2
<1>13. \A from \in {"user", "host"}, c \in HostChars : UriTarget(from, c) = "host"
  <2>1. <<{"user", "host"}, HostChars, "host">> \in Rows
    BY Zenon DEF Rows, AuthorityRows
  <2>2. ({"user", "host"}) \cap AuthorityEnds = {} \/ "/" \notin HostChars
    BY <1>b DEF AuthorityEnds
  <2> QED BY <1>a, <2>1, <2>2
<1>14. \A from \in {"user", "host"}, c \in {":"} : UriTarget(from, c) = "hosted"
  <2>1. <<{"user", "host"}, {":"}, "hosted">> \in Rows
    BY Zenon DEF Rows, AuthorityRows
  <2>2. ({"user", "host"}) \cap AuthorityEnds = {} \/ "/" \notin {":"}
    BY <1>b DEF AuthorityEnds
  <2> QED BY <1>a, <2>1, <2>2
<1>15. \A from \in {"hosted", "port"}, c \in DigitRuns : UriTarget(from, c) = "port"
  <2>1. <<{"hosted", "port"}, DigitRuns, "port">> \in Rows
    BY Zenon DEF Rows, AuthorityRows
  <2>2. ({"hosted", "port"}) \cap AuthorityEnds = {} \/ "/" \notin DigitRuns
    BY <1>b DEF AuthorityEnds
  <2> QED BY <1>a, <2>1, <2>2
<1>16. \A from \in {"saved"}, c \in PathChars : UriTarget(from, c) = "saved"
  <2>1. <<{"saved"}, PathChars, "saved">> \in Rows
    BY Zenon DEF Rows, TailRows
  <2>2. ({"saved"}) \cap AuthorityEnds = {} \/ "/" \notin PathChars
    BY <1>b DEF AuthorityEnds
  <2> QED BY <1>a, <2>1, <2>2
<1>17. \A from \in BeforeQuery, c \in {"?"} : UriTarget(from, c) = "query"
  <2>1. <<BeforeQuery, {"?"}, "query">> \in Rows
    BY Zenon DEF Rows, TailRows
  <2>2. (BeforeQuery) \cap AuthorityEnds = {} \/ "/" \notin {"?"}
    BY <1>b DEF AuthorityEnds
  <2> QED BY <1>a, <2>1, <2>2
<1>18. \A from \in BeforeQuery \cup {"query", "querying"}, c \in {"#"} : UriTarget(from, c) = "fragment"
  <2>1. <<BeforeQuery \cup {"query", "querying"}, {"#"}, "fragment">> \in Rows
    BY Zenon DEF Rows, TailRows
  <2>2. ({"query", "querying"}) \cap AuthorityEnds = {} \/ "/" \notin {"#"}
    BY <1>b DEF AuthorityEnds
  <2> QED BY <1>a, <2>1, <2>2
<1>19. \A from \in {"query", "querying"}, c \in TailChars : UriTarget(from, c) = "querying"
  <2>1. <<{"query", "querying"}, TailChars, "querying">> \in Rows
    BY Zenon DEF Rows, TailRows
  <2>2. ({"query", "querying"}) \cap AuthorityEnds = {} \/ "/" \notin TailChars
    BY <1>b DEF AuthorityEnds
  <2> QED BY <1>a, <2>1, <2>2
<1>20. \A from \in {"fragment", "fragmenting"}, c \in TailChars : UriTarget(from, c) = "fragmenting"
  <2>1. <<{"fragment", "fragmenting"}, TailChars, "fragmenting">> \in Rows
    BY Zenon DEF Rows, TailRows
  <2>2. ({"fragment", "fragmenting"}) \cap AuthorityEnds = {} \/ "/" \notin TailChars
    BY <1>b DEF AuthorityEnds
  <2> QED BY <1>a, <2>1, <2>2
<1>21. \A from \in AuthorityEnds : UriTarget(from, "/") = IF absolute THEN "saved" ELSE "path"
  BY DEF UriTarget
<1> QED
  BY <1>1, <1>2, <1>3, <1>4, <1>5, <1>6, <1>7, <1>8, <1>9, <1>10, <1>11, <1>12, <1>13, <1>14, <1>15, <1>16,
     <1>17, <1>18, <1>19, <1>20, <1>21

-----------------------------------------------------------------------------
(* The actions.                                                            *)

Machines == [mark : Nat, uri : Uris, ok : BOOLEAN]
Begin == [mark |-> mark, uri |-> uri, ok |-> TRUE]
Turn(m, action, p) == IF m.ok THEN Act(m, action, p) ELSE m

\* Up to three actions, one after another.
LEMMA UpToThree ==
    ASSUME NEW p, NEW acts, Len(acts) \in 0 .. 3
    PROVE  LET m1 == Turn(Begin, acts[1], p)
               m2 == Turn(m1, acts[2], p)
               m3 == Turn(m2, acts[3], p)
           IN  RunActions(acts, p) = IF Len(acts) = 0 THEN Begin ELSE IF Len(acts) = 1 THEN m1
                                     ELSE IF Len(acts) = 2 THEN m2 ELSE m3
<1> DEFINE m1 == Turn(Begin, acts[1], p)
           m2 == Turn(m1, acts[2], p)
           m3 == Turn(m2, acts[3], p)
           Value(g, i) == IF i = 0 THEN Begin ELSE IF g[i - 1].ok THEN Act(g[i - 1], acts[i], p) ELSE g[i - 1]
<1>n. PICK N \in {0, 1, 2, 3} : N = Len(acts)
  OBVIOUS
<1> DEFINE f  == [i \in 0 .. N |-> IF i = 0 THEN Begin ELSE IF i = 1 THEN m1 ELSE IF i = 2 THEN m2 ELSE m3]
           R  == CHOOSE g : g = [i \in 0 .. N |-> Value(g, i)]
<1>1. \A g, i : i # 0 => Value(g, i) = Turn(g[i - 1], acts[i], p)
  BY DEF Turn
<1>2. f = [i \in 0 .. N |-> Value(f, i)]
  <2>1. ASSUME NEW i \in 0 .. N PROVE f[i] = Value(f, i)
    <3>1. i = 0 \/ i = 1 \/ i = 2 \/ i = 3
      OBVIOUS
    <3>2. i # 0 => i - 1 \in 0 .. N
      OBVIOUS
    <3> HIDE DEF Value, m1, m2, m3
    <3>3. CASE i = 0
      BY <3>3 DEF Value
    <3>4. CASE i = 1
      BY <1>1, <3>2, <3>4 DEF m1
    <3>5. CASE i = 2
      BY <1>1, <3>2, <3>5 DEF m2
    <3>6. CASE i = 3
      BY <1>1, <3>2, <3>6 DEF m3
    <3> QED BY <3>1, <3>3, <3>4, <3>5, <3>6
  <2> HIDE DEF Value, m1, m2, m3
  <2>2. f = [i \in 0 .. N |-> f[i]]
    OBVIOUS
  <2> QED BY <2>1, <2>2
<1>3. R = [i \in 0 .. N |-> Value(R, i)]
  <2> HIDE DEF f, Value
  <2> QED BY <1>2
<1>4. RunActions(acts, p) = R[N]
  BY <1>n, Zenon DEF RunActions, Begin
<1>5. \A i \in 0 .. N : R[i] = Value(R, i)
  <2> HIDE DEF R, Value
  <2> QED BY <1>3
<1>6. R[0] = Begin
  <2> HIDE DEF R
  <2> QED BY <1>5
<1>7. \A i \in 1 .. N : R[i] = Turn(R[i - 1], acts[i], p)
  <2> HIDE DEF R, Value
  <2> QED BY <1>1, <1>5
<1>8. /\ N >= 1 => R[1] = m1
      /\ N >= 2 => R[2] = m2
      /\ N = 3 => R[3] = m3
  <2> HIDE DEF R
  <2>1. N >= 1 => R[1] = m1
    BY <1>6, <1>7
  <2> HIDE DEF m1
  <2>2. N >= 2 => R[2] = m2
    BY <1>7, <2>1
  <2> HIDE DEF m2
  <2>3. N = 3 => R[3] = m3
    BY <1>7, <2>2
  <2> QED BY <2>1, <2>2, <2>3
<1> HIDE DEF R, m1, m2, m3
<1>9. RunActions(acts, p) = IF N = 0 THEN Begin ELSE IF N = 1 THEN m1 ELSE IF N = 2 THEN m2 ELSE m3
  BY <1>4, <1>6, <1>8
<1> QED BY <1>n, <1>9 DEF m1, m2, m3

\* A run of one, two or three actions.
LEMMA ShortRuns ==
    ASSUME NEW p
    PROVE  /\ \A a : RunActions(<<a>>, p) = Turn(Begin, a, p)
           /\ \A a, b : RunActions(<<a, b>>, p) = Turn(Turn(Begin, a, p), b, p)
           /\ \A a, b, c : RunActions(<<a, b, c>>, p) = Turn(Turn(Turn(Begin, a, p), b, p), c, p)
<1>1. ASSUME NEW a PROVE RunActions(<<a>>, p) = Turn(Begin, a, p)
  BY UpToThree
<1>2. ASSUME NEW a, NEW b PROVE RunActions(<<a, b>>, p) = Turn(Turn(Begin, a, p), b, p)
  BY UpToThree
<1>3. ASSUME NEW a, NEW b, NEW c
      PROVE  RunActions(<<a, b, c>>, p) = Turn(Turn(Turn(Begin, a, p), b, p), c, p)
  BY UpToThree
<1> QED BY <1>1, <1>2, <1>3, Zenon

\* Short sequences put together.
LEMMA Together ==
    ASSUME NEW a, NEW b, NEW c
    PROVE  /\ Append(<<a>>, b) = <<a, b>> /\ <<a, b>> \o <<c>> = <<a, b, c>>
           /\ <<a, b>> \o <<>> = <<a, b>>
<1>1. \A s, t \in Seq({a, b, c}) : Len(s) = Len(t) /\ (\A i \in 1 .. Len(s) : s[i] = t[i]) => s = t
  BY SeqEqual
<1>2. Append(<<a>>, b) = <<a, b>>
  <2>1. PICK x : x = Append(<<a>>, b)
    OBVIOUS
  <2>2. PICK y : y = <<a, b>>
    OBVIOUS
  <2>3. x \in Seq({a, b, c}) /\ Len(x) = 2 /\ x[1] = a /\ x[2] = b
    BY <2>1
  <2>4. y \in Seq({a, b, c}) /\ Len(y) = 2 /\ y[1] = a /\ y[2] = b
    BY <2>2
  <2>5. x = y
    BY <1>1, <2>3, <2>4
  <2> QED BY <2>1, <2>2, <2>5
<1>3. <<a, b>> \o <<c>> = <<a, b, c>>
  <2>1. PICK x : x = <<a, b>>
    OBVIOUS
  <2>2. PICK y : y = <<c>>
    OBVIOUS
  <2>3. x \in Seq({a, b, c}) /\ Len(x) = 2 /\ y \in Seq({a, b, c}) /\ Len(y) = 1
    BY <2>1, <2>2
  <2>4. x \o y \in Seq({a, b, c}) /\ Len(x \o y) = 3 /\ (x \o y)[1] = a /\ (x \o y)[2] = b /\ (x \o y)[3] = c
    BY <2>1, <2>2, <2>3
  <2>5. PICK z : z = <<a, b, c>>
    OBVIOUS
  <2>6. z \in Seq({a, b, c}) /\ Len(z) = 3 /\ z[1] = a /\ z[2] = b /\ z[3] = c
    BY <2>5
  <2>7. x \o y = z
    <3>1. PICK w : w = x \o y
      OBVIOUS
    <3>2. w \in Seq({a, b, c}) /\ Len(w) = 3 /\ w[1] = a /\ w[2] = b /\ w[3] = c
      BY <2>4, <3>1
    <3>3. w = z
      BY <1>1, <2>6, <3>2
    <3> QED BY <3>1, <3>3
  <2> QED BY <2>1, <2>2, <2>5, <2>7
<1>4. <<a, b>> \o <<>> = <<a, b>>
  <2>1. <<a, b>> \in Seq({a, b, c})
    OBVIOUS
  <2> QED BY <2>1, ConcatEmptySeq
<1> QED BY <1>2, <1>3, <1>4

\* u with one part changed
Saved(u, field, part) == [u EXCEPT ![field] = part]

\* Saving one part leaves the others.
LEMMA SavedIs ==
    ASSUME NEW u \in Uris, NEW field \in UriFields, NEW part \in Seq(UriChars)
    PROVE  /\ Saved(u, field, part) \in Uris /\ Saved(u, field, part)[field] = part
           /\ \A f \in UriFields \ {field} : Saved(u, field, part)[f] = u[f]
BY DEF Saved, Uris, UriFields

\* What each action does.
LEMMA Acts ==
    ASSUME NEW m \in Machines, NEW p
    PROVE  LET part == SubSeq(text, m.mark, p - 1) IN
           /\ Act(m, "mark", p) = [mark |-> p, uri |-> m.uri, ok |-> m.ok]
           /\ m.mark # 0 =>
                 /\ Act(m, "host", p) = [mark |-> m.mark, uri |-> Saved(m.uri, "host", part), ok |-> m.ok]
                 /\ Act(m, "userinfo", p) = [mark |-> 0, uri |-> Saved(m.uri, "userinfo", part), ok |-> m.ok]
                 /\ \A f \in {"scheme", "path", "query", "fragment"} :
                       Act(m, f, p) = [mark |-> 0, uri |-> Saved(m.uri, f, part), ok |-> m.ok]
           /\ part # <<>> => Act(m, "port", p) = [mark |-> 0, uri |-> Saved(m.uri, "port", part), ok |-> m.ok]
           /\ part = <<>> => Act(m, "port", p) = [mark |-> 0, uri |-> m.uri, ok |-> m.ok]
           /\ m.mark = 0 => \A f \in {"scheme", "path", "query", "fragment"} :
                              Act(m, f, p) = [mark |-> 0, uri |-> m.uri, ok |-> FALSE]
<1> DEFINE part == SubSeq(text, m.mark, p - 1)
<1>1. m = [mark |-> m.mark, uri |-> m.uri, ok |-> m.ok] /\ m.uri \in Uris
  BY DEF Machines
<1> HIDE DEF part
<1>2. Act(m, "mark", p) = [mark |-> p, uri |-> m.uri, ok |-> m.ok]
  BY <1>1 DEF Act
<1>3. m.mark # 0 => Act(m, "host", p) = [mark |-> m.mark, uri |-> Saved(m.uri, "host", part), ok |-> m.ok]
  BY <1>1 DEF Act, Saved, part
<1>4. m.mark # 0 => Act(m, "userinfo", p) = [mark |-> 0, uri |-> Saved(m.uri, "userinfo", part), ok |-> m.ok]
  BY <1>1 DEF Act, Saved, part
<1>5. ASSUME NEW f \in {"scheme", "path", "query", "fragment"}
      PROVE  /\ m.mark # 0 => Act(m, f, p) = [mark |-> 0, uri |-> Saved(m.uri, f, part), ok |-> m.ok]
             /\ m.mark = 0 => Act(m, f, p) = [mark |-> 0, uri |-> m.uri, ok |-> FALSE]
  BY <1>1 DEF Act, Saved, part
<1>6. /\ part # <<>> => Act(m, "port", p) = [mark |-> 0, uri |-> Saved(m.uri, "port", part), ok |-> m.ok]
      /\ part = <<>> => Act(m, "port", p) = [mark |-> 0, uri |-> m.uri, ok |-> m.ok]
  BY <1>1 DEF Act, Saved, part, Uris
<1> QED BY <1>2, <1>3, <1>4, <1>5, <1>6 DEF part

\* What is cut out of the text is made of its characters.
LEMMA Cut ==
    ASSUME text \in Seq(UriChars), NEW from \in Nat \ {0}, NEW p \in 1 .. Len(text) + 1
    PROVE  SubSeq(text, from, p - 1) \in Seq(UriChars)
<1>1. \A i \in from .. p - 1 : text[i] \in UriChars
  OBVIOUS
<1> QED BY <1>1, SubSeqProperties

\* Nothing is between a place and itself.
LEMMA NothingCut == \A p \in Nat : SubSeq(text, p, p - 1) = <<>>
BY SubSeqEmpty

\* What the actions of one character do, but for the end of an authority.
LEMMA Effects ==
    ASSUME uri \in Uris, mark \in Nat, NEW p \in Nat \ {0}, NEW to
    PROVE  LET part == SubSeq(text, mark, p - 1) IN
           /\ Effect(<<>>, p, to) => mark' = mark /\ uri' = uri /\ cs' = to
           /\ Effect(<<"mark">>, p, to) => mark' = p /\ uri' = uri /\ cs' = to
           /\ Effect(<<"userinfo">>, p, to) /\ mark # 0 =>
                 mark' = 0 /\ uri' = Saved(uri, "userinfo", part) /\ cs' = to
           /\ Effect(<<"mark", "userinfo">>, p, to) =>
                 mark' = 0 /\ uri' = Saved(uri, "userinfo", <<>>) /\ cs' = to
           /\ \A f \in {"scheme", "path", "query", "fragment"} : Effect(<<f>>, p, to) =>
                 /\ mark' = 0
                 /\ IF mark = 0 THEN uri' = uri /\ cs' = "thrown"
                                ELSE uri' = Saved(uri, f, part) /\ cs' = to
           /\ \A f \in {"query", "fragment"} : Effect(<<"mark", f>>, p, to) =>
                 mark' = 0 /\ uri' = Saved(uri, f, <<>>) /\ cs' = to
<1> DEFINE part == SubSeq(text, mark, p - 1)
<1>1. Begin \in Machines /\ Begin.mark = mark /\ Begin.uri = uri /\ Begin.ok
  BY DEF Begin, Machines
<1>2. PICK m : m = [mark |-> p, uri |-> uri, ok |-> TRUE]
  OBVIOUS
<1>3. m \in Machines /\ m.mark = p /\ m.uri = uri /\ m.ok /\ SubSeq(text, m.mark, p - 1) = <<>>
  BY <1>2, NothingCut DEF Machines
<1> HIDE DEF part
<1>4. Turn(Begin, "mark", p) = m
  <2>1. Act(Begin, "mark", p) = [mark |-> p, uri |-> Begin.uri, ok |-> Begin.ok]
    BY <1>1, Acts, Zenon
  <2> QED BY <1>1, <1>2, <2>1 DEF Turn
<1>5. ASSUME NEW acts, Len(acts) = 0 PROVE RunActions(acts, p) = Begin
  BY <1>5, UpToThree
<1>6. \A a : RunActions(<<a>>, p) = Turn(Begin, a, p)
  BY ShortRuns, Zenon
<1>7. \A a, b : RunActions(<<a, b>>, p) = Turn(Turn(Begin, a, p), b, p)
  BY ShortRuns, Zenon
<1>8. \A acts : Effect(acts, p, to) <=> /\ mark' = RunActions(acts, p).mark /\ uri' = RunActions(acts, p).uri
                                       /\ cs' = IF RunActions(acts, p).ok THEN to ELSE "thrown"
  BY DEF Effect
<1>9. Effect(<<>>, p, to) => mark' = mark /\ uri' = uri /\ cs' = to
  BY <1>1, <1>5, <1>8
<1>10. Effect(<<"mark">>, p, to) => mark' = p /\ uri' = uri /\ cs' = to
  BY <1>3, <1>4, <1>6, <1>8
<1>11. Effect(<<"userinfo">>, p, to) /\ mark # 0 =>
          mark' = 0 /\ uri' = Saved(uri, "userinfo", part) /\ cs' = to
  <2>1. mark # 0 => Turn(Begin, "userinfo", p) = [mark |-> 0, uri |-> Saved(uri, "userinfo", part), ok |-> TRUE]
    <3>1. Begin.mark # 0 => Act(Begin, "userinfo", p) =
             [mark |-> 0, uri |-> Saved(Begin.uri, "userinfo", SubSeq(text, Begin.mark, p - 1)), ok |-> Begin.ok]
      BY <1>1, Acts, Zenon
    <3> QED BY <1>1, <3>1 DEF Turn, part
  <2> QED BY <1>6, <1>8, <2>1
<1>12. Effect(<<"mark", "userinfo">>, p, to) => mark' = 0 /\ uri' = Saved(uri, "userinfo", <<>>) /\ cs' = to
  <2>1. Turn(m, "userinfo", p) = [mark |-> 0, uri |-> Saved(uri, "userinfo", <<>>), ok |-> TRUE]
    <3>1. m.mark # 0 => Act(m, "userinfo", p) =
             [mark |-> 0, uri |-> Saved(m.uri, "userinfo", SubSeq(text, m.mark, p - 1)), ok |-> m.ok]
      BY <1>3, Acts, Zenon
    <3> QED BY <1>3, <3>1 DEF Turn
  <2> QED BY <1>4, <1>7, <1>8, <2>1
<1>13. ASSUME NEW f \in {"scheme", "path", "query", "fragment"}, Effect(<<f>>, p, to)
       PROVE  /\ mark' = 0
              /\ IF mark = 0 THEN uri' = uri /\ cs' = "thrown"
                             ELSE uri' = Saved(uri, f, part) /\ cs' = to
  <2>1. Turn(Begin, f, p) = IF mark = 0 THEN [mark |-> 0, uri |-> uri, ok |-> FALSE]
                            ELSE [mark |-> 0, uri |-> Saved(uri, f, part), ok |-> TRUE]
    <3>1. /\ Begin.mark # 0 => Act(Begin, f, p) =
             [mark |-> 0, uri |-> Saved(Begin.uri, f, SubSeq(text, Begin.mark, p - 1)), ok |-> Begin.ok]
          /\ Begin.mark = 0 => Act(Begin, f, p) = [mark |-> 0, uri |-> Begin.uri, ok |-> FALSE]
      BY <1>1, Acts, ZenonT(30)
    <3> QED BY <1>1, <3>1 DEF Turn, part
  <2> QED BY <1>6, <1>8, <1>13, <2>1
<1>14. ASSUME NEW f \in {"query", "fragment"}, Effect(<<"mark", f>>, p, to)
       PROVE  mark' = 0 /\ uri' = Saved(uri, f, <<>>) /\ cs' = to
  <2>1. Turn(m, f, p) = [mark |-> 0, uri |-> Saved(uri, f, <<>>), ok |-> TRUE]
    <3>1. m.mark # 0 => Act(m, f, p) =
             [mark |-> 0, uri |-> Saved(m.uri, f, SubSeq(text, m.mark, p - 1)), ok |-> m.ok]
      <4>1. f \in {"scheme", "path", "query", "fragment"}
        OBVIOUS
      <4> QED BY <1>3, <4>1, Acts, Zenon
    <3> QED BY <1>3, <3>1 DEF Turn
  <2> QED BY <1>4, <1>7, <1>8, <1>14, <2>1
<1> QED BY <1>9, <1>10, <1>11, <1>12, <1>13, <1>14 DEF part

\* u with one part changed, told by its parts.
Only(u, v, field, part) == v \in Uris /\ v[field] = part /\ \A f \in UriFields \ {field} : v[f] = u[f]

\* That is what Saved does.
LEMMA OnlySaved ==
    ASSUME NEW u \in Uris, NEW v, NEW field \in UriFields, NEW part \in Seq(UriChars), v = Saved(u, field, part)
    PROVE  Only(u, v, field, part)
BY SavedIs, Zenon DEF Only

\* Saving what the mark points to, if it points anywhere.
LEMMA SaveEffect ==
    ASSUME uri \in Uris, mark \in Nat, NEW p \in Nat \ {0}, NEW to,
           NEW f \in {"scheme", "path", "query", "fragment"}, Effect(<<f>>, p, to),
           NEW part \in Seq(UriChars), mark # 0 => part = SubSeq(text, mark, p - 1)
    PROVE  /\ mark' = 0
           /\ mark = 0 => uri' = uri /\ cs' = "thrown"
           /\ mark # 0 => Only(uri, uri', f, part) /\ cs' = to
<1>1. /\ mark' = 0
      /\ IF mark = 0 THEN uri' = uri /\ cs' = "thrown"
                     ELSE uri' = Saved(uri, f, SubSeq(text, mark, p - 1)) /\ cs' = to
  BY Effects
<1>2. f \in UriFields
  BY DEF UriFields
<1>3. CASE mark # 0
  <2>1. uri' = Saved(uri, f, part)
    BY <1>1, <1>3
  <2>2. Only(uri, uri', f, part)
    BY <1>2, <2>1, OnlySaved, Zenon
  <2> QED BY <1>1, <1>3, <2>2
<1> QED BY <1>1, <1>3

\* Saving what is empty.
LEMMA EmptyEffect ==
    ASSUME uri \in Uris, mark \in Nat, NEW p \in Nat \ {0}, NEW to,
           NEW f \in {"userinfo", "query", "fragment"}, Effect(<<"mark", f>>, p, to)
    PROVE  mark' = 0 /\ Only(uri, uri', f, <<>>) /\ cs' = to
<1>1. mark' = 0 /\ uri' = Saved(uri, f, <<>>) /\ cs' = to
  <2>1. CASE f = "userinfo"
    BY <2>1, Effects
  <2>2. CASE f \in {"query", "fragment"}
    BY <2>2, Effects
  <2> QED BY <2>1, <2>2
<1>2. f \in UriFields /\ <<>> \in Seq(UriChars)
  BY DEF UriFields
<1> QED BY <1>1, <1>2, OnlySaved, Zenon

\* Saving the user information.
LEMMA UserEffect ==
    ASSUME uri \in Uris, mark \in Nat \ {0}, NEW p \in Nat \ {0}, NEW to, Effect(<<"userinfo">>, p, to),
           NEW part \in Seq(UriChars), part = SubSeq(text, mark, p - 1)
    PROVE  mark' = 0 /\ Only(uri, uri', "userinfo", part) /\ cs' = to
<1>1. mark' = 0 /\ uri' = Saved(uri, "userinfo", part) /\ cs' = to
  BY Effects
<1>2. "userinfo" \in UriFields
  BY DEF UriFields
<1> QED BY <1>1, <1>2, OnlySaved, Zenon

\* What leaving an authority saves.
LeftField(from) == IF from \in {"authority", "user", "name", "host"} THEN "host" ELSE "port"
LeftPart(from, p) == IF from \in {"name", "host", "number", "port"} THEN SubSeq(text, mark, p - 1) ELSE <<>>
LeftUri(from, p) ==
    IF LeftField(from) = "port" /\ LeftPart(from, p) = <<>> THEN uri
    ELSE Saved(uri, LeftField(from), LeftPart(from, p))

\* The actions at the end of an authority leave the mark at the path, but for an empty
\* port: then the path throws.
LEMMA Left ==
    ASSUME uri \in Uris, text \in Seq(UriChars), mark \in Nat, NEW p \in 1 .. Len(text) + 1,
           NEW from \in AuthorityEnds, from \in {"name", "host", "number", "port"} => mark # 0, NEW c, NEW to
    PROVE  LET saved == LeftUri(from, p) IN
           /\ saved \in Uris
           /\ Effect(LeaveAuthority(from), p, to) =>
                 /\ uri' = saved /\ cs' = to
                 /\ mark' = IF from \in {"authority", "user"} THEN p
                            ELSE IF from \in {"name", "host"} THEN mark ELSE 0
           /\ ~absolute => EndActions(from, c) = LeaveAuthority(from)
           /\ absolute /\ c = "/" /\ Effect(EndActions(from, c), p, to) =>
                 uri' = saved /\ cs' = to /\ mark' = IF from \in {"named", "hosted"} THEN 0 ELSE p
           /\ absolute /\ c # "/" /\ Effect(EndActions(from, c), p, to) =>
                 /\ mark' = 0
                 /\ IF from \in {"named", "hosted"} THEN uri' = saved /\ cs' = "thrown"
                    ELSE uri' = Saved(saved, "path", <<>>) /\ cs' = to
<1> DEFINE saved == LeftUri(from, p)
           part  == LeftPart(from, p)
           empty == from \in {"named", "hosted"}
<1>p. p \in Nat /\ p # 0
  OBVIOUS
<1>b. Begin \in Machines /\ Begin.mark = mark /\ Begin.uri = uri /\ Begin.ok
  BY DEF Begin, Machines
<1>e. \A acts : Effect(acts, p, to) <=> /\ mark' = RunActions(acts, p).mark /\ uri' = RunActions(acts, p).uri
                                       /\ cs' = IF RunActions(acts, p).ok THEN to ELSE "thrown"
  BY DEF Effect
<1>s. saved \in Uris
  <2>1. part \in Seq(UriChars)
    BY Cut DEF LeftPart
  <2>2. LeftField(from) \in UriFields
    BY DEF LeftField, UriFields
  <2> HIDE DEF part
  <2> QED BY <2>1, <2>2, SavedIs DEF LeftUri, part
<1>t. \A a, b : /\ Append(<<a>>, b) = <<a, b>> /\ <<a, b>> \o <<"path">> = <<a, b, "path">>
                /\ <<a, b>> \o <<>> = <<a, b>>
  BY Together, Zenon
<1> DEFINE M(at, u) == [mark |-> at, uri |-> u, ok |-> TRUE]
<1>m. ASSUME NEW at \in Nat, NEW u \in Uris
      PROVE  /\ M(at, u) \in Machines /\ Turn(M(at, u), "mark", p) = M(p, u)
             /\ at # 0 => Turn(M(at, u), "host", p) = M(at, Saved(u, "host", SubSeq(text, at, p - 1)))
             /\ SubSeq(text, at, p - 1) # <<>> =>
                   Turn(M(at, u), "port", p) = M(0, Saved(u, "port", SubSeq(text, at, p - 1)))
             /\ SubSeq(text, at, p - 1) = <<>> => Turn(M(at, u), "port", p) = M(0, u)
             /\ at # 0 => Turn(M(at, u), "path", p) = M(0, Saved(u, "path", SubSeq(text, at, p - 1)))
             /\ at = 0 => Turn(M(at, u), "path", p) = [mark |-> 0, uri |-> u, ok |-> FALSE]
  <2>1. PICK m : m = M(at, u)
    OBVIOUS
  <2>2. m \in Machines /\ m.mark = at /\ m.uri = u /\ m.ok
    BY <2>1 DEF Machines
  <2>3. \A a : Turn(m, a, p) = Act(m, a, p)
    BY <2>2 DEF Turn
  <2> HIDE DEF M
  <2>4. /\ Act(m, "mark", p) = [mark |-> p, uri |-> m.uri, ok |-> m.ok]
        /\ m.mark # 0 => Act(m, "host", p) =
              [mark |-> m.mark, uri |-> Saved(m.uri, "host", SubSeq(text, m.mark, p - 1)), ok |-> m.ok]
        /\ SubSeq(text, m.mark, p - 1) # <<>> => Act(m, "port", p) =
              [mark |-> 0, uri |-> Saved(m.uri, "port", SubSeq(text, m.mark, p - 1)), ok |-> m.ok]
        /\ SubSeq(text, m.mark, p - 1) = <<>> => Act(m, "port", p) = [mark |-> 0, uri |-> m.uri, ok |-> m.ok]
    BY <2>2, Acts, Zenon
  <2>5. /\ m.mark # 0 => Act(m, "path", p) =
              [mark |-> 0, uri |-> Saved(m.uri, "path", SubSeq(text, m.mark, p - 1)), ok |-> m.ok]
        /\ m.mark = 0 => Act(m, "path", p) = [mark |-> 0, uri |-> m.uri, ok |-> FALSE]
    <3>1. "path" \in {"scheme", "path", "query", "fragment"}
      OBVIOUS
    <3> QED BY <2>2, <3>1, Acts, Zenon
  <2> QED BY <2>1, <2>2, <2>3, <2>4, <2>5, ZenonT(40) DEF M
<1>0. Begin = M(mark, uri) /\ SubSeq(text, p, p - 1) = <<>>
  BY <1>p, NothingCut DEF Begin
<1> HIDE DEF M, saved, part, empty
\* the machine after the authority, with the mark as the path finds it, and after the path
<1>1. PICK at \in Nat : at = IF from \in {"authority", "user"} THEN p ELSE IF from \in {"name", "host"} THEN mark ELSE 0
  BY <1>p
<1>2. /\ RunActions(LeaveAuthority(from), p) = M(at, saved)
      /\ RunActions(StartPath(LeaveAuthority(from)), p) = M(IF empty THEN 0 ELSE p, saved)
      /\ RunActions(StartPath(LeaveAuthority(from)) \o <<"path">>, p) =
             IF empty THEN [mark |-> 0, uri |-> saved, ok |-> FALSE] ELSE M(0, Saved(saved, "path", <<>>))
      /\ StartPath(LeaveAuthority(from)) \o <<>> = StartPath(LeaveAuthority(from))
  <2>1. CASE from \in {"authority", "user"}
    <3>1. LeaveAuthority(from) = <<"mark", "host">>
      BY <2>1 DEF LeaveAuthority
    <3>2. StartPath(LeaveAuthority(from)) = <<"mark", "host">>
      BY <3>1 DEF StartPath
    <3>3. saved = Saved(uri, "host", <<>>) /\ ~empty /\ at = p
      BY <1>1, <2>1 DEF saved, LeftUri, LeftField, LeftPart, empty
    <3>4. Turn(Begin, "mark", p) = M(p, uri)
      BY <1>0, <1>m
    <3>5. Turn(M(p, uri), "host", p) = M(p, saved)
      BY <1>0, <1>m, <1>p, <3>3
    <3>6. Turn(M(p, saved), "path", p) = M(0, Saved(saved, "path", <<>>))
      BY <1>0, <1>m, <1>p, <1>s, ZenonT(40)
    <3>7. /\ RunActions(LeaveAuthority(from), p) = Turn(Turn(Begin, "mark", p), "host", p)
          /\ RunActions(StartPath(LeaveAuthority(from)), p) = Turn(Turn(Begin, "mark", p), "host", p)
      BY <3>1, <3>2, ShortRuns, Zenon
    <3>8. /\ StartPath(LeaveAuthority(from)) \o <<"path">> = <<"mark", "host", "path">>
          /\ StartPath(LeaveAuthority(from)) \o <<>> = StartPath(LeaveAuthority(from))
      BY <1>t, <3>2, Zenon
    <3>9. RunActions(StartPath(LeaveAuthority(from)) \o <<"path">>, p) =
             Turn(Turn(Turn(Begin, "mark", p), "host", p), "path", p)
      BY <3>8, ShortRuns, Zenon
    <3> QED BY <3>3, <3>4, <3>5, <3>6, <3>7, <3>8, <3>9
  <2>2. CASE from \in {"name", "host"}
    <3>1. LeaveAuthority(from) = <<"host">>
      BY <2>2 DEF LeaveAuthority
    <3>2. StartPath(LeaveAuthority(from)) = <<"host", "mark">>
      <4>1. Append(<<"host">>, "mark") = <<"host", "mark">>
        BY <1>t, Zenon
      <4> QED BY <3>1, <4>1 DEF StartPath
    <3>3. saved = Saved(uri, "host", SubSeq(text, mark, p - 1)) /\ ~empty /\ at = mark
      BY <1>1, <2>2 DEF saved, LeftUri, LeftField, LeftPart, empty
    <3>4. Turn(Begin, "host", p) = M(mark, saved)
      BY <1>0, <1>m, <2>2, <3>3
    <3>5. Turn(M(mark, saved), "mark", p) = M(p, saved)
      BY <1>m, <1>s
    <3>6. Turn(M(p, saved), "path", p) = M(0, Saved(saved, "path", <<>>))
      BY <1>0, <1>m, <1>p, <1>s, ZenonT(40)
    <3>7. /\ RunActions(LeaveAuthority(from), p) = Turn(Begin, "host", p)
          /\ RunActions(StartPath(LeaveAuthority(from)), p) = Turn(Turn(Begin, "host", p), "mark", p)
      BY <3>1, <3>2, ShortRuns, Zenon
    <3>8. /\ StartPath(LeaveAuthority(from)) \o <<"path">> = <<"host", "mark", "path">>
          /\ StartPath(LeaveAuthority(from)) \o <<>> = StartPath(LeaveAuthority(from))
      BY <1>t, <3>2, Zenon
    <3>9. RunActions(StartPath(LeaveAuthority(from)) \o <<"path">>, p) =
             Turn(Turn(Turn(Begin, "host", p), "mark", p), "path", p)
      BY <3>8, ShortRuns, Zenon
    <3> QED BY <3>3, <3>4, <3>5, <3>6, <3>7, <3>8, <3>9
  <2>3. CASE from \in {"named", "hosted"}
    <3>1. LeaveAuthority(from) = <<"mark", "port">>
      BY <2>3 DEF LeaveAuthority
    <3>2. StartPath(LeaveAuthority(from)) = <<"mark", "port">>
      BY <3>1 DEF StartPath
    <3>3. saved = uri /\ empty /\ at = 0
      BY <1>1, <2>3 DEF saved, LeftUri, LeftField, LeftPart, empty
    <3>4. Turn(Begin, "mark", p) = M(p, uri)
      BY <1>0, <1>m
    <3>5. Turn(M(p, uri), "port", p) = M(0, saved)
      BY <1>0, <1>m, <1>p, <3>3
    <3>6. Turn(M(0, saved), "path", p) = [mark |-> 0, uri |-> saved, ok |-> FALSE]
      BY <1>m, <1>s
    <3>7. /\ RunActions(LeaveAuthority(from), p) = Turn(Turn(Begin, "mark", p), "port", p)
          /\ RunActions(StartPath(LeaveAuthority(from)), p) = Turn(Turn(Begin, "mark", p), "port", p)
      BY <3>1, <3>2, ShortRuns, Zenon
    <3>8. /\ StartPath(LeaveAuthority(from)) \o <<"path">> = <<"mark", "port", "path">>
          /\ StartPath(LeaveAuthority(from)) \o <<>> = StartPath(LeaveAuthority(from))
      BY <1>t, <3>2, Zenon
    <3>9. RunActions(StartPath(LeaveAuthority(from)) \o <<"path">>, p) =
             Turn(Turn(Turn(Begin, "mark", p), "port", p), "path", p)
      BY <3>8, ShortRuns, Zenon
    <3> QED BY <3>3, <3>4, <3>5, <3>6, <3>7, <3>8, <3>9
  <2>4. CASE from \in {"number", "port"}
    <3>1. LeaveAuthority(from) = <<"port">>
      BY <2>4 DEF LeaveAuthority
    <3>2. StartPath(LeaveAuthority(from)) = <<"port", "mark">>
      <4>1. Append(<<"port">>, "mark") = <<"port", "mark">>
        BY <1>t, Zenon
      <4> QED BY <3>1, <4>1 DEF StartPath
    <3>3. /\ SubSeq(text, mark, p - 1) = <<>> => saved = uri
          /\ SubSeq(text, mark, p - 1) # <<>> => saved = Saved(uri, "port", SubSeq(text, mark, p - 1))
          /\ ~empty /\ at = 0
      BY <1>1, <2>4 DEF saved, LeftUri, LeftField, LeftPart, empty
    <3>4. Turn(Begin, "port", p) = M(0, saved)
      <4>1. CASE SubSeq(text, mark, p - 1) = <<>>
        BY <1>0, <1>m, <3>3, <4>1
      <4>2. CASE SubSeq(text, mark, p - 1) # <<>>
        BY <1>0, <1>m, <3>3, <4>2
      <4> QED BY <4>1, <4>2
    <3>5. Turn(M(0, saved), "mark", p) = M(p, saved)
      BY <1>m, <1>s
    <3>6. Turn(M(p, saved), "path", p) = M(0, Saved(saved, "path", <<>>))
      BY <1>0, <1>m, <1>p, <1>s, ZenonT(40)
    <3>7. /\ RunActions(LeaveAuthority(from), p) = Turn(Begin, "port", p)
          /\ RunActions(StartPath(LeaveAuthority(from)), p) = Turn(Turn(Begin, "port", p), "mark", p)
      BY <3>1, <3>2, ShortRuns, Zenon
    <3>8. /\ StartPath(LeaveAuthority(from)) \o <<"path">> = <<"port", "mark", "path">>
          /\ StartPath(LeaveAuthority(from)) \o <<>> = StartPath(LeaveAuthority(from))
      BY <1>t, <3>2, Zenon
    <3>9. RunActions(StartPath(LeaveAuthority(from)) \o <<"path">>, p) =
             Turn(Turn(Turn(Begin, "port", p), "mark", p), "path", p)
      BY <3>8, ShortRuns, Zenon
    <3> QED BY <3>3, <3>4, <3>5, <3>6, <3>7, <3>8, <3>9
  <2> QED BY <2>1, <2>2, <2>3, <2>4 DEF AuthorityEnds
<1>3. EndActions(from, c) = IF ~absolute THEN LeaveAuthority(from)
                            ELSE StartPath(LeaveAuthority(from)) \o (IF c = "/" THEN <<>> ELSE <<"path">>)
  BY DEF EndActions, AuthorityEnds
<1>4. \A i, u : M(i, u).mark = i /\ M(i, u).uri = u /\ M(i, u).ok
  BY DEF M
<1>5. Effect(LeaveAuthority(from), p, to) => uri' = saved /\ cs' = to /\ mark' = at
  BY <1>e, <1>2, <1>4
<1>6. absolute /\ c = "/" /\ Effect(EndActions(from, c), p, to) =>
         uri' = saved /\ cs' = to /\ mark' = IF empty THEN 0 ELSE p
  BY <1>e, <1>2, <1>3, <1>4
<1>7. absolute /\ c # "/" /\ Effect(EndActions(from, c), p, to) =>
         /\ mark' = 0
         /\ IF empty THEN uri' = saved /\ cs' = "thrown"
            ELSE uri' = Saved(saved, "path", <<>>) /\ cs' = to
  <2>1. CASE empty
    BY <1>e, <1>2, <1>3, <2>1
  <2>2. CASE ~empty
    BY <1>e, <1>2, <1>3, <1>4, <2>2
  <2> QED BY <2>1, <2>2
<1> QED BY <1>s, <1>1, <1>3, <1>5, <1>6, <1>7 DEF saved, empty

\* The actions of the characters.
LEMMA Taken ==
    /\ CharActions("scheme", ":", "colon") = <<"scheme">>
    /\ CharActions("start", "http", "scheme") = <<"mark">>
    /\ CharActions("start", "/", "slash") = <<>> /\ CharActions("colon", "/", "slash") = <<>>
    /\ CharActions("slash", "/", "authority") = <<>>
    /\ \A c \in HostChars : /\ CharActions("authority", c, "name") = <<"mark">>
                            /\ CharActions("name", c, "name") = <<>>
                            /\ CharActions("user", c, "host") = <<"mark">>
                            /\ CharActions("host", c, "host") = <<>>
    /\ \A from \in {"authority", "name"} : CharActions(from, ":", "named") = LeaveAuthority(from)
    /\ \A from \in {"user", "host"} : CharActions(from, ":", "hosted") = LeaveAuthority(from)
    /\ \A c \in DigitRuns : /\ CharActions("named", c, "number") = <<"mark">>
                            /\ CharActions("number", c, "number") = <<>>
                            /\ CharActions("hosted", c, "port") = <<"mark">>
                            /\ CharActions("port", c, "port") = <<>>
    /\ \A c \in UserChars, from \in {"named", "number", "password"} : CharActions(from, c, "password") = <<>>
    /\ CharActions("authority", "@", "user") = <<"mark", "userinfo">>
    /\ \A from \in {"name", "named", "number", "password"} : CharActions(from, "@", "user") = <<"userinfo">>
    /\ \A from \in AuthorityEnds, to \in {"saved", "path"} : CharActions(from, "/", to) = EndActions(from, "/")
    /\ \A from \in AuthorityEnds \cup {"saved", "path", "query", "querying"}, c \in {"?", "#"},
          to \in {"query", "fragment"} :
          CharActions(from, c, to) = EndActions(from, c)
    /\ \A from \in {"saved", "path"}, c \in PathChars : CharActions(from, c, from) = <<>>
    /\ \A c \in TailChars : /\ CharActions("query", c, "querying") = <<"mark">>
                            /\ CharActions("querying", c, "querying") = <<>>
                            /\ CharActions("fragment", c, "fragmenting") = <<"mark">>
                            /\ CharActions("fragmenting", c, "fragmenting") = <<>>
    /\ \A c : /\ EndActions("saved", c) = <<"path">> /\ EndActions("path", c) = <<>>
              /\ EndActions("query", c) = <<"mark", "query">> /\ EndActions("querying", c) = <<"query">>
              /\ EndActions("fragment", c) = <<"mark", "fragment">> /\ EndActions("fragmenting", c) = <<"fragment">>
<1> USE DEF CharActions, AuthorityEnds
<1>1. /\ CharActions("scheme", ":", "colon") = <<"scheme">>
      /\ CharActions("start", "http", "scheme") = <<"mark">>
      /\ CharActions("start", "/", "slash") = <<>> /\ CharActions("colon", "/", "slash") = <<>>
      /\ CharActions("slash", "/", "authority") = <<>>
  <2>1. CharActions("scheme", ":", "colon") = <<"scheme">>
    OBVIOUS
  <2>2. CharActions("start", "http", "scheme") = <<"mark">>
    OBVIOUS
  <2>3. CharActions("start", "/", "slash") = <<>>
    OBVIOUS
  <2>4. CharActions("colon", "/", "slash") = <<>>
    OBVIOUS
  <2>5. CharActions("slash", "/", "authority") = <<>>
    OBVIOUS
  <2> QED BY <2>1, <2>2, <2>3, <2>4, <2>5
<1>2. ASSUME NEW c \in HostChars
      PROVE  /\ CharActions("authority", c, "name") = <<"mark">> /\ CharActions("name", c, "name") = <<>>
             /\ CharActions("user", c, "host") = <<"mark">> /\ CharActions("host", c, "host") = <<>>
  BY DEF HostChars, LetterRuns, DigitRuns
<1>3. /\ \A from \in {"authority", "name"} : CharActions(from, ":", "named") = LeaveAuthority(from)
      /\ \A from \in {"user", "host"} : CharActions(from, ":", "hosted") = LeaveAuthority(from)
  OBVIOUS
<1>4. ASSUME NEW c \in DigitRuns
      PROVE  /\ CharActions("named", c, "number") = <<"mark">> /\ CharActions("number", c, "number") = <<>>
             /\ CharActions("hosted", c, "port") = <<"mark">> /\ CharActions("port", c, "port") = <<>>
  BY DEF DigitRuns
<1>5. ASSUME NEW c \in UserChars, NEW from \in {"named", "number", "password"}
      PROVE  CharActions(from, c, "password") = <<>>
  BY DEF UserChars, HostChars, LetterRuns, DigitRuns
<1>6. /\ CharActions("authority", "@", "user") = <<"mark", "userinfo">>
      /\ \A from \in {"name", "named", "number", "password"} : CharActions(from, "@", "user") = <<"userinfo">>
  OBVIOUS
<1>7. \A from \in AuthorityEnds, to \in {"saved", "path"} : CharActions(from, "/", to) = EndActions(from, "/")
  OBVIOUS
<1>8. ASSUME NEW from \in AuthorityEnds \cup {"saved", "path", "query", "querying"}, NEW c \in {"?", "#"},
             NEW to \in {"query", "fragment"}
      PROVE  CharActions(from, c, to) = EndActions(from, c)
  OBVIOUS
<1>9. ASSUME NEW from \in {"saved", "path"}, NEW c \in PathChars PROVE CharActions(from, c, from) = <<>>
  BY DEF PathChars, Pchar, UserChars, HostChars, LetterRuns, DigitRuns
<1>10. ASSUME NEW c \in TailChars
       PROVE  /\ CharActions("query", c, "querying") = <<"mark">> /\ CharActions("querying", c, "querying") = <<>>
              /\ CharActions("fragment", c, "fragmenting") = <<"mark">>
              /\ CharActions("fragmenting", c, "fragmenting") = <<>>
  OBVIOUS
<1>11. \A c : /\ EndActions("saved", c) = <<"path">> /\ EndActions("path", c) = <<>>
             /\ EndActions("query", c) = <<"mark", "query">> /\ EndActions("querying", c) = <<"query">>
             /\ EndActions("fragment", c) = <<"mark", "fragment">> /\ EndActions("fragmenting", c) = <<"fragment">>
  BY DEF EndActions
<1> HIDE DEF CharActions, AuthorityEnds
<1> QED
  BY <1>1, <1>2, <1>3, <1>4, <1>5, <1>6, <1>7, <1>8, <1>9, <1>10, <1>11, Zenon

-----------------------------------------------------------------------------
(* The steps.                                                              *)

\* One character.
LEMMA CharRead ==
    ASSUME UriTyped, UriChar, NEW to, UriTarget(cs, text[pos + 1]) = to, to # "error"
    PROVE  /\ Effect(CharActions(cs, text[pos + 1], to), pos + 1, to)
           /\ absolute' = (absolute \/ cs = "colon") /\ pos' = pos + 1 /\ parts' = parts /\ text' = text
           /\ IF cs = "colon" THEN absolute' ELSE absolute' = absolute
           /\ pos \in Nat /\ pos < Len(text) /\ pos + 1 \in 1 .. Len(text) + 1 /\ pos + 1 \in Nat \ {0}
<1>1. Effect(CharActions(cs, text[pos + 1], to), pos + 1, to)
  <2>1. UriTarget(cs, text[pos + 1]) # "error"
    OBVIOUS
  <2>2. Effect(IF UriTarget(cs, text[pos + 1]) = "error" THEN <<>>
               ELSE CharActions(cs, text[pos + 1], UriTarget(cs, text[pos + 1])), pos + 1,
               UriTarget(cs, text[pos + 1]))
    BY Zenon DEF UriChar
  <2> QED BY <2>1, <2>2, Zenon
<1>2. /\ absolute' = (absolute \/ cs = "colon") /\ pos' = pos + 1 /\ parts' = parts /\ text' = text
      /\ pos < Len(text)
  BY Zenon DEF UriChar
<1>3. pos \in Nat /\ Len(text) \in Nat
  <2>1. text \in Seq(UriChars)
    BY Chars DEF UriTyped
  <2> QED BY <2>1 DEF UriTyped
<1>4. IF cs = "colon" THEN absolute' ELSE absolute' = absolute
  <2>1. absolute \in BOOLEAN
    BY DEF UriTyped
  <2> QED BY <1>2, <2>1
<1> QED BY <1>1, <1>2, <1>3, <1>4

\* The types after a step that reads the same text.
LEMMA TypedNext ==
    ASSUME UriTyped, parts' = parts, text' = text, pos' \in 0 .. Len(text), mark' \in Nat, uri' \in Uris,
           absolute' \in BOOLEAN
    PROVE  UriTyped'
BY DEF UriTyped

\* The first character: of the scheme, or the first slash.
LEMMA StepBeforeScheme == UriTyped /\ BeforeScheme /\ UriChar => UriInv'
<1> SUFFICES ASSUME UriTyped, BeforeScheme, UriChar PROVE UriInv'
  OBVIOUS
<1>1. parts \in UriParts /\ text = TextOf(parts) /\ mark \in Nat /\ uri \in Uris /\ absolute \in BOOLEAN
  BY DEF UriTyped
<1>2. cs = "start" /\ pos = 0 /\ mark = 0 /\ uri = EmptyUri /\ ~absolute
  BY DEF BeforeScheme
<1>3. CASE HasScheme
  <2>1. text[pos + 1] = "http"
    BY <1>1, <1>2, <1>3, Chars DEF HasScheme
  <2>2. UriTarget(cs, text[pos + 1]) = "scheme"
    BY <1>2, <2>1, Moves DEF LetterRuns
  <2>3. /\ Effect(<<"mark">>, pos + 1, "scheme")
        /\ (IF cs = "colon" THEN absolute' ELSE absolute' = absolute) /\ pos' = pos + 1
        /\ parts' = parts /\ text' = text
        /\ pos \in Nat /\ pos < Len(text) /\ pos + 1 \in Nat \ {0}
    BY <1>2, <2>1, <2>2, CharRead, Taken
  <2>4. mark' = 1 /\ uri' = uri /\ cs' = "scheme"
    BY <1>1, <1>2, <2>3, Effects
  <2>5. UriTyped'
    BY <1>1, <1>2, <2>3, <2>4, TypedNext
  <2>6. InScheme'
    <3>1. pos' = 1 /\ ~absolute' /\ uri' = EmptyUri /\ parts'.scheme # NoPart
      BY <1>2, <1>3, <2>3, <2>4 DEF HasScheme
    <3> QED BY <2>4, <3>1 DEF InScheme, HasScheme
  <2> QED BY <2>5, <2>6 DEF UriInv
<1>4. CASE ~HasScheme
  <2>1. text[pos + 1] = "/" /\ UserAt(parts) = 2 /\ parts.scheme = NoPart
    BY <1>1, <1>2, <1>4, Chars, Places DEF HasScheme
  <2>2. UriTarget(cs, text[pos + 1]) = "slash"
    BY <1>2, <2>1, Moves
  <2>3. /\ Effect(<<>>, pos + 1, "slash")
        /\ (IF cs = "colon" THEN absolute' ELSE absolute' = absolute) /\ pos' = pos + 1
        /\ parts' = parts /\ text' = text
        /\ pos \in Nat /\ pos < Len(text) /\ pos + 1 \in Nat \ {0}
    BY <1>2, <2>1, <2>2, CharRead, Taken
  <2>4. mark' = 0 /\ uri' = uri /\ cs' = "slash"
    BY <1>1, <1>2, <2>3, Effects
  <2>5. UriTyped'
    BY <1>1, <1>2, <2>3, <2>4, TypedNext
  <2>6. AfterScheme'
    BY <1>2, <1>4, <2>1, <2>3, <2>4 DEF AfterScheme, HasScheme, EmptyUri, PartOf, UriFields
  <2> QED BY <2>5, <2>6 DEF UriInv
<1> QED BY <1>3, <1>4

\* The scheme's colon saves the scheme.
LEMMA StepInScheme == UriTyped /\ InScheme /\ UriChar => UriInv'
<1> SUFFICES ASSUME UriTyped, InScheme, UriChar PROVE UriInv'
  OBVIOUS
<1>1. parts \in UriParts /\ text = TextOf(parts) /\ mark \in Nat /\ uri \in Uris /\ absolute \in BOOLEAN
  BY DEF UriTyped
<1>2. cs = "scheme" /\ pos = 1 /\ mark = 1 /\ uri = EmptyUri /\ ~absolute /\ parts.scheme # NoPart
  BY DEF InScheme, HasScheme
<1>3. text[pos + 1] = ":" /\ SubSeq(text, mark, pos + 1 - 1) = parts.scheme
  BY <1>1, <1>2, Chars, Cuts
<1>4. UriTarget(cs, text[pos + 1]) = "colon"
  BY <1>2, <1>3, Moves
<1>5. /\ Effect(<<"scheme">>, pos + 1, "colon")
      /\ (IF cs = "colon" THEN absolute' ELSE absolute' = absolute) /\ pos' = pos + 1
      /\ parts' = parts /\ text' = text
      /\ pos \in Nat /\ pos < Len(text) /\ pos + 1 \in Nat \ {0}
  BY <1>2, <1>3, <1>4, CharRead, Taken
<1>6. parts.scheme \in Seq(UriChars)
  <2>1. parts.scheme = <<"http">> /\ "http" \in UriChars
    BY <1>1, <1>2, Parts, CharSets
  <2> QED BY <2>1
<1>7. mark' = 0 /\ Only(uri, uri', "scheme", parts.scheme) /\ cs' = "colon"
  <2>1. PICK p \in Nat \ {0} : p = pos + 1
    BY <1>5
  <2>2. PICK f \in {"scheme", "path", "query", "fragment"} : f = "scheme"
    OBVIOUS
  <2>3. Effect(<<f>>, p, "colon") /\ SubSeq(text, mark, p - 1) = parts.scheme
    BY <1>3, <1>5, <2>1, <2>2
  <2>4. mark' = 0 /\ (mark # 0 => Only(uri, uri', f, parts.scheme) /\ cs' = "colon")
    BY <1>1, <1>6, <2>3, SaveEffect, Zenon
  <2> QED BY <1>2, <2>2, <2>4
<1>8. /\ uri' \in Uris /\ uri'.scheme = parts.scheme
      /\ \A f \in UriFields \ {"scheme"} : uri'[f] = uri[f]
  BY <1>7 DEF Only
<1>9. UriTyped'
  BY <1>1, <1>2, <1>5, <1>7, <1>8, TypedNext
<1>10. AfterScheme'
  <2>1. \A f \in UriFields \ {"scheme"} : uri[f] = <<>>
    <3>1. \A f \in UriFields : uri[f] = <<>>
      BY <1>2 DEF EmptyUri, UriFields
    <3> QED BY <3>1
  <2> QED BY <1>2, <1>5, <1>7, <1>8, <2>1 DEF AfterScheme, HasScheme, PartOf
<1> QED BY <1>9, <1>10 DEF UriInv

\* The two slashes.
LEMMA StepAfterScheme == UriTyped /\ AfterScheme /\ UriChar => UriInv'
<1> SUFFICES ASSUME UriTyped, AfterScheme, UriChar PROVE UriInv'
  OBVIOUS
<1>1. parts \in UriParts /\ text = TextOf(parts) /\ mark \in Nat /\ uri \in Uris /\ absolute \in BOOLEAN
  BY DEF UriTyped
<1>2. /\ uri.scheme = PartOf(parts.scheme) /\ mark = 0
      /\ \A f \in UriFields \ {"scheme"} : uri[f] = <<>>
  BY DEF AfterScheme
<1>3. CASE cs = "colon" /\ pos = 2 /\ HasScheme /\ ~absolute
  <2>1. text[pos + 1] = "/" /\ UserAt(parts) = 4
    BY <1>1, <1>3, Chars, Places DEF HasScheme
  <2>2. UriTarget(cs, text[pos + 1]) = "slash"
    BY <1>3, <2>1, Moves
  <2>3. /\ Effect(<<>>, pos + 1, "slash")
        /\ (IF cs = "colon" THEN absolute' ELSE absolute' = absolute) /\ pos' = pos + 1
        /\ parts' = parts /\ text' = text
        /\ pos \in Nat /\ pos < Len(text) /\ pos + 1 \in Nat \ {0}
    BY <1>3, <2>1, <2>2, CharRead, Taken
  <2>4. mark' = 0 /\ uri' = uri /\ cs' = "slash"
    BY <1>1, <1>2, <2>3, Effects
  <2>5. UriTyped'
    BY <1>1, <1>3, <2>3, <2>4, TypedNext
  <2>6. AfterScheme'
    <3>1. pos' = UserAt(parts') - 1 /\ absolute' /\ HasScheme'
      BY <1>3, <2>1, <2>3 DEF HasScheme
    <3>2. uri'.scheme = PartOf(parts'.scheme) /\ \A f \in UriFields \ {"scheme"} : uri'[f] = <<>>
      BY <1>2, <2>3, <2>4
    <3> QED BY <2>4, <3>1, <3>2 DEF AfterScheme
  <2> QED BY <2>5, <2>6 DEF UriInv
<1>4. CASE cs = "slash" /\ pos = UserAt(parts) - 1 /\ (absolute <=> HasScheme)
  <2>1. UserAt(parts) \in Nat /\ pos + 1 = UserAt(parts)
    BY <1>1, <1>4, Places
  <2>2. text[pos + 1] = "/"
    BY <1>1, <2>1, Chars
  <2>3. UriTarget(cs, text[pos + 1]) = "authority"
    BY <1>4, <2>2, Moves
  <2>4. /\ Effect(<<>>, pos + 1, "authority")
        /\ (IF cs = "colon" THEN absolute' ELSE absolute' = absolute) /\ pos' = pos + 1
        /\ parts' = parts /\ text' = text
        /\ pos \in Nat /\ pos < Len(text) /\ pos + 1 \in Nat \ {0}
    BY <1>4, <2>2, <2>3, CharRead, Taken
  <2>5. mark' = 0 /\ uri' = uri /\ cs' = "authority" /\ (absolute' <=> HasScheme) /\ pos' = UserAt(parts)
    BY <1>1, <1>2, <1>4, <2>1, <2>4, Effects DEF HasScheme
  <2>6. UriTyped'
    <3>1. absolute' \in BOOLEAN
      BY <1>1, <1>4, <2>4
    <3> QED BY <1>1, <2>4, <2>5, <3>1, TypedNext
  <2>7. CASE HasUser
    <3>1. UserAt(parts) < HostAt(parts)
      BY <1>1, <2>7, Places DEF HasUser
    <3>2. InUser'
      BY <1>2, <2>1, <2>4, <2>5, <2>7, <3>1 DEF InUser, HasUser, HasScheme, UriFields
    <3> QED BY <2>6, <3>2 DEF UriInv
  <2>8. CASE ~HasUser
    <3>1. HostAt(parts) = UserAt(parts) /\ PartOf(parts.userinfo) = <<>>
      BY <1>1, <2>8, Places DEF HasUser, PartOf
    <3>2. UserSaved'
      <4>1. <<>> \in Seq(UserChars) /\ uri.userinfo = <<>>
        BY <1>2 DEF UriFields
      <4> QED BY <2>4, <2>5, <3>1, <4>1 DEF UserSaved
    <3>3. \A f \in {"port", "path", "query", "fragment"} : uri[f] = <<>>
      BY <1>2 DEF UriFields
    <3>4. InHost'
      BY <1>2, <2>4, <2>5, <2>8, <3>1, <3>2, <3>3 DEF InHost, HasUser, HasScheme, Early
    <3> QED BY <2>6, <3>4 DEF UriInv
  <2> QED BY <2>7, <2>8
<1> QED BY <1>3, <1>4 DEF AfterScheme

\* The places follow each other.
LEMMA Ordered ==
    ASSUME NEW q \in UriParts, NEW t, t = TextOf(q)
    PROVE  /\ UserAt(q) \in Nat /\ HostAt(q) \in Nat /\ HostEnd(q) \in Nat /\ PortEnd(q) \in Nat
           /\ PathEnd(q) \in Nat /\ QueryEnd(q) \in Nat /\ TextEnd(q) \in Nat
           /\ 2 <= UserAt(q) /\ UserAt(q) <= HostAt(q)
           /\ HostAt(q) <= HostEnd(q) /\ HostEnd(q) <= PortEnd(q) /\ PortEnd(q) <= PathEnd(q)
           /\ PathEnd(q) <= QueryEnd(q) /\ QueryEnd(q) <= TextEnd(q)
           /\ Len(t) = TextEnd(q) /\ t \in Seq(UriChars)
<1>1. /\ UserAt(q) \in Nat /\ HostAt(q) \in Nat /\ HostEnd(q) \in Nat /\ PortEnd(q) \in Nat
      /\ PathEnd(q) \in Nat /\ QueryEnd(q) \in Nat /\ TextEnd(q) \in Nat
      /\ HostAt(q) <= HostEnd(q) /\ PortEnd(q) <= PathEnd(q)
  BY Places
<1>2. 2 <= UserAt(q)
  BY Places
<1>3. UserAt(q) <= HostAt(q)
  BY <1>1, Places
<1>4. HostEnd(q) <= PortEnd(q)
  BY <1>1, Places
<1>5. PathEnd(q) <= QueryEnd(q)
  BY <1>1, Places
<1>6. QueryEnd(q) <= TextEnd(q)
  BY <1>1, Places
<1>7. Len(t) = TextEnd(q) /\ t \in Seq(UriChars)
  BY Chars
<1> QED BY <1>1, <1>2, <1>3, <1>4, <1>5, <1>6, <1>7

\* Leaving an authority saves one part, whatever the mark is then used for.
LEMMA Leaving ==
    ASSUME uri \in Uris, text \in Seq(UriChars), mark \in Nat, NEW p \in 1 .. Len(text) + 1,
           NEW from \in AuthorityEnds, NEW c, NEW to, NEW part \in Seq(UriChars),
           IF from \in {"name", "host", "number", "port"} THEN mark # 0 /\ part = SubSeq(text, mark, p - 1)
                                                          ELSE part = <<>>,
           uri.port = <<>>
    PROVE  \E saved \in Uris :
           /\ Only(uri, saved, LeftField(from), part)
           /\ Effect(LeaveAuthority(from), p, to) =>
                 /\ uri' = saved /\ cs' = to
                 /\ mark' = IF from \in {"authority", "user"} THEN p
                            ELSE IF from \in {"name", "host"} THEN mark ELSE 0
           /\ ~absolute => EndActions(from, c) = LeaveAuthority(from)
           /\ absolute /\ c = "/" /\ Effect(EndActions(from, c), p, to) =>
                 uri' = saved /\ cs' = to /\ mark' = IF from \in {"named", "hosted"} THEN 0 ELSE p
           /\ absolute /\ c # "/" /\ Effect(EndActions(from, c), p, to) =>
                 /\ mark' = 0
                 /\ IF from \in {"named", "hosted"} THEN uri' = saved /\ cs' = "thrown"
                    ELSE Only(saved, uri', "path", <<>>) /\ cs' = to
<1>1. PICK saved : saved = LeftUri(from, p)
  OBVIOUS
<1>2. from \in {"name", "host", "number", "port"} => mark # 0
  OBVIOUS
<1>3. /\ saved \in Uris
      /\ Effect(LeaveAuthority(from), p, to) =>
            /\ uri' = saved /\ cs' = to
            /\ mark' = IF from \in {"authority", "user"} THEN p
                       ELSE IF from \in {"name", "host"} THEN mark ELSE 0
      /\ ~absolute => EndActions(from, c) = LeaveAuthority(from)
      /\ absolute /\ c = "/" /\ Effect(EndActions(from, c), p, to) =>
            uri' = saved /\ cs' = to /\ mark' = IF from \in {"named", "hosted"} THEN 0 ELSE p
      /\ absolute /\ c # "/" /\ Effect(EndActions(from, c), p, to) =>
            /\ mark' = 0
            /\ IF from \in {"named", "hosted"} THEN uri' = saved /\ cs' = "thrown"
               ELSE uri' = Saved(saved, "path", <<>>) /\ cs' = to
  BY <1>1, <1>2, Left
<1>4. LeftPart(from, p) = part
  BY DEF LeftPart
<1>5. LeftField(from) \in UriFields
  BY DEF LeftField, UriFields
<1>6. Only(uri, saved, LeftField(from), part)
  <2>1. CASE LeftField(from) = "port" /\ part = <<>>
    <3>1. saved = uri
      BY <1>1, <1>4, <2>1 DEF LeftUri
    <3> QED BY <2>1, <3>1 DEF Only
  <2>2. CASE ~(LeftField(from) = "port" /\ part = <<>>)
    <3>1. saved = Saved(uri, LeftField(from), part)
      BY <1>1, <1>4, <2>2 DEF LeftUri
    <3> QED BY <1>5, <3>1, OnlySaved, Zenon
  <2> QED BY <2>1, <2>2
<1>7. ASSUME NEW v, v = Saved(saved, "path", <<>>) PROVE Only(saved, v, "path", <<>>)
  <2>1. "path" \in UriFields /\ <<>> \in Seq(UriChars)
    BY DEF UriFields
  <2> QED BY <1>3, <1>7, <2>1, OnlySaved, Zenon
<1> QED BY <1>3, <1>6, <1>7

\* Leaving it at a colon.
LEMMA Leaves ==
    ASSUME uri \in Uris, text \in Seq(UriChars), mark \in Nat, NEW p \in 1 .. Len(text) + 1,
           NEW from \in AuthorityEnds, NEW to, NEW part \in Seq(UriChars),
           IF from \in {"name", "host", "number", "port"} THEN mark # 0 /\ part = SubSeq(text, mark, p - 1)
                                                          ELSE part = <<>>,
           uri.port = <<>>
    PROVE  \E saved \in Uris :
           /\ Only(uri, saved, LeftField(from), part)
           /\ Effect(LeaveAuthority(from), p, to) =>
                 /\ uri' = saved /\ cs' = to
                 /\ mark' = IF from \in {"authority", "user"} THEN p
                            ELSE IF from \in {"name", "host"} THEN mark ELSE 0
<1>1. PICK c : c = ":"
  OBVIOUS
<1>2. PICK saved \in Uris :
        /\ Only(uri, saved, LeftField(from), part)
        /\ Effect(LeaveAuthority(from), p, to) =>
              /\ uri' = saved /\ cs' = to
              /\ mark' = IF from \in {"authority", "user"} THEN p
                         ELSE IF from \in {"name", "host"} THEN mark ELSE 0
        /\ ~absolute => EndActions(from, c) = LeaveAuthority(from)
  BY Leaving
<1> QED BY <1>2

\* Inside the user information.
LEMMA StepInUser == UriTyped /\ InUser /\ UriChar => UriInv'
<1> SUFFICES ASSUME UriTyped, InUser, UriChar PROVE UriInv'
  OBVIOUS
<1> DEFINE from == UserAt(parts)
           at   == HostAt(parts)
           c    == text[pos + 1]
           digits == DigitsAfterColon(parts.userinfo)
<1>1. parts \in UriParts /\ text = TextOf(parts) /\ mark \in Nat /\ uri \in Uris /\ absolute \in BOOLEAN
  BY DEF UriTyped
<1>2. /\ parts.userinfo # NoPart /\ (absolute <=> HasScheme) /\ uri.scheme = PartOf(parts.scheme)
      /\ \A f \in {"userinfo", "port", "path", "query", "fragment"} : uri[f] = <<>>
      /\ from <= pos /\ pos < at
      /\ cs \in {"authority", "name", "named", "number", "password"}
      /\ cs = "authority" <=> pos = from
      /\ cs = "named" => text[pos] = ":"
      /\ cs # "authority" => from < mark /\ mark <= pos /\ (~digits => mark = from + 1)
  BY DEF InUser, HasUser
<1>3. from \in Nat /\ at \in Nat /\ at <= Len(text) /\ Len(text) \in Nat /\ text \in Seq(UriChars)
  BY <1>1, Ordered
<1>4. pos \in Nat /\ pos + 1 \in Nat \ {0} /\ pos + 1 \in 1 .. Len(text) + 1
  BY <1>2, <1>3 DEF UriTyped
<1>5. CASE pos + 1 < at
  <2>1. c \in UserChars
    <3>1. pos + 1 \in from + 1 .. at - 1
      BY <1>2, <1>3, <1>4, <1>5
    <3> QED BY <1>1, <1>2, <3>1, Chars
  \* what the next state keeps
  <2> DEFINE Read ==
        /\ cs' \in {"name", "named", "number", "password"} /\ (cs' = "named" => c = ":")
        /\ from < mark' /\ mark' <= pos + 1 /\ mark' \in Nat /\ (~digits => mark' = from + 1)
        /\ uri' \in Uris /\ \A f \in UriFields \ {"host"} : uri'[f] = uri[f]
  <2>2. ASSUME NEW to, UriTarget(cs, c) = to, to # "error"
        PROVE  /\ Effect(CharActions(cs, c, to), pos + 1, to) /\ absolute' = absolute /\ pos' = pos + 1
               /\ parts' = parts /\ text' = text
    BY <1>2, <2>2, CharRead
  <2> HIDE DEF c, digits, from, at
  <2>3. Effect(<<"mark">>, pos + 1, cs') => mark' = pos + 1 /\ uri' = uri
    BY <1>1, <1>4, Effects
  <2>4. ASSUME NEW to, Effect(<<"mark">>, pos + 1, to) PROVE mark' = pos + 1 /\ uri' = uri /\ cs' = to
    BY <1>1, <1>4, <2>4, Effects
  <2>5. ASSUME NEW to, Effect(<<>>, pos + 1, to) PROVE mark' = mark /\ uri' = uri /\ cs' = to
    BY <1>1, <1>4, <2>5, Effects
  <2>6. ASSUME cs \in {"authority", "name"}, c \in HostChars PROVE Read
    <3>1. UriTarget(cs, c) = "name"
      BY <2>6, Moves
    <3>2. CASE cs = "authority"
      <4>1. Effect(<<"mark">>, pos + 1, "name")
        BY <2>2, <2>6, <3>1, <3>2, Taken
      <4>2. mark' = pos + 1 /\ uri' = uri /\ cs' = "name"
        BY <2>4, <4>1
      <4> QED BY <1>1, <1>2, <1>3, <1>4, <3>2, <4>2
    <3>3. CASE cs = "name"
      <4>1. Effect(<<>>, pos + 1, "name")
        BY <2>2, <2>6, <3>1, <3>3, Taken
      <4>2. mark' = mark /\ uri' = uri /\ cs' = "name"
        BY <2>5, <4>1
      <4> QED BY <1>1, <1>2, <1>3, <1>4, <3>3, <4>2
    <3> QED BY <2>6, <3>2, <3>3
  <2>7. ASSUME cs \in {"authority", "name"}, c = ":" PROVE Read
    <3>1. UriTarget(cs, c) = "named"
      BY <2>7, Moves
    <3>2. Effect(LeaveAuthority(cs), pos + 1, "named")
      BY <2>2, <2>7, <3>1, Taken
    <3>3. PICK p \in 1 .. Len(text) + 1 : p = pos + 1
      BY <1>4
    <3>4. PICK part \in Seq(UriChars) : IF cs = "name" THEN part = SubSeq(text, mark, p - 1) ELSE part = <<>>
      <4>1. CASE cs = "name"
        <5>1. mark \in Nat \ {0}
          BY <1>1, <1>2, <1>3, <4>1
        <5>2. SubSeq(text, mark, p - 1) \in Seq(UriChars)
          BY <1>3, <5>1, Cut
        <5> QED BY <4>1, <5>2
      <4>2. CASE cs # "name"
        <5>1. <<>> \in Seq(UriChars)
          OBVIOUS
        <5> QED BY <4>2, <5>1
      <4> QED BY <4>1, <4>2
    <3>5. cs \in AuthorityEnds /\ uri.port = <<>> /\ LeftField(cs) = "host"
      BY <1>2, <2>7 DEF AuthorityEnds, LeftField
    <3>6. IF cs \in {"name", "host", "number", "port"} THEN mark # 0 /\ part = SubSeq(text, mark, p - 1)
                                                       ELSE part = <<>>
      BY <1>1, <1>2, <1>3, <2>7, <3>4
    <3>7. PICK saved \in Uris :
            /\ Only(uri, saved, "host", part)
            /\ Effect(LeaveAuthority(cs), p, "named") =>
                  /\ uri' = saved /\ cs' = "named"
                  /\ mark' = IF cs \in {"authority", "user"} THEN p
                             ELSE IF cs \in {"name", "host"} THEN mark ELSE 0
      <4>1. PICK to : to = "named"
        OBVIOUS
      <4>2. \E saved \in Uris :
              /\ Only(uri, saved, LeftField(cs), part)
              /\ Effect(LeaveAuthority(cs), p, to) =>
                    /\ uri' = saved /\ cs' = to
                    /\ mark' = IF cs \in {"authority", "user"} THEN p
                               ELSE IF cs \in {"name", "host"} THEN mark ELSE 0
        BY <1>1, <1>3, <3>5, <3>6, Leaves
      <4> QED BY <3>5, <4>1, <4>2
    <3>8. uri' = saved /\ cs' = "named" /\ mark' = IF cs = "authority" THEN pos + 1 ELSE mark
      BY <2>7, <3>2, <3>3, <3>7
    <3>9. uri' \in Uris /\ \A f \in UriFields \ {"host"} : uri'[f] = uri[f]
      BY <3>7, <3>8 DEF Only
    <3> QED BY <1>1, <1>2, <1>3, <1>4, <2>7, <3>8, <3>9
  <2>8. ASSUME cs \in {"named", "number"}, c \in DigitRuns PROVE Read
    <3>1. UriTarget(cs, c) = "number"
      BY <2>8, Moves
    <3>2. CASE cs = "named"
      <4>1. Effect(<<"mark">>, pos + 1, "number")
        BY <2>2, <2>8, <3>1, <3>2, Taken
      <4>2. mark' = pos + 1 /\ uri' = uri /\ cs' = "number"
        BY <2>4, <4>1
      <4>3. digits
        <5>1. pos \in from + 1 .. at - 2 /\ text[pos] = ":"
          BY <1>2, <1>3, <1>4, <1>5, <3>2
        <5>2. text[pos + 1] \in DigitRuns
          BY <2>8 DEF c
        <5> QED BY <1>1, <1>2, <5>1, <5>2, UserPieces DEF digits, from, at
      <4> QED BY <1>1, <1>2, <1>3, <1>4, <3>2, <4>2, <4>3
    <3>3. CASE cs = "number"
      <4>1. Effect(<<>>, pos + 1, "number")
        BY <2>2, <2>8, <3>1, <3>3, Taken
      <4>2. mark' = mark /\ uri' = uri /\ cs' = "number"
        BY <2>5, <4>1
      <4> QED BY <1>1, <1>2, <1>3, <1>4, <3>3, <4>2
    <3> QED BY <2>8, <3>2, <3>3
  <2>9. ASSUME \/ cs \in {"named", "number"} /\ c \in LetterRuns \cup {":"}
               \/ cs = "password"
        PROVE  Read
    <3>1. UriTarget(cs, c) = "password"
      BY <2>1, <2>9, Moves
    <3>2. Effect(<<>>, pos + 1, "password")
      BY <2>1, <2>2, <2>9, <3>1, Taken
    <3>3. mark' = mark /\ uri' = uri /\ cs' = "password"
      BY <2>5, <3>2
    <3> QED BY <1>1, <1>2, <1>3, <1>4, <2>9, <3>3
  <2>10. Read
    <3>1. c \in HostChars \/ c = ":"
      BY <2>1 DEF UserChars
    <3>2. c \in DigitRuns \/ c \in LetterRuns \cup {":"}
      BY <3>1 DEF HostChars
    <3> QED BY <1>2, <2>6, <2>7, <2>8, <2>9, <3>1, <3>2
  <2>11. absolute' = absolute /\ pos' = pos + 1 /\ parts' = parts /\ text' = text
    BY Zenon, <1>2, <1>1 DEF UriChar
  <2>12. UriTyped'
    BY <1>1, <1>3, <1>4, <1>5, <2>10, <2>11, TypedNext
  <2>13. InUser'
    <3>1. pos' \in Nat /\ from < pos' /\ pos' < at /\ cs' # "authority"
      BY <1>2, <1>3, <1>4, <1>5, <2>10, <2>11
    <3>2. /\ uri'.scheme = uri.scheme
          /\ \A f \in {"userinfo", "port", "path", "query", "fragment"} : uri'[f] = <<>>
      BY <1>2, <2>10 DEF UriFields
    <3>3. cs' = "named" => text'[pos'] = ":"
      BY <2>10, <2>11 DEF c
    <3>4. HasUser' /\ (absolute' <=> HasScheme')
      BY <1>2, <2>11 DEF HasUser, HasScheme
    <3> QED BY <1>2, <1>3, <2>10, <2>11, <3>1, <3>2, <3>3, <3>4 DEF InUser, from, at, digits
  <2> QED BY <2>12, <2>13 DEF UriInv
<1>6. CASE pos + 1 = at
  <2>1. c = "@"
    BY <1>1, <1>2, <1>6, Chars
  <2>2. UriTarget(cs, c) = "user"
    BY <1>2, <2>1, Moves
  <2>3. /\ Effect(CharActions(cs, "@", "user"), pos + 1, "user") /\ absolute' = absolute /\ pos' = pos + 1
        /\ parts' = parts /\ text' = text
    BY <1>2, <2>1, <2>2, CharRead
  <2>4. SubSeq(text, from + 1, at - 1) = parts.userinfo
    BY <1>1, <1>2, Cuts
  <2> HIDE DEF c, digits, from, at
  <2>5. PICK part \in Seq(UriChars) : /\ Only(uri, uri', "userinfo", part) /\ mark' = 0 /\ cs' = "user"
                                      /\ part \in Seq(UserChars) /\ (~digits => part = parts.userinfo)
    <3>1. CASE cs = "authority"
      <4>1. Effect(<<"mark", "userinfo">>, pos + 1, "user")
        BY <2>3, <3>1, Taken
      <4>2. mark' = 0 /\ Only(uri, uri', "userinfo", <<>>) /\ cs' = "user"
        BY <1>1, <1>4, <4>1, EmptyEffect
      <4>3. SubSeq(text, from + 1, at - 1) = <<>>
        <5>1. at - 1 = from + 1 - 1 /\ from + 1 \in Nat
          BY <1>2, <1>3, <1>6, <3>1
        <5>2. PICK b \in Nat : b = from + 1
          BY <5>1
        <5>3. SubSeq(text, b, b - 1) = <<>>
          BY NothingCut
        <5>4. b - 1 = at - 1
          BY <1>3, <5>1, <5>2
        <5> QED BY <5>2, <5>3, <5>4, Zenon
      <4>4. <<>> \in Seq(UriChars) /\ <<>> \in Seq(UserChars)
        OBVIOUS
      <4> QED BY <2>4, <4>2, <4>3, <4>4
    <3>2. CASE cs # "authority"
      <4>1. Effect(<<"userinfo">>, pos + 1, "user")
        BY <1>2, <2>3, <3>2, Taken
      <4>2. mark \in Nat \ {0} /\ mark \in from + 1 .. at - 1
        <5>1. from < mark /\ mark <= pos /\ pos = at - 1 /\ mark \in Nat
          BY <1>1, <1>2, <1>3, <1>4, <1>6, <3>2
        <5> QED BY <1>3, <1>4, <5>1
      <4>3. PICK part : part = SubSeq(text, mark, at - 1)
        OBVIOUS
      <4>4. part \in Seq(UserChars)
        BY <1>1, <1>2, <4>2, <4>3, UserPieces DEF from, at
      <4>5. part \in Seq(UriChars)
        BY <1>3, <1>4, <1>6, <4>2, <4>3, Cut
      <4>6. PICK p \in Nat \ {0} : p = pos + 1
        BY <1>4
      <4>7. mark' = 0 /\ Only(uri, uri', "userinfo", part) /\ cs' = "user"
        <5>1. part = SubSeq(text, mark, p - 1) /\ Effect(<<"userinfo">>, p, "user")
          BY <1>6, <4>1, <4>3, <4>6
        <5> QED BY <1>1, <4>2, <4>5, <5>1, UserEffect
      <4>8. ~digits => part = parts.userinfo
        BY <1>2, <2>4, <3>2, <4>3
      <4> QED BY <4>4, <4>5, <4>7, <4>8
    <3> QED BY <3>1, <3>2
  <2>6. uri' \in Uris /\ uri'.userinfo = part /\ \A f \in UriFields \ {"userinfo"} : uri'[f] = uri[f]
    BY <2>5 DEF Only
  <2>7. UriTyped'
    BY <1>1, <1>3, <1>4, <1>6, <2>3, <2>5, <2>6, TypedNext
  <2>8. InHost'
    <3>1. UserSaved'
      BY <1>2, <2>3, <2>5, <2>6 DEF UserSaved, PartOf, digits
    <3>2. uri'.scheme = uri.scheme /\ \A f \in {"port", "path", "query", "fragment"} : uri'[f] = <<>>
      BY <1>2, <2>6 DEF UriFields
    <3>3. Early("authority", "user")' /\ pos' = HostAt(parts')
      BY <1>2, <1>6, <2>3, <2>5 DEF Early, HasUser, at
    <3>4. absolute' <=> HasScheme'
      BY <1>2, <2>3 DEF HasScheme
    <3> QED BY <1>2, <2>3, <3>1, <3>2, <3>3, <3>4 DEF InHost
  <2> QED BY <2>7, <2>8 DEF UriInv
<1> QED BY <1>2, <1>3, <1>4, <1>5, <1>6

\* What is saved when the authority has been left.
EndedAuthority ==
    /\ uri' \in Uris /\ mark' \in Nat
    /\ uri'.scheme = uri.scheme /\ uri'.userinfo = uri.userinfo
    /\ uri'.host = parts.host /\ uri'.port = PartOf(parts.port)
    /\ \A f \in {"path", "query", "fragment"} : uri'[f] = <<>>

\* The host and the port are read when their last character is, and saved at what follows.  An
\* empty port after a scheme throws, but for a slash: then the end of the path will.
LEMMA AuthorityEnded ==
    ASSUME UriTyped, InHost, pos = PortEnd(parts), NEW c, NEW to, Effect(EndActions(cs, c), pos + 1, to)
    PROVE  /\ EndedAuthority /\ cs \in AuthorityEnds
           /\ cs' = IF HasScheme /\ c # "/" /\ parts.port = <<>> THEN "thrown" ELSE to
           /\ HasScheme /\ c = "/" => mark' = IF parts.port = <<>> THEN 0 ELSE pos + 1
<1> DEFINE part == IF HasPort THEN parts.port ELSE parts.host
<1>1. parts \in UriParts /\ text = TextOf(parts) /\ mark \in Nat /\ uri \in Uris /\ absolute \in BOOLEAN
  BY DEF UriTyped
<1>2. /\ (absolute <=> HasScheme) /\ uri.port = <<>>
      /\ \A f \in {"path", "query", "fragment"} : uri[f] = <<>>
  BY DEF InHost
<1>3. /\ HostAt(parts) \in Nat /\ HostEnd(parts) \in Nat /\ PortEnd(parts) \in Nat
      /\ HostAt(parts) <= HostEnd(parts) /\ HostEnd(parts) <= PortEnd(parts) /\ PortEnd(parts) <= Len(text)
      /\ Len(text) \in Nat /\ text \in Seq(UriChars)
  BY <1>1, Ordered
<1>4. /\ parts.port = NoPart => PortEnd(parts) = HostEnd(parts)
      /\ parts.port # NoPart => HostEnd(parts) < PortEnd(parts)
      /\ parts.port # NoPart => (parts.port = <<>> <=> PortEnd(parts) = HostEnd(parts) + 1)
      /\ parts.host = <<>> <=> HostEnd(parts) = HostAt(parts)
  BY <1>1, Places
<1>5. /\ parts.port # NoPart => parts.port \in Seq(UriChars)
      /\ parts.host \in Seq(UriChars)
  BY <1>1, Parts
<1>6. /\ SubSeq(text, HostAt(parts) + 1, HostEnd(parts)) = parts.host
      /\ parts.port # NoPart => SubSeq(text, HostEnd(parts) + 2, PortEnd(parts)) = parts.port
  BY <1>1, Cuts
<1>7. NoPart # <<>>
  <2>1. <<>> \in Seq(UriChars)
    OBVIOUS
  <2> QED BY <2>1, UriAssumption
<1>8. /\ part \in Seq(UriChars) /\ cs \in AuthorityEnds /\ LeftField(cs) = IF HasPort THEN "port" ELSE "host"
      /\ (cs \in {"named", "hosted"} <=> parts.port = <<>>)
      /\ IF cs \in {"name", "host", "number", "port"} THEN mark # 0 /\ part = SubSeq(text, mark, pos)
                                                      ELSE part = <<>>
      /\ HasPort => uri.host = parts.host
  <2>1. CASE Early("authority", "user") /\ pos = HostAt(parts)
    <3>1. ~HasPort /\ parts.host = <<>> /\ cs \in {"authority", "user"}
      BY <1>3, <1>4, <2>1 DEF HasPort, Early
    <3> QED BY <1>5, <1>7, <3>1 DEF HasPort, LeftField, AuthorityEnds
  <2>2. CASE /\ Early("name", "host") /\ HostAt(parts) < pos /\ pos <= HostEnd(parts)
             /\ mark = HostAt(parts) + 1
    <3>1. ~HasPort /\ cs \in {"name", "host"} /\ pos = HostEnd(parts) /\ mark # 0
      BY <1>3, <1>4, <2>2 DEF HasPort, Early
    <3>2. parts.host = SubSeq(text, mark, pos)
      BY <1>6, <2>2, <3>1
    <3> QED BY <1>5, <1>7, <3>1, <3>2 DEF HasPort, LeftField, AuthorityEnds
  <2>3. CASE /\ Early("named", "hosted") /\ pos = HostEnd(parts) + 1
             /\ HasPort /\ uri.host = parts.host
    <3>1. HasPort /\ parts.port = <<>> /\ cs \in {"named", "hosted"}
      BY <1>4, <2>3 DEF HasPort, Early
    <3> QED BY <1>5, <2>3, <3>1 DEF HasPort, LeftField, AuthorityEnds
  <2>4. CASE /\ Early("number", "port") /\ HostEnd(parts) + 1 < pos /\ pos <= PortEnd(parts)
             /\ mark = HostEnd(parts) + 2
             /\ HasPort /\ uri.host = parts.host
    <3>1. HasPort /\ parts.port # <<>> /\ cs \in {"number", "port"} /\ mark # 0
      BY <1>3, <1>4, <2>4 DEF HasPort, Early
    <3>2. parts.port = SubSeq(text, mark, pos)
      BY <1>6, <2>4 DEF HasPort
    <3> QED BY <1>5, <2>4, <3>1, <3>2 DEF HasPort, LeftField, AuthorityEnds
  <2> QED BY <2>1, <2>2, <2>3, <2>4 DEF InHost
<1> HIDE DEF part
<1>9. PICK p \in 1 .. Len(text) + 1 : p = pos + 1 /\ p - 1 = pos
  BY <1>3
<1>10. PICK saved \in Uris :
           /\ Only(uri, saved, LeftField(cs), part)
           /\ Effect(LeaveAuthority(cs), p, to) =>
                 /\ uri' = saved /\ cs' = to
                 /\ mark' = IF cs \in {"authority", "user"} THEN p
                            ELSE IF cs \in {"name", "host"} THEN mark ELSE 0
           /\ ~absolute => EndActions(cs, c) = LeaveAuthority(cs)
           /\ absolute /\ c = "/" /\ Effect(EndActions(cs, c), p, to) =>
                 uri' = saved /\ cs' = to /\ mark' = IF cs \in {"named", "hosted"} THEN 0 ELSE p
           /\ absolute /\ c # "/" /\ Effect(EndActions(cs, c), p, to) =>
                 /\ mark' = 0
                 /\ IF cs \in {"named", "hosted"} THEN uri' = saved /\ cs' = "thrown"
                    ELSE Only(saved, uri', "path", <<>>) /\ cs' = to
  <2>1. IF cs \in {"name", "host", "number", "port"} THEN mark # 0 /\ part = SubSeq(text, mark, p - 1)
                                                     ELSE part = <<>>
    BY <1>8, <1>9
  <2> QED BY <1>1, <1>2, <1>3, <1>8, <2>1, Leaving
<1>11. /\ saved.scheme = uri.scheme /\ saved.userinfo = uri.userinfo
       /\ saved.host = parts.host /\ saved.port = PartOf(parts.port)
       /\ \A f \in {"path", "query", "fragment"} : saved[f] = <<>>
  <2>1. CASE HasPort
    BY <1>2, <1>8, <1>10, <2>1 DEF Only, UriFields, PartOf, HasPort, part
  <2>2. CASE ~HasPort
    BY <1>2, <1>8, <1>10, <2>2 DEF Only, UriFields, PartOf, HasPort, part
  <2> QED BY <2>1, <2>2
<1>12. Effect(EndActions(cs, c), p, to)
  BY <1>9
<1>13. CASE ~absolute
  <2>1. uri' = saved /\ cs' = to /\ mark' \in Nat
    BY <1>1, <1>10, <1>12, <1>13
  <2> QED BY <1>2, <1>8, <1>11, <1>13, <2>1 DEF EndedAuthority
<1>14. CASE absolute /\ c = "/"
  <2>1. uri' = saved /\ cs' = to /\ mark' \in Nat /\ mark' = IF parts.port = <<>> THEN 0 ELSE pos + 1
    BY <1>8, <1>9, <1>10, <1>12, <1>14
  <2> QED BY <1>2, <1>8, <1>11, <1>14, <2>1 DEF EndedAuthority
<1>15. CASE absolute /\ c # "/"
  <2>1. CASE cs \in {"named", "hosted"}
    <3>1. uri' = saved /\ cs' = "thrown" /\ mark' = 0
      BY <1>10, <1>12, <1>15, <2>1
    <3> QED BY <1>2, <1>8, <1>11, <1>15, <2>1, <3>1 DEF EndedAuthority
  <2>2. CASE cs \notin {"named", "hosted"}
    <3>1. Only(saved, uri', "path", <<>>) /\ cs' = to /\ mark' = 0
      BY <1>10, <1>12, <1>15, <2>2
    <3>2. EndedAuthority
      BY <1>11, <3>1 DEF EndedAuthority, Only, UriFields
    <3> QED BY <1>2, <1>8, <1>15, <2>2, <3>1, <3>2
  <2> QED BY <2>1, <2>2
<1> QED BY <1>1, <1>13, <1>14, <1>15

\* What is saved when the path has been left, unless that threw.
EndedPath ==
    /\ uri' \in Uris /\ mark' \in Nat /\ parts' = parts /\ text' = text /\ absolute' = absolute
    /\ uri'.query = <<>> /\ uri'.fragment = <<>> /\ AuthoritySaved' /\ (absolute <=> HasScheme)
Thrown == cs' = "thrown" /\ HasScheme /\ parts.port = <<>>
OnlyQueryNext(to) == cs' = to /\ PathSaved'

\* An authority with no path behind it.
LEMMA AuthorityToPath ==
    ASSUME UriTyped, InHost, pos = PortEnd(parts), PortEnd(parts) = PathEnd(parts), NEW c, c # "/", NEW to,
           Effect(EndActions(cs, c), pos + 1, to), parts' = parts, text' = text, absolute' = absolute
    PROVE  EndedPath /\ (Thrown \/ OnlyQueryNext(to))
<1>1. /\ EndedAuthority
      /\ cs' = IF HasScheme /\ c # "/" /\ parts.port = <<>> THEN "thrown" ELSE to
  BY AuthorityEnded
<1>2. UserSaved /\ uri.scheme = PartOf(parts.scheme) /\ (absolute <=> HasScheme)
  BY DEF InHost
<1>3. parts.path = <<>>
  <2>1. parts \in UriParts
    BY DEF UriTyped
  <2> QED BY <2>1, Places
<1>4. AuthoritySaved'
  <2>1. UserSaved'
    BY <1>1, <1>2 DEF UserSaved, EndedAuthority
  <2> QED BY <1>1, <1>2, <2>1 DEF AuthoritySaved, EndedAuthority
<1>5. EndedPath
  BY <1>1, <1>2, <1>4 DEF EndedPath, EndedAuthority
<1>6. cs' # "thrown" \/ ~(HasScheme /\ parts.port = <<>>) => cs' = to
  BY <1>1
<1>7. ~(HasScheme /\ parts.port = <<>>) => PathSaved'
  BY <1>1, <1>3 DEF PathSaved, EndedAuthority, HasScheme
<1> QED BY <1>1, <1>5, <1>7 DEF Thrown, OnlyQueryNext

\* The end of the path saves it, or throws where no mark was left for it.
LEMMA PathEnded ==
    ASSUME UriTyped, InPath, pos = PathEnd(parts), NEW c, NEW to,
           Effect(EndActions(cs, c), pos + 1, to), parts' = parts, text' = text, absolute' = absolute
    PROVE  EndedPath /\ (Thrown \/ OnlyQueryNext(to))
<1>1. parts \in UriParts /\ text = TextOf(parts) /\ mark \in Nat /\ uri \in Uris /\ absolute \in BOOLEAN
  BY DEF UriTyped
<1>2. /\ AuthoritySaved /\ (absolute <=> HasScheme)
      /\ \A f \in {"path", "query", "fragment"} : uri[f] = <<>>
      /\ IF HasScheme THEN cs = "saved" /\ mark = IF parts.port = <<>> THEN 0 ELSE PortEnd(parts) + 1
                      ELSE cs = "path"
  BY DEF InPath
<1>3. PortEnd(parts) \in Nat /\ PathEnd(parts) \in Nat /\ pos + 1 \in Nat \ {0}
  BY <1>1, Ordered
<1>4. parts.path \in Seq(UriChars) /\ SubSeq(text, PortEnd(parts) + 1, PathEnd(parts)) = parts.path
  BY <1>1, Parts, Cuts
<1>5. PICK p \in Nat \ {0} : p = pos + 1 /\ p - 1 = PathEnd(parts)
  BY <1>3
<1>6. CASE HasScheme
  <2>1. EndActions(cs, c) = <<"path">>
    BY <1>2, <1>6, Taken
  <2>2. PICK f \in {"scheme", "path", "query", "fragment"} : f = "path"
    OBVIOUS
  <2>3. Effect(<<f>>, p, to)
    BY <1>5, <2>1, <2>2
  <2>4. mark # 0 => parts.path = SubSeq(text, mark, p - 1)
    BY <1>2, <1>4, <1>5, <1>6
  <2>5. /\ mark' = 0
        /\ mark = 0 => uri' = uri /\ cs' = "thrown"
        /\ mark # 0 => Only(uri, uri', f, parts.path) /\ cs' = to
    BY <1>1, <1>4, <2>3, <2>4, SaveEffect, Zenon
  <2>6. CASE parts.port = <<>>
    <3>1. uri' = uri /\ Thrown
      BY <1>2, <1>6, <2>5, <2>6 DEF Thrown
    <3>2. AuthoritySaved'
      BY <1>2, <3>1 DEF AuthoritySaved, UserSaved
    <3> QED BY <1>1, <1>2, <2>5, <3>1, <3>2 DEF EndedPath
  <2>7. CASE parts.port # <<>>
    <3>1. mark # 0
      BY <1>2, <1>3, <1>6, <2>7
    <3>2. uri' \in Uris /\ uri'.path = parts.path /\ (\A g \in UriFields \ {"path"} : uri'[g] = uri[g]) /\ cs' = to
      BY <2>2, <2>5, <3>1 DEF Only
    <3>3. /\ uri'.scheme = uri.scheme /\ uri'.userinfo = uri.userinfo /\ uri'.host = uri.host
          /\ uri'.port = uri.port /\ uri'.query = <<>> /\ uri'.fragment = <<>>
      BY <1>2, <3>2 DEF UriFields
    <3>4. AuthoritySaved'
      BY <1>2, <3>3 DEF AuthoritySaved, UserSaved
    <3>5. PathSaved'
      BY <1>6, <2>7, <3>2 DEF PathSaved, HasScheme
    <3> QED BY <1>2, <2>5, <3>2, <3>3, <3>4, <3>5 DEF EndedPath, OnlyQueryNext
  <2> QED BY <2>6, <2>7
<1>7. CASE ~HasScheme
  <2>1. EndActions(cs, c) = <<>>
    BY <1>2, <1>7, Taken
  <2>2. mark' = mark /\ uri' = uri /\ cs' = to
    BY <1>1, <1>3, <2>1, Effects
  <2>3. AuthoritySaved'
    BY <1>2, <2>2 DEF AuthoritySaved, UserSaved
  <2>4. PathSaved'
    BY <1>2, <1>7, <2>2 DEF PathSaved, HasScheme
  <2> QED BY <1>1, <1>2, <2>2, <2>3, <2>4 DEF EndedPath, OnlyQueryNext
<1> QED BY <1>6, <1>7

\* What follows a path.
LEMMA AfterPath ==
    ASSUME UriTyped, pos = PathEnd(parts), pos < Len(text)
    PROVE  IF parts.query # NoPart THEN text[pos + 1] = "?"
           ELSE parts.fragment # NoPart /\ text[pos + 1] = "#" /\ QueryEnd(parts) = PathEnd(parts)
<1>1. parts \in UriParts /\ text = TextOf(parts)
  BY DEF UriTyped
<1>2. CASE parts.query # NoPart
  BY <1>1, <1>2, Chars
<1>3. CASE parts.query = NoPart
  <2>1. QueryEnd(parts) = PathEnd(parts)
    BY <1>1, <1>3, Places
  <2>2. parts.fragment # NoPart
    <3>1. PathEnd(parts) \in Nat /\ Len(text) = TextEnd(parts)
      BY <1>1, Ordered
    <3>2. parts.fragment = NoPart => TextEnd(parts) = QueryEnd(parts)
      BY <1>1, Places
    <3> QED BY <2>1, <3>1, <3>2
  <2> QED BY <1>1, <1>3, <2>1, <2>2, Chars
<1> QED BY <1>2, <1>3

\* The character after the path begins the query or the fragment.
LEMMA IntoTail ==
    ASSUME UriTyped, pos = PathEnd(parts), pos < Len(text), pos' = pos + 1, EndedPath,
           Thrown \/ OnlyQueryNext(IF parts.query # NoPart THEN "query" ELSE "fragment")
    PROVE  UriInv'
<1>1. parts \in UriParts /\ text = TextOf(parts)
  BY DEF UriTyped
<1>2. pos \in Nat /\ Len(text) \in Nat
  BY <1>1, Ordered
<1>3. UriTyped'
  <2>1. absolute' \in BOOLEAN
    BY DEF UriTyped, EndedPath
  <2> QED BY <1>2, <2>1, TypedNext DEF EndedPath
<1>4. CASE Thrown
  <2>1. UriRead'
    BY <1>4 DEF UriRead, Thrown, EndedPath, HasScheme
  <2> QED BY <1>3, <2>1 DEF UriInv
<1>5. CASE OnlyQueryNext("query") /\ parts.query # NoPart
  <2>1. InQuery'
    BY <1>5 DEF InQuery, OnlyQueryNext, EndedPath, HasScheme
  <2> QED BY <1>3, <2>1 DEF UriInv
<1>6. CASE OnlyQueryNext("fragment") /\ parts.query = NoPart
  <2>1. /\ parts.fragment # NoPart /\ QueryEnd(parts) = PathEnd(parts)
    BY <1>6, AfterPath
  <2>2. InFragment'
    BY <1>6, <2>1 DEF InFragment, OnlyQueryNext, EndedPath, HasScheme, PartOf
  <2> QED BY <1>3, <2>2 DEF UriInv
<1> QED BY <1>4, <1>5, <1>6

\* In the host and the port.
LEMMA StepInHost == UriTyped /\ InHost /\ UriChar => UriInv'
<1> SUFFICES ASSUME UriTyped, InHost, UriChar PROVE UriInv'
  OBVIOUS
<1> DEFINE c == text[pos + 1]
<1>1. parts \in UriParts /\ text = TextOf(parts) /\ mark \in Nat /\ uri \in Uris /\ absolute \in BOOLEAN
  BY DEF UriTyped
<1>2. /\ (absolute <=> HasScheme) /\ uri.scheme = PartOf(parts.scheme) /\ UserSaved
      /\ \A f \in {"port", "path", "query", "fragment"} : uri[f] = <<>>
  BY DEF InHost
<1>3. /\ HostAt(parts) \in Nat /\ HostEnd(parts) \in Nat /\ PortEnd(parts) \in Nat /\ PathEnd(parts) \in Nat
      /\ HostAt(parts) <= HostEnd(parts) /\ HostEnd(parts) <= PortEnd(parts) /\ PortEnd(parts) <= PathEnd(parts)
      /\ PathEnd(parts) <= Len(text) /\ Len(text) \in Nat /\ text \in Seq(UriChars)
  BY <1>1, Ordered
<1>4. /\ parts.port = NoPart => PortEnd(parts) = HostEnd(parts)
      /\ parts.port # NoPart => HostEnd(parts) < PortEnd(parts)
  BY <1>1, Places
<1>5. /\ absolute' = absolute /\ pos' = pos + 1 /\ parts' = parts /\ text' = text
      /\ pos \in Nat /\ pos < Len(text) /\ pos + 1 \in Nat \ {0} /\ pos + 1 \in 1 .. Len(text) + 1
      /\ cs \in {"authority", "name", "named", "number", "user", "host", "hosted", "port"}
      /\ cs \in {"authority", "user", "name", "host"} => pos <= HostEnd(parts) /\ HostAt(parts) <= pos
      /\ cs \in {"named", "hosted", "number", "port"} => HasPort /\ HostEnd(parts) + 1 <= pos /\ pos <= PortEnd(parts)
                                                         /\ uri.host = parts.host
  <2>1. /\ pos' = pos + 1 /\ parts' = parts /\ text' = text /\ pos < Len(text)
        /\ absolute' = (absolute \/ cs = "colon")
    BY Zenon DEF UriChar
  <2>2. /\ cs \in {"authority", "name", "named", "number", "user", "host", "hosted", "port"}
        /\ pos \in Nat
        /\ cs \in {"authority", "user", "name", "host"} => pos <= HostEnd(parts) /\ HostAt(parts) <= pos
        /\ cs \in {"named", "hosted", "number", "port"} => HasPort /\ HostEnd(parts) + 1 <= pos /\ pos <= PortEnd(parts)
                                                           /\ uri.host = parts.host
    BY <1>3, <1>4 DEF InHost, Early, UriTyped, HasPort
  <2>3. absolute' = absolute
    BY <1>1, <2>1, <2>2
  <2> QED BY <1>3, <2>1, <2>2, <2>3
<1>6. ASSUME NEW to, UriTarget(cs, c) = to, to # "error"
      PROVE  Effect(CharActions(cs, c, to), pos + 1, to)
  BY <1>6, CharRead
<1>7. ASSUME NEW to, Effect(<<"mark">>, pos + 1, to) PROVE mark' = pos + 1 /\ uri' = uri /\ cs' = to
  BY <1>1, <1>5, <1>7, Effects
<1>8. ASSUME NEW to, Effect(<<>>, pos + 1, to) PROVE mark' = mark /\ uri' = uri /\ cs' = to
  BY <1>1, <1>5, <1>8, Effects
<1>9. HasScheme' = HasScheme /\ HasUser' = HasUser /\ HasPort' = HasPort
  BY <1>5 DEF HasScheme, HasUser, HasPort
\* a character of the host
<1>10. CASE cs \in {"authority", "user", "name", "host"} /\ pos < HostEnd(parts)
  <2>1. c \in HostChars
    <3>1. pos + 1 \in HostAt(parts) + 1 .. HostEnd(parts)
      BY <1>3, <1>5, <1>10
    <3> QED BY <1>1, <3>1, Chars
  <2>2. PICK to : to = IF HasUser THEN "host" ELSE "name"
    OBVIOUS
  <2>3. UriTarget(cs, c) = to
    <3>1. HasUser <=> cs \in {"user", "host"}
      BY <1>10 DEF InHost, Early
    <3> QED BY <1>10, <2>1, <2>2, <3>1, Moves
  <2> HIDE DEF c
  <2>4. Effect(CharActions(cs, c, to), pos + 1, to)
    BY <1>6, <2>2, <2>3
  <2>5. cs' = to /\ uri' = uri /\ mark' = HostAt(parts) + 1
    <3>1. CASE Early("authority", "user") /\ pos = HostAt(parts)
      <4>1. Effect(<<"mark">>, pos + 1, to)
        BY <2>1, <2>2, <2>4, <3>1, Taken DEF Early
      <4> QED BY <1>7, <3>1, <4>1
    <3>2. CASE Early("name", "host") /\ mark = HostAt(parts) + 1
      <4>1. Effect(<<>>, pos + 1, to)
        BY <2>1, <2>2, <2>4, <3>2, Taken DEF Early
      <4> QED BY <1>8, <3>2, <4>1
    <3> QED BY <1>10, <3>1, <3>2 DEF InHost, Early
  <2>6. UriTyped'
    BY <1>1, <1>3, <1>5, <2>5, TypedNext
  <2>7. InHost'
    <3>1. UserSaved'
      BY <1>2, <1>5, <2>5 DEF UserSaved
    <3>2. Early("name", "host")'
      BY <1>9, <2>2, <2>5 DEF Early
    <3>3. HostAt(parts') < pos' /\ pos' <= HostEnd(parts')
      BY <1>3, <1>5, <1>10
    <3> QED BY <1>2, <1>5, <1>9, <2>5, <3>1, <3>2, <3>3 DEF InHost
  <2> QED BY <2>6, <2>7 DEF UriInv
\* the colon before the port
<1>11. CASE cs \in {"authority", "user", "name", "host"} /\ pos = HostEnd(parts) /\ HasPort
  <2>1. c = ":"
    BY <1>1, <1>11, Chars DEF HasPort
  <2>2. PICK to : to = IF HasUser THEN "hosted" ELSE "named"
    OBVIOUS
  <2>3. HasUser <=> cs \in {"user", "host"}
    BY <1>11 DEF InHost, Early
  <2>4. UriTarget(cs, c) = to
    BY <1>11, <2>1, <2>2, <2>3, Moves
  <2>5. Effect(CharActions(cs, c, to), pos + 1, to)
    BY <1>6, <2>2, <2>4
  <2>6. Effect(LeaveAuthority(cs), pos + 1, to)
    BY <1>11, <2>1, <2>2, <2>3, <2>5, Taken
  <2>7. PICK p \in 1 .. Len(text) + 1 : p = pos + 1 /\ p - 1 = pos
    BY <1>5
  <2>8. parts.host \in Seq(UriChars) /\ SubSeq(text, HostAt(parts) + 1, HostEnd(parts)) = parts.host
    BY <1>1, Parts, Cuts
  <2>9. IF cs \in {"name", "host", "number", "port"} THEN mark # 0 /\ parts.host = SubSeq(text, mark, p - 1)
                                                     ELSE parts.host = <<>>
    <3>1. CASE Early("authority", "user") /\ pos = HostAt(parts)
      <4>1. parts.host = <<>>
        BY <1>1, <1>11, <3>1, Places
      <4> QED BY <3>1, <4>1 DEF Early
    <3>2. CASE Early("name", "host") /\ mark = HostAt(parts) + 1
      <4>1. cs \in {"name", "host", "number", "port"} /\ mark # 0
        BY <1>3, <3>2 DEF Early
      <4>2. parts.host = SubSeq(text, mark, p - 1)
        BY <1>11, <2>7, <2>8, <3>2
      <4> QED BY <4>1, <4>2
    <3> QED BY <1>11, <3>1, <3>2 DEF InHost, Early
  <2>10. cs \in AuthorityEnds /\ uri.port = <<>> /\ LeftField(cs) = "host"
    BY <1>2, <1>11 DEF AuthorityEnds, LeftField
  <2>11. \E saved \in Uris :
           /\ Only(uri, saved, LeftField(cs), parts.host)
           /\ Effect(LeaveAuthority(cs), p, to) =>
                 /\ uri' = saved /\ cs' = to
                 /\ mark' = IF cs \in {"authority", "user"} THEN p
                            ELSE IF cs \in {"name", "host"} THEN mark ELSE 0
    BY <1>1, <1>3, <2>8, <2>9, <2>10, Leaves
  <2>12. Only(uri, uri', "host", parts.host) /\ cs' = to /\ mark' \in Nat
    BY <1>1, <2>6, <2>7, <2>10, <2>11
  <2>13. /\ uri' \in Uris /\ uri'.host = parts.host /\ uri'.scheme = uri.scheme /\ uri'.userinfo = uri.userinfo
         /\ \A f \in {"port", "path", "query", "fragment"} : uri'[f] = <<>>
    BY <1>2, <2>12 DEF Only, UriFields
  <2>14. UriTyped'
    BY <1>1, <1>3, <1>5, <2>12, <2>13, TypedNext
  <2>15. InHost'
    <3>1. UserSaved'
      BY <1>2, <1>5, <2>13 DEF UserSaved
    <3>2. Early("named", "hosted")'
      BY <1>9, <2>2, <2>12 DEF Early
    <3> QED BY <1>2, <1>5, <1>9, <1>11, <2>13, <3>1, <3>2 DEF InHost
  <2> QED BY <2>14, <2>15 DEF UriInv
\* a digit of the port
<1>12. CASE cs \in {"named", "hosted", "number", "port"} /\ pos < PortEnd(parts)
  <2>1. c \in DigitRuns
    <3>1. pos + 1 \in HostEnd(parts) + 2 .. PortEnd(parts)
      BY <1>3, <1>5, <1>12
    <3> QED BY <1>1, <1>5, <1>12, <3>1, Chars DEF HasPort
  <2>2. PICK to : to = IF HasUser THEN "port" ELSE "number"
    OBVIOUS
  <2>3. UriTarget(cs, c) = to
    <3>1. HasUser <=> cs \in {"hosted", "port"}
      BY <1>12 DEF InHost, Early
    <3> QED BY <1>12, <2>1, <2>2, <3>1, Moves
  <2> HIDE DEF c
  <2>4. Effect(CharActions(cs, c, to), pos + 1, to)
    BY <1>6, <2>2, <2>3
  <2>5. cs' = to /\ uri' = uri /\ mark' = HostEnd(parts) + 2
    <3>1. CASE Early("named", "hosted") /\ pos = HostEnd(parts) + 1
      <4>1. Effect(<<"mark">>, pos + 1, to)
        BY <2>1, <2>2, <2>4, <3>1, Taken DEF Early
      <4> QED BY <1>3, <1>7, <3>1, <4>1
    <3>2. CASE Early("number", "port") /\ mark = HostEnd(parts) + 2
      <4>1. Effect(<<>>, pos + 1, to)
        BY <2>1, <2>2, <2>4, <3>2, Taken DEF Early
      <4> QED BY <1>8, <3>2, <4>1
    <3> QED BY <1>12, <3>1, <3>2 DEF InHost, Early
  <2>6. UriTyped'
    BY <1>1, <1>3, <1>5, <2>5, TypedNext
  <2>7. InHost'
    <3>1. UserSaved'
      BY <1>2, <1>5, <2>5 DEF UserSaved
    <3>2. Early("number", "port")'
      BY <1>9, <2>2, <2>5 DEF Early
    <3>3. HostEnd(parts') + 1 < pos' /\ pos' <= PortEnd(parts')
      BY <1>3, <1>5, <1>12
    <3> QED BY <1>2, <1>5, <1>9, <1>12, <2>5, <3>1, <3>2, <3>3 DEF InHost
  <2> QED BY <2>6, <2>7 DEF UriInv
\* what follows the authority
<1>13. CASE pos = PortEnd(parts)
  <2>1. ASSUME NEW to, UriTarget(cs, c) = to, to # "error", CharActions(cs, c, to) = EndActions(cs, c)
        PROVE  Effect(EndActions(cs, c), pos + 1, to)
    BY <1>6, <2>1
  <2>2. CASE pos < PathEnd(parts)
    <3>1. c = "/"
      BY <1>1, <1>13, <2>2, Chars
    <3>2. cs \in AuthorityEnds
      BY <1>5 DEF AuthorityEnds
    <3>3. PICK to : to = IF absolute THEN "saved" ELSE "path"
      OBVIOUS
    <3>4. UriTarget(cs, c) = to
      BY <3>1, <3>2, <3>3, Moves
    <3>5. CharActions(cs, c, to) = EndActions(cs, c)
      BY <3>1, <3>2, <3>3, Taken
    <3>6. Effect(EndActions(cs, c), pos + 1, to)
      BY <2>1, <3>3, <3>4, <3>5
    <3>7. /\ EndedAuthority
          /\ cs' = IF HasScheme /\ c # "/" /\ parts.port = <<>> THEN "thrown" ELSE to
          /\ HasScheme /\ c = "/" => mark' = IF parts.port = <<>> THEN 0 ELSE pos + 1
      BY <1>13, <3>6, AuthorityEnded
    <3>8. UriTyped'
      BY <1>1, <1>3, <1>5, <3>7, TypedNext DEF EndedAuthority
    <3>9. InPath'
      <4>1. AuthoritySaved'
        BY <1>2, <1>5, <3>7 DEF AuthoritySaved, UserSaved, EndedAuthority
      <4>2. PortEnd(parts') < pos' /\ pos' <= PathEnd(parts')
        BY <1>3, <1>5, <1>13, <2>2
      <4>3. IF HasScheme THEN cs' = "saved" /\ mark' = IF parts'.port = <<>> THEN 0 ELSE PortEnd(parts') + 1
            ELSE cs' = "path"
        BY <1>2, <1>5, <1>13, <3>1, <3>3, <3>7
      <4> QED BY <1>2, <1>5, <1>9, <3>7, <4>1, <4>2, <4>3 DEF InPath, EndedAuthority
    <3> QED BY <3>8, <3>9 DEF UriInv
  <2>3. CASE pos = PathEnd(parts)
    <3>1. IF parts.query # NoPart THEN c = "?"
          ELSE parts.fragment # NoPart /\ c = "#" /\ QueryEnd(parts) = PathEnd(parts)
      BY <1>5, <2>3, AfterPath
    <3>2. PICK to : to = IF parts.query # NoPart THEN "query" ELSE "fragment"
      OBVIOUS
    <3>3. cs \in AuthorityEnds /\ cs \in BeforeQuery
      BY <1>5 DEF AuthorityEnds, BeforeQuery
    <3>4. UriTarget(cs, c) = to
      BY <3>1, <3>2, <3>3, Moves
    <3>5. CharActions(cs, c, to) = EndActions(cs, c)
      BY <3>1, <3>2, <3>3, Taken
    <3>6. Effect(EndActions(cs, c), pos + 1, to) /\ c # "/"
      BY <2>1, <3>1, <3>2, <3>4, <3>5
    <3>7. EndedPath /\ (Thrown \/ OnlyQueryNext(to))
      BY <1>5, <1>13, <2>3, <3>6, AuthorityToPath
    <3> QED BY <1>5, <2>3, <3>2, <3>7, IntoTail
  <2> QED BY <1>3, <1>5, <1>13, <2>2, <2>3
<1>14. \/ cs \in {"authority", "user", "name", "host"} /\ pos < HostEnd(parts)
       \/ cs \in {"authority", "user", "name", "host"} /\ pos = HostEnd(parts) /\ HasPort
       \/ cs \in {"named", "hosted", "number", "port"} /\ pos < PortEnd(parts)
       \/ pos = PortEnd(parts)
  BY <1>3, <1>4, <1>5 DEF HasPort
<1> QED BY <1>10, <1>11, <1>12, <1>13, <1>14

\* In the path.
LEMMA StepInPath == UriTyped /\ InPath /\ UriChar => UriInv'
<1> SUFFICES ASSUME UriTyped, InPath, UriChar PROVE UriInv'
  OBVIOUS
<1> DEFINE c == text[pos + 1]
<1>1. parts \in UriParts /\ text = TextOf(parts) /\ mark \in Nat /\ uri \in Uris /\ absolute \in BOOLEAN
  BY DEF UriTyped
<1>2. /\ AuthoritySaved /\ (absolute <=> HasScheme)
      /\ \A f \in {"path", "query", "fragment"} : uri[f] = <<>>
      /\ PortEnd(parts) < pos /\ pos <= PathEnd(parts)
      /\ IF HasScheme THEN cs = "saved" /\ mark = IF parts.port = <<>> THEN 0 ELSE PortEnd(parts) + 1
                      ELSE cs = "path"
  BY DEF InPath
<1>3. PortEnd(parts) \in Nat /\ PathEnd(parts) \in Nat /\ PathEnd(parts) <= Len(text) /\ Len(text) \in Nat
  BY <1>1, Ordered
<1>4. cs \in {"saved", "path"}
  BY <1>2
<1>5. ASSUME NEW to, UriTarget(cs, c) = to, to # "error"
      PROVE  /\ Effect(CharActions(cs, c, to), pos + 1, to)
             /\ absolute' = absolute /\ pos' = pos + 1 /\ parts' = parts /\ text' = text
             /\ pos \in Nat /\ pos < Len(text) /\ pos + 1 \in Nat \ {0}
  BY <1>4, <1>5, CharRead
<1>6. CASE pos < PathEnd(parts)
  <2>1. c \in PathChars
    <3>1. pos + 1 \in PortEnd(parts) + 1 .. PathEnd(parts)
      BY <1>2, <1>3, <1>6 DEF UriTyped
    <3> QED BY <1>1, <3>1, Chars
  <2>2. UriTarget(cs, c) = cs
    BY <1>4, <2>1, Moves
  <2> HIDE DEF c
  <2>3. /\ Effect(<<>>, pos + 1, cs)
        /\ absolute' = absolute /\ pos' = pos + 1 /\ parts' = parts /\ text' = text
        /\ pos \in Nat /\ pos < Len(text) /\ pos + 1 \in Nat \ {0}
    BY <1>4, <1>5, <2>1, <2>2, Taken
  <2>4. mark' = mark /\ uri' = uri /\ cs' = cs
    BY <1>1, <2>3, Effects
  <2>5. UriTyped'
    BY <1>1, <1>3, <2>3, <2>4, TypedNext
  <2>6. InPath'
    <3>1. AuthoritySaved'
      BY <1>2, <2>3, <2>4 DEF AuthoritySaved, UserSaved
    <3>2. PortEnd(parts') < pos' /\ pos' <= PathEnd(parts')
      BY <1>2, <1>3, <1>6, <2>3
    <3> QED BY <1>2, <2>3, <2>4, <3>1, <3>2 DEF InPath, HasScheme
  <2> QED BY <2>5, <2>6 DEF UriInv
<1>7. CASE pos = PathEnd(parts)
  <2>0. pos < Len(text)
    BY Zenon DEF UriChar
  <2>1. IF parts.query # NoPart THEN c = "?"
        ELSE parts.fragment # NoPart /\ c = "#" /\ QueryEnd(parts) = PathEnd(parts)
    BY <1>7, <2>0, AfterPath
  <2>2. PICK to : to = IF parts.query # NoPart THEN "query" ELSE "fragment"
    OBVIOUS
  <2>3. cs \in BeforeQuery
    BY <1>4 DEF BeforeQuery
  <2>4. UriTarget(cs, c) = to
    BY <2>1, <2>2, <2>3, Moves
  <2>5. CharActions(cs, c, to) = EndActions(cs, c)
    BY <1>4, <2>1, <2>2, Taken
  <2>6. /\ Effect(EndActions(cs, c), pos + 1, to)
        /\ absolute' = absolute /\ pos' = pos + 1 /\ parts' = parts /\ text' = text
    BY <1>5, <2>2, <2>4, <2>5
  <2>7. EndedPath /\ (Thrown \/ OnlyQueryNext(to))
    BY <1>7, <2>6, PathEnded
  <2> QED BY <1>7, <2>0, <2>2, <2>6, <2>7, IntoTail
<1> QED BY <1>2, <1>3, <1>6, <1>7 DEF UriTyped

\* The end of the query saves it.
LEMMA QueryEnded ==
    ASSUME UriTyped, InQuery, pos = QueryEnd(parts), NEW c, NEW to, Effect(EndActions(cs, c), pos + 1, to)
    PROVE  mark' = 0 /\ Only(uri, uri', "query", parts.query) /\ cs' = to
<1>1. parts \in UriParts /\ text = TextOf(parts) /\ mark \in Nat /\ uri \in Uris
  BY DEF UriTyped
<1>2. /\ parts.query # NoPart
      /\ \/ cs = "query" /\ pos = PathEnd(parts) + 1
         \/ /\ cs = "querying" /\ PathEnd(parts) + 1 < pos /\ pos <= QueryEnd(parts)
            /\ mark = PathEnd(parts) + 2
  BY DEF InQuery
<1>3. PathEnd(parts) \in Nat /\ QueryEnd(parts) \in Nat
  BY <1>1, Ordered
<1>4. PICK p \in Nat \ {0} : p = pos + 1 /\ p - 1 = QueryEnd(parts)
  BY <1>3
<1>5. parts.query \in Seq(UriChars) /\ SubSeq(text, PathEnd(parts) + 2, QueryEnd(parts)) = parts.query
  BY <1>1, <1>2, Parts, Cuts
<1>6. CASE cs = "query"
  <2>1. parts.query = <<>>
    BY <1>1, <1>2, <1>3, <1>6, Places
  <2>2. EndActions(cs, c) = <<"mark", "query">>
    BY <1>6, Taken
  <2>3. PICK f \in {"userinfo", "query", "fragment"} : f = "query"
    OBVIOUS
  <2>4. Effect(<<"mark", f>>, p, to)
    BY <1>4, <2>2, <2>3
  <2>5. mark' = 0 /\ Only(uri, uri', f, <<>>) /\ cs' = to
    BY <1>1, <2>4, EmptyEffect, Zenon
  <2> QED BY <2>1, <2>3, <2>5
<1>7. CASE cs = "querying"
  <2>1. EndActions(cs, c) = <<"query">>
    BY <1>7, Taken
  <2>2. PICK f \in {"scheme", "path", "query", "fragment"} : f = "query"
    OBVIOUS
  <2>3. Effect(<<f>>, p, to)
    BY <1>4, <2>1, <2>2
  <2>4. mark # 0 /\ parts.query = SubSeq(text, mark, p - 1)
    BY <1>2, <1>3, <1>4, <1>5, <1>7
  <2>5. /\ mark' = 0
        /\ mark # 0 => Only(uri, uri', f, parts.query) /\ cs' = to
    BY <1>1, <1>5, <2>3, <2>4, SaveEffect, Zenon
  <2> QED BY <2>2, <2>4, <2>5
<1> QED BY <1>2, <1>6, <1>7

\* The end of the fragment saves it.
LEMMA FragmentEnded ==
    ASSUME UriTyped, InFragment, pos = TextEnd(parts), NEW c, NEW to, Effect(EndActions(cs, c), pos + 1, to)
    PROVE  mark' = 0 /\ Only(uri, uri', "fragment", parts.fragment) /\ cs' = to
<1>1. parts \in UriParts /\ text = TextOf(parts) /\ mark \in Nat /\ uri \in Uris
  BY DEF UriTyped
<1>2. /\ parts.fragment # NoPart
      /\ \/ cs = "fragment" /\ pos = QueryEnd(parts) + 1
         \/ /\ cs = "fragmenting" /\ QueryEnd(parts) + 1 < pos
            /\ mark = QueryEnd(parts) + 2
  BY DEF InFragment
<1>3. QueryEnd(parts) \in Nat /\ TextEnd(parts) \in Nat
  BY <1>1, Ordered
<1>4. PICK p \in Nat \ {0} : p = pos + 1 /\ p - 1 = TextEnd(parts)
  BY <1>3
<1>5. parts.fragment \in Seq(UriChars) /\ SubSeq(text, QueryEnd(parts) + 2, TextEnd(parts)) = parts.fragment
  BY <1>1, <1>2, Parts, Cuts
<1>6. CASE cs = "fragment"
  <2>1. parts.fragment = <<>>
    BY <1>1, <1>2, <1>3, <1>6, Places
  <2>2. EndActions(cs, c) = <<"mark", "fragment">>
    BY <1>6, Taken
  <2>3. PICK f \in {"userinfo", "query", "fragment"} : f = "fragment"
    OBVIOUS
  <2>4. Effect(<<"mark", f>>, p, to)
    BY <1>4, <2>2, <2>3
  <2>5. mark' = 0 /\ Only(uri, uri', f, <<>>) /\ cs' = to
    BY <1>1, <2>4, EmptyEffect, Zenon
  <2> QED BY <2>1, <2>3, <2>5
<1>7. CASE cs = "fragmenting"
  <2>1. EndActions(cs, c) = <<"fragment">>
    BY <1>7, Taken
  <2>2. PICK f \in {"scheme", "path", "query", "fragment"} : f = "fragment"
    OBVIOUS
  <2>3. Effect(<<f>>, p, to)
    BY <1>4, <2>1, <2>2
  <2>4. mark # 0 /\ parts.fragment = SubSeq(text, mark, p - 1)
    BY <1>2, <1>3, <1>4, <1>5, <1>7
  <2>5. /\ mark' = 0
        /\ mark # 0 => Only(uri, uri', f, parts.fragment) /\ cs' = to
    BY <1>1, <1>5, <2>3, <2>4, SaveEffect, Zenon
  <2> QED BY <2>2, <2>4, <2>5
<1> QED BY <1>2, <1>6, <1>7

\* In the query.
LEMMA StepInQuery == UriTyped /\ InQuery /\ UriChar => UriInv'
<1> SUFFICES ASSUME UriTyped, InQuery, UriChar PROVE UriInv'
  OBVIOUS
<1> DEFINE c == text[pos + 1]
<1>1. parts \in UriParts /\ text = TextOf(parts) /\ mark \in Nat /\ uri \in Uris /\ absolute \in BOOLEAN
  BY DEF UriTyped
<1>2. /\ AuthoritySaved /\ PathSaved /\ (absolute <=> HasScheme)
      /\ \A f \in {"query", "fragment"} : uri[f] = <<>>
      /\ parts.query # NoPart
      /\ \/ cs = "query" /\ pos = PathEnd(parts) + 1
         \/ /\ cs = "querying" /\ PathEnd(parts) + 1 < pos /\ pos <= QueryEnd(parts)
            /\ mark = PathEnd(parts) + 2
  BY DEF InQuery
<1>3. PathEnd(parts) \in Nat /\ QueryEnd(parts) \in Nat /\ QueryEnd(parts) <= TextEnd(parts)
      /\ TextEnd(parts) \in Nat /\ Len(text) = TextEnd(parts)
  BY <1>1, Ordered
<1>4. PathEnd(parts) < QueryEnd(parts)
  BY <1>1, <1>2, Places
<1>5. ASSUME NEW to, UriTarget(cs, c) = to, to # "error"
      PROVE  /\ Effect(CharActions(cs, c, to), pos + 1, to)
             /\ absolute' = absolute /\ pos' = pos + 1 /\ parts' = parts /\ text' = text
             /\ pos \in Nat /\ pos < Len(text) /\ pos + 1 \in Nat \ {0}
  BY <1>2, <1>5, CharRead
<1>6. CASE pos < QueryEnd(parts)
  <2>1. c \in TailChars
    <3>1. pos + 1 \in PathEnd(parts) + 2 .. QueryEnd(parts)
      BY <1>2, <1>3, <1>6 DEF UriTyped
    <3> QED BY <1>1, <1>2, <3>1, Chars
  <2>2. UriTarget(cs, c) = "querying"
    BY <1>2, <2>1, Moves
  <2> HIDE DEF c
  <2>3. /\ Effect(CharActions(cs, c, "querying"), pos + 1, "querying")
        /\ absolute' = absolute /\ pos' = pos + 1 /\ parts' = parts /\ text' = text
        /\ pos \in Nat /\ pos < Len(text) /\ pos + 1 \in Nat \ {0}
    BY <1>5, <2>2
  <2>4. mark' = PathEnd(parts) + 2 /\ uri' = uri /\ cs' = "querying"
    <3>1. CASE cs = "query"
      <4>1. Effect(<<"mark">>, pos + 1, "querying")
        BY <2>1, <2>3, <3>1, Taken
      <4>2. mark' = pos + 1 /\ uri' = uri /\ cs' = "querying"
        BY <1>1, <2>3, <4>1, Effects
      <4> QED BY <1>2, <1>3, <3>1, <4>2
    <3>2. CASE cs = "querying"
      <4>1. Effect(<<>>, pos + 1, "querying")
        BY <2>1, <2>3, <3>2, Taken
      <4> QED BY <1>1, <1>2, <2>3, <3>2, <4>1, Effects
    <3> QED BY <1>2, <3>1, <3>2
  <2>5. UriTyped'
    BY <1>1, <1>3, <2>3, <2>4, TypedNext
  <2>6. InQuery'
    <3>1. AuthoritySaved' /\ PathSaved'
      BY <1>2, <2>3, <2>4 DEF AuthoritySaved, UserSaved, PathSaved, HasScheme
    <3>2. PathEnd(parts') + 1 < pos' /\ pos' <= QueryEnd(parts')
      BY <1>2, <1>3, <1>6, <2>3
    <3> QED BY <1>2, <2>3, <2>4, <3>1, <3>2 DEF InQuery, HasScheme
  <2> QED BY <2>5, <2>6 DEF UriInv
<1>7. CASE pos = QueryEnd(parts)
  <2>0. pos < Len(text)
    BY Zenon DEF UriChar
  <2>1. parts.fragment # NoPart
    <3>1. parts.fragment = NoPart => TextEnd(parts) = QueryEnd(parts)
      BY <1>1, Places
    <3> QED BY <1>3, <1>7, <2>0, <3>1
  <2>2. c = "#"
    BY <1>1, <1>7, <2>1, Chars
  <2>3. UriTarget(cs, c) = "fragment"
    BY <1>2, <2>2, Moves
  <2>4. CharActions(cs, c, "fragment") = EndActions(cs, c)
    BY <1>2, <2>2, Taken
  <2>5. /\ Effect(EndActions(cs, c), pos + 1, "fragment")
        /\ absolute' = absolute /\ pos' = pos + 1 /\ parts' = parts /\ text' = text
    BY <1>5, <2>3, <2>4
  <2>6. mark' = 0 /\ Only(uri, uri', "query", parts.query) /\ cs' = "fragment"
    BY <1>7, <2>5, QueryEnded
  <2>7. /\ uri' \in Uris /\ uri'.query = parts.query
        /\ uri'.scheme = uri.scheme /\ uri'.userinfo = uri.userinfo /\ uri'.host = uri.host
        /\ uri'.port = uri.port /\ uri'.path = uri.path /\ uri'.fragment = <<>>
    BY <1>2, <2>6 DEF Only, UriFields
  <2>8. UriTyped'
    BY <1>1, <1>3, <1>7, <2>0, <2>5, <2>6, <2>7, TypedNext
  <2>9. InFragment'
    <3>1. AuthoritySaved' /\ PathSaved'
      BY <1>2, <2>5, <2>7 DEF AuthoritySaved, UserSaved, PathSaved, HasScheme
    <3> QED BY <1>2, <1>7, <2>1, <2>5, <2>6, <2>7, <3>1 DEF InFragment, HasScheme, PartOf
  <2> QED BY <2>8, <2>9 DEF UriInv
<1> QED BY <1>2, <1>3, <1>4, <1>6, <1>7 DEF UriTyped

\* In the fragment.
LEMMA StepInFragment == UriTyped /\ InFragment /\ UriChar => UriInv'
<1> SUFFICES ASSUME UriTyped, InFragment, UriChar PROVE UriInv'
  OBVIOUS
<1> DEFINE c == text[pos + 1]
<1>1. parts \in UriParts /\ text = TextOf(parts) /\ mark \in Nat /\ uri \in Uris /\ absolute \in BOOLEAN
  BY DEF UriTyped
<1>2. /\ AuthoritySaved /\ PathSaved /\ uri.query = PartOf(parts.query) /\ (absolute <=> HasScheme)
      /\ uri.fragment = <<>> /\ parts.fragment # NoPart
      /\ \/ cs = "fragment" /\ pos = QueryEnd(parts) + 1
         \/ /\ cs = "fragmenting" /\ QueryEnd(parts) + 1 < pos
            /\ mark = QueryEnd(parts) + 2
  BY DEF InFragment
<1>3. QueryEnd(parts) \in Nat /\ TextEnd(parts) \in Nat /\ Len(text) = TextEnd(parts)
  BY <1>1, Ordered
<1>4. pos < Len(text)
  BY Zenon DEF UriChar
<1>5. ASSUME NEW to, UriTarget(cs, c) = to, to # "error"
      PROVE  /\ Effect(CharActions(cs, c, to), pos + 1, to)
             /\ absolute' = absolute /\ pos' = pos + 1 /\ parts' = parts /\ text' = text
             /\ pos \in Nat /\ pos < Len(text) /\ pos + 1 \in Nat \ {0}
  BY <1>2, <1>5, CharRead
<1>6. c \in TailChars
  <2>1. pos + 1 \in QueryEnd(parts) + 2 .. TextEnd(parts)
    BY <1>2, <1>3, <1>4 DEF UriTyped
  <2> QED BY <1>1, <1>2, <2>1, Chars
<1>7. UriTarget(cs, c) = "fragmenting"
  BY <1>2, <1>6, Moves
<1> HIDE DEF c
<1>8. /\ Effect(CharActions(cs, c, "fragmenting"), pos + 1, "fragmenting")
      /\ absolute' = absolute /\ pos' = pos + 1 /\ parts' = parts /\ text' = text
      /\ pos \in Nat /\ pos < Len(text) /\ pos + 1 \in Nat \ {0}
  BY <1>5, <1>7
<1>9. mark' = QueryEnd(parts) + 2 /\ uri' = uri /\ cs' = "fragmenting"
  <2>1. CASE cs = "fragment"
    <3>1. Effect(<<"mark">>, pos + 1, "fragmenting")
      BY <1>6, <1>8, <2>1, Taken
    <3>2. mark' = pos + 1 /\ uri' = uri /\ cs' = "fragmenting"
      BY <1>1, <1>8, <3>1, Effects
    <3> QED BY <1>2, <1>3, <2>1, <3>2
  <2>2. CASE cs = "fragmenting"
    <3>1. Effect(<<>>, pos + 1, "fragmenting")
      BY <1>6, <1>8, <2>2, Taken
    <3> QED BY <1>1, <1>2, <1>8, <2>2, <3>1, Effects
  <2> QED BY <1>2, <2>1, <2>2
<1>10. UriTyped'
  BY <1>1, <1>3, <1>8, <1>9, TypedNext
<1>11. InFragment'
  <2>1. AuthoritySaved' /\ PathSaved'
    BY <1>2, <1>8, <1>9 DEF AuthoritySaved, UserSaved, PathSaved, HasScheme
  <2>2. QueryEnd(parts') + 1 < pos'
    BY <1>2, <1>3, <1>8
  <2> QED BY <1>2, <1>8, <1>9, <2>1, <2>2 DEF InFragment, HasScheme
<1> QED BY <1>10, <1>11 DEF UriInv

\* The end of the text.
LEMMA StepEof == UriInv /\ UriEof => UriInv'
<1> SUFFICES ASSUME UriInv, UriEof PROVE UriInv'
  OBVIOUS
<1>0. UriTyped
  BY DEF UriInv
<1>1. parts \in UriParts /\ text = TextOf(parts) /\ mark \in Nat /\ uri \in Uris /\ absolute \in BOOLEAN
  BY <1>0 DEF UriTyped
<1>2. /\ UserAt(parts) \in Nat /\ HostAt(parts) \in Nat /\ HostEnd(parts) \in Nat /\ PortEnd(parts) \in Nat
      /\ PathEnd(parts) \in Nat /\ QueryEnd(parts) \in Nat /\ TextEnd(parts) \in Nat
      /\ 2 <= UserAt(parts) /\ UserAt(parts) <= HostAt(parts)
      /\ HostAt(parts) <= HostEnd(parts) /\ HostEnd(parts) <= PortEnd(parts) /\ PortEnd(parts) <= PathEnd(parts)
      /\ PathEnd(parts) <= QueryEnd(parts) /\ QueryEnd(parts) <= TextEnd(parts)
      /\ Len(text) = TextEnd(parts) /\ text \in Seq(UriChars)
  BY <1>1, Ordered
<1>3. Scanning /\ pos = Len(text) /\ parts' = parts /\ text' = text /\ pos' = pos /\ absolute' = absolute
  BY Zenon DEF UriEof
<1>4. cs # "password" => Effect(EndActions(cs, "eof"), pos + 1, "returned")
  <2>1. Effect(EndActions(cs, "eof"), pos + 1, IF cs = "password" THEN "refused" ELSE "returned")
    BY Zenon DEF UriEof
  <2> QED BY <2>1
<1>5. ASSUME mark' \in Nat, uri' \in Uris PROVE UriTyped'
  BY <1>0, <1>1, <1>2, <1>3, <1>5, TypedNext
<1>6. ASSUME EndedPath, Thrown \/ OnlyQueryNext("returned"), parts.query = NoPart, parts.fragment = NoPart
      PROVE  UriInv'
  <2>1. UriRead'
    <3>1. CASE Thrown
      BY <1>3, <3>1 DEF Thrown, UriRead, HasScheme
    <3>2. CASE OnlyQueryNext("returned")
      <4>1. uri'.query = PartOf(parts'.query) /\ uri'.fragment = PartOf(parts'.fragment)
        BY <1>3, <1>6 DEF EndedPath, PartOf
      <4> QED BY <1>6, <3>2, <4>1 DEF EndedPath, OnlyQueryNext, UriRead
    <3> QED BY <1>6, <3>1, <3>2
  <2> QED BY <1>5, <1>6, <2>1 DEF UriInv, EndedPath
<1>7. pos = PathEnd(parts) => parts.query = NoPart /\ parts.fragment = NoPart
  <2>1. parts.query # NoPart => PathEnd(parts) < QueryEnd(parts)
    BY <1>1, Places
  <2>2. parts.fragment # NoPart => QueryEnd(parts) < TextEnd(parts)
    BY <1>1, Places
  <2> QED BY <1>2, <1>3, <2>1, <2>2
<1>8. ~BeforeScheme
  BY <1>2, <1>3 DEF BeforeScheme
<1>9. ~InScheme
  BY <1>2, <1>3 DEF InScheme
<1>10. ~AfterScheme
  <2>1. HasScheme => UserAt(parts) = 4
    BY <1>1, Places DEF HasScheme
  <2> QED BY <1>2, <1>3, <2>1 DEF AfterScheme
<1>11. ~InUser
  BY <1>2, <1>3 DEF InUser
<1>12. ~UriRead
  BY <1>3 DEF UriRead, Scanning
<1>13. CASE InHost
  <2>1. pos = PortEnd(parts) /\ PortEnd(parts) = PathEnd(parts) /\ cs # "password"
    <3>1. /\ parts.port = NoPart => PortEnd(parts) = HostEnd(parts)
          /\ parts.port # NoPart => HostEnd(parts) < PortEnd(parts)
      BY <1>1, Places
    <3>2. pos <= PortEnd(parts) /\ cs # "password"
      BY <1>2, <1>3, <1>13, <3>1 DEF InHost, HasPort, Early
    <3> QED BY <1>2, <1>3, <3>2
  <2>2. EndedPath /\ (Thrown \/ OnlyQueryNext("returned"))
    BY <1>0, <1>3, <1>4, <1>13, <2>1, AuthorityToPath
  <2> QED BY <1>6, <1>7, <2>1, <2>2
<1>14. CASE InPath
  <2>1. pos = PathEnd(parts) /\ cs # "password"
    BY <1>2, <1>3, <1>14 DEF InPath
  <2>2. EndedPath /\ (Thrown \/ OnlyQueryNext("returned"))
    BY <1>0, <1>3, <1>4, <1>14, <2>1, PathEnded
  <2> QED BY <1>6, <1>7, <2>1, <2>2
<1>15. CASE InQuery
  <2>1. parts.query # NoPart /\ cs # "password" /\ AuthoritySaved /\ PathSaved /\ uri.fragment = <<>>
    BY <1>15 DEF InQuery
  <2>2. PathEnd(parts) < QueryEnd(parts)
    BY <1>1, <2>1, Places
  <2>3. pos = QueryEnd(parts)
    BY <1>2, <1>3, <1>15, <2>2 DEF InQuery
  <2>4. parts.fragment = NoPart
    <3>1. parts.fragment # NoPart => QueryEnd(parts) < TextEnd(parts)
      BY <1>1, Places
    <3> QED BY <1>2, <1>3, <2>3, <3>1
  <2>5. mark' = 0 /\ Only(uri, uri', "query", parts.query) /\ cs' = "returned"
    BY <1>0, <1>4, <1>15, <2>1, <2>3, QueryEnded
  <2>6. /\ uri' \in Uris /\ uri'.query = parts.query
        /\ uri'.scheme = uri.scheme /\ uri'.userinfo = uri.userinfo /\ uri'.host = uri.host
        /\ uri'.port = uri.port /\ uri'.path = uri.path /\ uri'.fragment = <<>>
    BY <2>1, <2>5 DEF Only, UriFields
  <2>7. UriRead'
    <3>1. AuthoritySaved' /\ PathSaved'
      BY <1>3, <2>1, <2>6 DEF AuthoritySaved, UserSaved, PathSaved, HasScheme
    <3> QED BY <1>3, <2>1, <2>4, <2>5, <2>6, <3>1 DEF UriRead, PartOf
  <2> QED BY <1>5, <2>5, <2>6, <2>7 DEF UriInv
<1>16. CASE InFragment
  <2>1. /\ parts.fragment # NoPart /\ cs # "password" /\ AuthoritySaved /\ PathSaved
        /\ uri.query = PartOf(parts.query)
    BY <1>16 DEF InFragment
  <2>2. pos = TextEnd(parts)
    BY <1>2, <1>3
  <2>3. mark' = 0 /\ Only(uri, uri', "fragment", parts.fragment) /\ cs' = "returned"
    BY <1>0, <1>4, <1>16, <2>1, <2>2, FragmentEnded
  <2>4. /\ uri' \in Uris /\ uri'.fragment = parts.fragment
        /\ uri'.scheme = uri.scheme /\ uri'.userinfo = uri.userinfo /\ uri'.host = uri.host
        /\ uri'.port = uri.port /\ uri'.path = uri.path /\ uri'.query = uri.query
    BY <2>3 DEF Only, UriFields
  <2>5. UriRead'
    <3>1. AuthoritySaved' /\ PathSaved'
      BY <1>3, <2>1, <2>4 DEF AuthoritySaved, UserSaved, PathSaved, HasScheme
    <3> QED BY <1>3, <2>1, <2>3, <2>4, <3>1 DEF UriRead, PartOf
  <2> QED BY <1>5, <2>3, <2>4, <2>5 DEF UriInv
<1> QED BY <1>8, <1>9, <1>10, <1>11, <1>12, <1>13, <1>14, <1>15, <1>16 DEF UriInv

\* A text put together from parts has the machine before its first character.
LEMMA Begun ==
    ASSUME parts' \in UriParts, text' = TextOf(parts'), pos' = 0, cs' = "start", absolute' = FALSE, mark' = 0,
           uri' = EmptyUri
    PROVE  UriInv'
<1>1. EmptyUri \in Uris
  <2>1. <<>> \in Seq(UriChars)
    OBVIOUS
  <2> QED BY <2>1 DEF EmptyUri, Uris
<1>2. Len(text') \in Nat
  BY Ordered
<1>3. UriTyped'
  <2>1. pos' \in 0 .. Len(text') /\ mark' \in Nat
    BY <1>2
  <2>2. absolute' \in BOOLEAN /\ uri' \in Uris
    BY <1>1
  <2> QED BY <2>1, <2>2 DEF UriTyped
<1>4. BeforeScheme'
  BY DEF BeforeScheme
<1> QED BY <1>3, <1>4 DEF UriInv

\* The text that dump() makes of a Uri has parts, too.
LEMMA StepReparse == UriInv /\ Reparse => UriInv'
<1> SUFFICES ASSUME UriInv, Reparse PROVE UriInv'
  OBVIOUS
<1>1. parts \in UriParts /\ uri \in Uris
  BY DEF UriInv, UriTyped
<1>2. /\ cs = "returned" /\ uri.scheme # <<>> /\ parts' = Dump(uri) /\ text' = TextOf(parts') /\ pos' = 0
      /\ cs' = "start" /\ absolute' = FALSE /\ mark' = 0 /\ uri' = EmptyUri
  BY Zenon DEF Reparse
<1>3. /\ AuthoritySaved /\ PathSaved
      /\ uri.query = PartOf(parts.query) /\ uri.fragment = PartOf(parts.fragment)
  BY <1>2 DEF UriInv, UriRead, BeforeScheme, InScheme, AfterScheme, InUser, InHost, Early, InPath, InQuery, InFragment
<1>4. /\ parts.scheme \in {NoPart, <<"http">>} /\ parts.host \in Seq(HostChars)
      /\ parts.port \in {NoPart} \cup Seq(DigitRuns) /\ parts.path \in Seq(PathChars) /\ Rooted(parts.path)
      /\ parts.query \in {NoPart} \cup Seq(TailChars) /\ parts.fragment \in {NoPart} \cup Seq(TailChars)
  BY <1>1 DEF UriParts
<1>5. /\ uri.scheme = <<"http">> /\ uri.userinfo \in Seq(UserChars) /\ uri.host \in Seq(HostChars)
      /\ uri.port \in Seq(DigitRuns) /\ uri.path \in Seq(PathChars) /\ Rooted(uri.path)
      /\ uri.query \in Seq(TailChars) /\ uri.fragment \in Seq(TailChars)
  <2>1. uri.scheme = <<"http">> /\ HasScheme
    BY <1>2, <1>3, <1>4 DEF AuthoritySaved, PartOf, HasScheme
  <2>2. uri.userinfo \in Seq(UserChars) /\ uri.host \in Seq(HostChars) /\ uri.path = parts.path
    BY <1>3, <1>4, <2>1 DEF AuthoritySaved, UserSaved, PathSaved
  <2>3. <<>> \in Seq(DigitRuns) /\ <<>> \in Seq(TailChars)
    OBVIOUS
  <2>4. uri.port \in Seq(DigitRuns) /\ uri.query \in Seq(TailChars) /\ uri.fragment \in Seq(TailChars)
    BY <1>3, <1>4, <2>3 DEF AuthoritySaved, PartOf
  <2> QED BY <1>4, <2>1, <2>2, <2>4
<1>6. PICK d : d = Dump(uri)
  OBVIOUS
<1>7. d = [scheme |-> uri.scheme,
           userinfo |-> IF uri.userinfo = <<>> THEN NoPart ELSE uri.userinfo,
           host |-> uri.host, port |-> IF IsDefaultPort(uri) THEN NoPart ELSE uri.port,
           path |-> GetPath(uri), query |-> IF uri.query = <<>> THEN NoPart ELSE uri.query,
           fragment |-> IF uri.fragment = <<>> THEN NoPart ELSE uri.fragment]
  BY <1>1, <1>6 DEF Dump, Uris
<1>8. GetPath(uri) \in Seq(PathChars) /\ Rooted(GetPath(uri))
  <2>1. PICK slash : slash = <<"/">>
    OBVIOUS
  <2>2. slash \in Seq(PathChars) /\ slash[1] = "/"
    BY <2>1, CharSets
  <2> QED BY <1>5, <2>1, <2>2 DEF GetPath, Rooted
<1>9. d \in UriParts
  BY <1>5, <1>7, <1>8 DEF UriParts
<1> QED BY <1>2, <1>6, <1>9, Begun

\* The first text's parts are parts.
LEMMA UriBegins == UriInit => UriInv
<1> SUFFICES ASSUME UriInit PROVE UriInv
  OBVIOUS
<1>1. /\ parts \in [scheme : {NoPart, <<"http">>}, userinfo : UserInfos, host : Hosts,
                    port : Ports, path : Paths, query : Queries, fragment : Fragments]
      /\ text = TextOf(parts) /\ pos = 0
      /\ cs = "start" /\ absolute = FALSE /\ mark = 0 /\ uri = EmptyUri
  BY Zenon DEF UriInit
<1>2. parts \in UriParts
  BY <1>1, UriAssumption DEF UriParts
<1>3. EmptyUri \in Uris
  <2>1. <<>> \in Seq(UriChars)
    OBVIOUS
  <2> QED BY <2>1 DEF EmptyUri, Uris
<1>4. Len(text) \in Nat
  BY <1>1, <1>2, Ordered
<1>5. UriTyped
  <2>1. pos \in 0 .. Len(text) /\ mark \in Nat
    BY <1>1, <1>4
  <2>2. absolute \in BOOLEAN /\ uri \in Uris
    BY <1>1, <1>3
  <2> QED BY <1>1, <1>2, <2>1, <2>2 DEF UriTyped
<1>6. BeforeScheme
  BY <1>1 DEF BeforeScheme
<1> QED BY <1>5, <1>6 DEF UriInv

\* Every step keeps the invariant.
LEMMA UriSteps == UriInv /\ [UriNext]_uriVars => UriInv'
<1> SUFFICES ASSUME UriInv, [UriNext]_uriVars PROVE UriInv'
  OBVIOUS
<1>1. CASE UriChar
  <2>1. UriTyped /\ Scanning
    BY <1>1, Zenon DEF UriInv, UriChar
  <2>2. ~UriRead
    BY <2>1 DEF UriRead, Scanning
  <2> QED BY <1>1, <2>1, <2>2, StepBeforeScheme, StepInScheme, StepAfterScheme, StepInUser, StepInHost,
             StepInPath, StepInQuery, StepInFragment, Zenon DEF UriInv
<1>2. CASE UriEof
  BY <1>2, StepEof
<1>3. CASE Reparse
  BY <1>3, StepReparse
<1>4. CASE UNCHANGED uriVars
  BY <1>4 DEF uriVars, UriInv, UriTyped, BeforeScheme, InScheme, AfterScheme, InUser, InHost, InPath, InQuery,
              InFragment, UriRead, AuthoritySaved, UserSaved, PathSaved, HasScheme, HasUser, HasPort, Early
<1> QED BY <1>1, <1>2, <1>3, <1>4 DEF UriNext

\* CreateUri recovers the parts of every text, and of the text that dump() makes of them:
\* but for user information with a digit after a colon, and for a path without a scheme.
\* It throws exactly for an empty port after a scheme, and never stops in an error state.
THEOREM UriKept == UriSpec => []UriPartsKept
<1>1. UriInv => UriPartsKept
  <2> SUFFICES ASSUME UriInv PROVE UriPartsKept
    OBVIOUS
  <2> USE DEF BeforeScheme, InScheme, AfterScheme, InUser, InHost, Early, InPath, InQuery, InFragment, UriRead
  <2>1. cs \notin {"error", "refused"}
    BY DEF UriInv
  <2>2. cs = "thrown" => parts.scheme # NoPart /\ parts.port = <<>>
    BY DEF UriInv, HasScheme
  <2>3. cs = "returned" => /\ AuthoritySaved /\ PathSaved
                           /\ uri.query = PartOf(parts.query) /\ uri.fragment = PartOf(parts.fragment)
    BY DEF UriInv
  <2>4. cs = "returned" =>
          /\ parts.scheme # NoPart => parts.port # <<>>
          /\ \A f \in {"scheme", "host", "port", "query", "fragment"} : uri[f] = PartOf(parts[f])
          /\ uri.path = IF parts.scheme = NoPart THEN <<>> ELSE parts.path
          /\ ~DigitsAfterColon(PartOf(parts.userinfo)) => uri.userinfo = PartOf(parts.userinfo)
    <3>1. PartOf(parts.host) = parts.host
      <4>1. parts.host \in Seq(UriChars)
        BY Parts DEF UriInv, UriTyped
      <4> QED BY <4>1, UriAssumption DEF PartOf
    <3> QED BY <2>3, <3>1 DEF AuthoritySaved, UserSaved, PathSaved, HasScheme
  <2> QED BY <2>1, <2>2, <2>4 DEF UriPartsKept
<1> QED BY <1>1, UriBegins, UriSteps, PTL DEF UriSpec
=============================================================================
