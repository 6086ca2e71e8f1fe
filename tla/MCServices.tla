----------------------------- MODULE MCServices -----------------------------
(***************************************************************************)
(* The parts of the framework that keep to themselves, for TLC: byte array *)
(* and integers, connection pool, descriptor table, server, reception of   *)
(* HTTP, configuration, URIs, logging, addresses.  A behaviour is one of   *)
(* the part it starts in; the others stay as they are.                     *)
(***************************************************************************)
EXTENDS ByteArray, Encoding, ConnectionPool, FdTable, TcpServer, HttpReceive, ConfigVars,
        Uri, Logging, Address

VARIABLE part

Parts == {"bytes", "integer", "pool", "fds", "server", "http", "config", "uri", "log", "address"}

\* the other parts' initial states are narrowed to one
MCInit ==
    /\ part \in Parts
    /\ Init /\ InitInteger /\ PoolInit /\ FdInit /\ ServerInit /\ ConfigInit /\ LogInit
    /\ HttpInit    /\ (part # "http" => role = "request")
    /\ UriInit     /\ (part # "uri" => text = <<"/", "/">> /\ parts.port = NoPart)
    /\ AddressInit /\ (part # "address" => bits = {})

Frame(p) ==
    /\ part = p /\ part' = p
    /\ IF p = "bytes"   THEN TRUE ELSE UNCHANGED vars
    /\ IF p = "integer" THEN TRUE ELSE UNCHANGED integer
    /\ IF p = "pool"    THEN TRUE ELSE UNCHANGED poolVars
    /\ IF p = "fds"     THEN TRUE ELSE UNCHANGED fdVars
    /\ IF p = "server"  THEN TRUE ELSE UNCHANGED serverVars
    /\ IF p = "http"    THEN TRUE ELSE UNCHANGED httpVars
    /\ IF p = "config"  THEN TRUE ELSE UNCHANGED configVars
    /\ IF p = "uri"     THEN TRUE ELSE UNCHANGED uriVars
    /\ IF p = "log"     THEN TRUE ELSE UNCHANGED logVars
    /\ IF p = "address" THEN TRUE ELSE UNCHANGED addressVars

MCNext ==
    \/ Frame("bytes")   /\ Next
    \/ Frame("integer") /\ NextInteger
    \/ Frame("pool")    /\ PoolNext
    \/ Frame("fds")     /\ FdNext
    \/ Frame("server")  /\ ServerNext
    \/ Frame("http")    /\ HttpNext
    \/ Frame("config")  /\ ConfigNext
    \/ Frame("uri")     /\ UriNext
    \/ Frame("log")     /\ LogNext
    \/ Frame("address") /\ AddressNext

MCSpec == MCInit /\ [][MCNext]_<<part, vars, integer, poolVars, fdVars, serverVars, httpVars,
                                 configVars, uriVars, logVars, addressVars>>
-----------------------------------------------------------------------------
MCUserInfos == {NoPart, <<"a">>, <<"a", ":">>, <<"a", ":", "a">>, <<"a", ":", "80">>}
MCHosts     == {<<>>, <<"a">>, <<"80">>}
MCPorts     == {NoPart, <<>>, <<"80">>, <<"81">>}
MCPaths     == {<<>>, <<"/">>, <<"/", "a">>}
MCQueries   == {NoPart, <<>>, <<"a">>}
MCFragments == {NoPart, <<"a">>}

MCNodes == {<<"n">>, <<"6", ":", ":", "6">>, <<":", ":", "6">>}

FirstText  == [level |-> "INFO", formatter |-> "p", appenders |-> <<[type |-> "file", formatter |-> ""]>>]
SecondText == [level |-> "verbose", formatter |-> "bad",
               appenders |-> <<[type |-> "none", formatter |-> "q"], [type |-> "stdout", formatter |-> "q"],
                               [type |-> "file", formatter |-> "q"]>>]
MCLogTexts == [n \in LogNames |-> IF n = "root" THEN {FirstText} ELSE {FirstText, SecondText}]
=============================================================================
