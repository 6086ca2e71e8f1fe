\* Small instances of each part; MCServices gives the structured values.
CONSTANTS
    Base = 2
    Bytes = {0, 1}
    Junk = Junk
    MaxBlocks = 3
    MaxData = 3
    Width = 8
    Group = 3
    Digit = 4
    Digits = 3
    NoInteger = NoInteger
    PoolUsers = {"u1", "u2"}
    Conns = {"c1", "c2"}
    NoConn = NoConn
    MaxAliveTime = 1
    MaxRequest = 2
    MaxClock = 3
    Numbers = {1, 2}
    Callers = {"t1", "t2", "t3"}
    Plain = {"t3"}
    Timeouts = {"0"}
    NoEntry = NoEntry
    MaxFiles = 3
    Listeners = {"l1", "l2"}
    LoopIds = {1, 2, 3}
    MaxClients = 1
    MaxStops = 1
    BufferSize = 6
    MaxMessages = 3
    Names = {"n"}
    Types = {"int", "string"}
    Values = {0, 1}
    Setters = {"s1", "s2"}
    Watchers = {"w1"}
    Malformed = Malformed
    MaxVars = 2
    NoPart = NoPart
    UserInfos <- MCUserInfos
    Hosts <- MCHosts
    Ports <- MCPorts
    Paths <- MCPaths
    Queries <- MCQueries
    Fragments <- MCFragments
    LogNames = {"root", "sys"}
    Writers = {"w"}
    Restyled = {"sys"}
    LogTexts <- MCLogTexts
    BadPatterns = {"bad"}
    NoDefine = NoDefine
    MaxReloads = 2
    MaxLines = 2
    MaxTime = 1
    Runs = {"n", "6", "80", ":", "[", "]"}
    Nodes <- MCNodes
    Services = {"80"}
    Nothing = Nothing
    ByteBits = 2
    AddressBytes = 3
SPECIFICATION MCSpec
INVARIANTS BlocksKept ReadBack PoolOwned EntryOfOpenFile NonblockKept StoppedLoopsEnd OneLoopPerSocket ReceivedAsSent ListenersInStep UriPartsKept 
  
CHECK_DEADLOCK FALSE
