------------------------------ MODULE Address ------------------------------
(***************************************************************************)
(* Addresses (src/socket/ipaddress.cpp): how Lookup splits a host into the *)
(* node and the service it asks getaddrinfo() for, and the broadcast,      *)
(* network and mask addresses of a prefix length.                          *)
(*                                                                         *)
(* A host is a sequence of runs of characters.  An address is the set of   *)
(* its one bits: bit i is bit i % ByteBits, counted from the least         *)
(* significant, of byte i \div ByteBits in memory, the order of the        *)
(* network.                                                                *)
(***************************************************************************)
EXTENDS Naturals, Sequences, FiniteSets, SequencesExt

CONSTANTS
    Runs,       \* runs of characters, and the characters Lookup looks for
    Nodes,      \* names and addresses, as runs; an IPv6 address has a ":"
    Services,   \* service names or ports
    Nothing,    \* a null pointer
    ByteBits,   \* bits of a byte
    AddressBytes       \* bytes of an address

\* a name or an address has no brackets, and an IPv6 address at least two colons
ASSUME AddressAssumption ==
    /\ {ByteBits, AddressBytes} \subseteq Nat \ {0}
    /\ {":", "[", "]"} \subseteq Runs /\ Nodes \subseteq Seq(Runs) \ {<<>>}
    /\ \A node \in Nodes : \A i \in DOMAIN node :
          /\ node[i] \notin {"[", "]"}
          /\ node[i] = ":" => \E j \in DOMAIN node \ {i} : node[j] = ":"
    /\ Services \subseteq Runs \ {":"}
    /\ Nothing \notin Runs \cup Seq(Runs)

Bits == 0 .. AddressBytes * ByteBits - 1

VARIABLES
    meant,      \* what the caller means: the node, the service, and whether in brackets
    lookedUp,        \* the node and the service passed to getaddrinfo(), or the failure
    family, bits, prefix,   \* an address and a prefix length
    made        \* broadcastAddress, networkAddress and subnetMask

addressVars == <<meant, lookedUp, family, bits, prefix, made>>
-----------------------------------------------------------------------------
(* Address::Lookup                                                         *)

IsV6(node) == \E i \in DOMAIN node : node[i] = ":"

HostOf(a) == (IF a.bracketed THEN <<"[">> \o a.node \o <<"]">> ELSE a.node)
                \o (IF a.service = Nothing THEN <<>> ELSE <<":", a.service>>)

Find(host, c) == SelectInSeq(host, LAMBDA x : x = c)   \* memchr, 0 for a null pointer
After(host, i) == SubSeq(host, i, Len(host))

\* the part in brackets, with what follows "]:"
LookupBracketed(host) ==
    LET close == Find(host, "]")
        ported == close < Len(host) /\ host[close + 1] = ":"
    IN  IF Len(host) = 0 \/ host[1] # "[" \/ close = 0
           THEN [node |-> <<>>, service |-> Nothing, ok |-> TRUE]
           ELSE [node |-> SubSeq(host, 2, close - 1),
                 service |-> IF ported THEN After(host, close + 2) ELSE Nothing,
                 ok |-> ~ported \/ close + 2 <= Len(host)]

\* node:service, where a second colon leaves the node empty and service at the first one
LookupPlain(host) ==
    LET colon == Find(host, ":")
        more  == \E i \in colon + 1 .. Len(host) : host[i] = ":"
    IN  CASE colon = 0          -> [node |-> <<>>, service |-> Nothing, ok |-> TRUE]
          [] colon = Len(host)  -> [node |-> <<>>, service |-> <<":">>, ok |-> FALSE]
          [] more               -> [node |-> <<>>, service |-> After(host, colon), ok |-> TRUE]
          [] OTHER              -> [node |-> SubSeq(host, 1, colon - 1),
                                    service |-> After(host, colon + 1), ok |-> TRUE]

LookupAddress(host) ==
    LET b == LookupBracketed(host)
        r == IF b.ok /\ b.node = <<>> THEN LookupPlain(host) ELSE b
    IN  [r EXCEPT !.node = IF @ = <<>> THEN host ELSE @]
-----------------------------------------------------------------------------
(* Prefixes                                                                *)

\* CreateMask<T>(n): the n least significant bits of a T with w of them.  A shift by the
\* width is undefined: it yields T, or T shifted out
CreateMask(n, w) == IF n < w THEN {0 .. n - 1} ELSE {{}, 0 .. w - 1}

\* byteswapOnLittleEndian of an address's worth of bits
Swap(word) == {(AddressBytes - 1 - (i \div ByteBits)) * ByteBits + (i % ByteBits) : i \in word}

\* the bits of byte k of an IPv6 address, as far as it has one
InByte(k, word) == {k * ByteBits + i : i \in word} \cap Bits

FromNextByte(k) == {i \in Bits : i \div ByteBits > k}   \* mutant of FromByte: one byte late

FromByte(k) == {i \in Bits : i \div ByteBits >= k}
BeforeByte(k) == Bits \ FromByte(k)

\* IPv4Address::broadcastAddress, networkAddress, subnetMask
MakeV4(address, n) ==
    {[broadcast |-> address \cup Swap(Bits \ mask), network |-> address \cap Swap(mask),
      subnet |-> Swap(mask)] : mask \in CreateMask(n, AddressBytes * ByteBits)}

\* IPv6Address: byte by byte
MakeV6(address, n) ==
    LET k == n \div ByteBits IN
    {[broadcast |-> address \cup InByte(k, (0 .. ByteBits - 1) \ mask) \cup FromByte(k + 1),
      network   |-> address \ InByte(k, (0 .. ByteBits - 1) \ mask),
      subnet    |-> InByte(k, mask) \cup BeforeByte(k)] : mask \in CreateMask(n % ByteBits, ByteBits)}
-----------------------------------------------------------------------------
NoAddress == [broadcast |-> {}, network |-> {}, subnet |-> {}]

AddressInit ==
    /\ meant = [node |-> <<>>, service |-> Nothing, bracketed |-> FALSE]
    /\ lookedUp = [node |-> <<>>, service |-> Nothing, ok |-> FALSE]
    /\ family = "v4" /\ bits \in SUBSET Bits /\ prefix = 0 /\ made = NoAddress

DoLookup(node, service, bracketed) ==
    /\ bits = {}
    /\ meant' = [node |-> node, service |-> service, bracketed |-> bracketed]
    /\ lookedUp' = LookupAddress(HostOf(meant'))
    /\ UNCHANGED <<family, bits, prefix, made>>

MakeAddresses(f, n) ==
    /\ family' = f /\ prefix' = n
    /\ made' \in IF f = "v4" THEN MakeV4(bits, n) ELSE MakeV6(bits, n)
    /\ UNCHANGED <<meant, lookedUp, bits>>

AddressNext ==
    \/ \E node \in Nodes, service \in Services \cup {Nothing}, bracketed \in BOOLEAN :
          DoLookup(node, service, bracketed)
    \/ \E f \in {"v4", "v6"}, n \in 1 .. AddressBytes * ByteBits : MakeAddresses(f, n)

AddressSpec == AddressInit /\ [][AddressNext]_addressVars
-----------------------------------------------------------------------------
\* the bits a prefix of n bits covers, and the masks they stand for
Covered(n) == {i \in Bits : (i \div ByteBits) * ByteBits + (ByteBits - 1 - (i % ByteBits)) < n}

\* Lookup asks for the node and the service the caller means, for names and for addresses
\* in brackets; an IPv6 address without brackets is always given a service that is none.
\* The addresses of a prefix agree with each other (IPv4), and are those of the prefix for
\* whole bytes (IPv6, but for the network, which keeps the bytes after the first); no IPv4
\* prefix but the empty one has them, as CreateMask counts from the other end.
AddressesAsAsked ==
    /\ meant.node # <<>> =>
          IF IsV6(meant.node) /\ ~meant.bracketed
             THEN lookedUp.ok => lookedUp.service # Nothing /\ lookedUp.service[1] = ":"
             ELSE lookedUp = [node |-> meant.node, ok |-> TRUE,
                         service |-> IF meant.service = Nothing THEN Nothing ELSE <<meant.service>>]
    /\ prefix # 0 /\ family = "v4" =>
          /\ made.network = bits \cap made.subnet
          /\ made.broadcast = bits \cup (Bits \ made.subnet)
          /\ prefix < AddressBytes * ByteBits => Cardinality(made.subnet) = prefix /\ made.subnet # Covered(prefix)
    /\ prefix # 0 /\ family = "v6" /\ prefix % ByteBits = 0 =>
          /\ made.subnet = Covered(prefix)
          /\ made.broadcast = bits \cup (Bits \ Covered(prefix))
          /\ made.network \cap (Bits \ FromByte(prefix \div ByteBits + 1))
                = bits \cap Covered(prefix)
=============================================================================
