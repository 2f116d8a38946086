------------------------------ MODULE Compact ------------------------------
(***************************************************************************)
(* The compact forms of addresses and nodes: package krpc for the DHT,     *)
(* metainfo.CompactAddr for the trackers.  A string of bytes is a sequence *)
(* of units: a port, an ID or an IPv4 address is one unit, an IPv6 address *)
(* two, of which the first is Mapped in an IPv4 address of 16 bytes.       *)
(***************************************************************************)
EXTENDS Integers, Sequences, SequencesExt

CONSTANT Mapped  \* the first twelve bytes of ::ffff:a.b.c.d

IPv4len == 1
IPv6len == 2

\* net.IP.To4 and To16; <<>> is nil.
To4(ip) ==
    IF Len(ip) = IPv4len THEN ip
    ELSE IF Len(ip) = IPv6len /\ ip[1] = Mapped THEN <<ip[2]>> ELSE <<>>

To16(ip) == IF Len(ip) = IPv4len THEN <<Mapped, ip[1]>> ELSE ip

\* net.IP.String, which writes the two forms of an IPv4 address alike, and
\* net.ParseIP, which returns the long one; a host name is not an address.
Text(ip) == <<"ip", IF To4(ip) # <<>> THEN To4(ip) ELSE ip>>
Name(host) == <<"name", host>>
ParseIP(text) == IF text[1] = "ip" THEN To16(text[2]) ELSE <<>>

-----------------------------------------------------------------------------

\* CompactAddr.WriteBinary.
WriteBinary(a) == Append(a.ip, a.port)

\* CompactAddr.UnmarshalBinary; its callers cut the data to one of the sizes.
UnmarshalBinary(data) == [ip |-> Front(data), port |-> Last(data)]

\* A string cut into strings of a size; what is left over is not in one.
Cut(b, size) == [i \in 1..(Len(b) \div size) |-> SubSeq(b, (i - 1) * size + 1, i * size)]

\* CompactIPv4Addrs.MarshalBinary leaves out what is not an IPv4 address.
MarshalIPv4(addrs) ==
    LET short == [i \in DOMAIN addrs |-> [addrs[i] EXCEPT !.ip = To4(addrs[i].ip)]]
        IsIPv4(a) == a.ip # <<>>
        four == SelectSeq(short, IsIPv4)
    IN  FlattenSeq([i \in DOMAIN four |-> WriteBinary(four[i])])

\* CompactIPv6Addrs.MarshalBinary.
MarshalIPv6(addrs) ==
    FlattenSeq([i \in DOMAIN addrs |-> WriteBinary([addrs[i] EXCEPT !.ip = To16(addrs[i].ip)])])

\* UnmarshalBinary of the two: an error, here <<>>, if the length is not a
\* multiple of the size.
UnmarshalAddrs(b, size) ==
    IF Len(b) % size # 0 THEN <<>>
    ELSE [i \in DOMAIN Cut(b, size) |-> UnmarshalBinary(Cut(b, size)[i])]

-----------------------------------------------------------------------------

\* krpc.Node.WriteBinary and UnmarshalBinary: the ID, then the address.
WriteNode(n) == <<n.id>> \o WriteBinary(n.addr)

UnmarshalNode(b) == [id |-> b[1], addr |-> UnmarshalBinary(Tail(b))]

\* CompactIPv4Nodes.MarshalBinary.
MarshalNodes(nodes) ==
    LET short == [i \in DOMAIN nodes |-> [nodes[i] EXCEPT !.addr.ip = To4(nodes[i].addr.ip)]]
        IsIPv4(n) == n.addr.ip # <<>>
        four == SelectSeq(short, IsIPv4)
    IN  FlattenSeq([i \in DOMAIN four |-> WriteNode(four[i])])

\* CompactIPv6Nodes.MarshalBinary.
MarshalNodes6(nodes) ==
    FlattenSeq([i \in DOMAIN nodes |->
        WriteNode([nodes[i] EXCEPT !.addr.ip = To16(nodes[i].addr.ip)])])

\* UnmarshalBinary of CompactIPv4Nodes and CompactIPv6Nodes.
UnmarshalNodes(b, size) ==
    IF Len(b) % size # 0 THEN <<>>
    ELSE [i \in DOMAIN Cut(b, size) |-> UnmarshalNode(Cut(b, size)[i])]

\* Addr.Equal: net.IP.Equal takes the two forms of an IPv4 address for equal.
Equal(a, b) == a.port = b.port /\ To16(a.ip) = To16(b.ip)

=============================================================================
