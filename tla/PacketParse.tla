---------------------------- MODULE PacketParse ----------------------------
(***************************************************************************)
(* packet_parse (network.c), called by index_bucket for every packet of a  *)
(* chain: datalink_parse (VLAN tags, MPLS labels), the guess of the        *)
(* network layer from the first nibble, ipv4_parse or ipv6_parse with its  *)
(* walk over the extension headers, then udp_parse or tcp_parse, and the   *)
(* counters of network_stats.  Each call, and each iteration of a parsing  *)
(* loop, is one step.                                                      *)
(*                                                                         *)
(* A packet is its bytes; pos is the code's 0-based int64_t position and   *)
(* Byte(i) is packet[i].  header->len is the length of the bytes given.    *)
(* A read at or past it reads whatever follows the record in the bucket:   *)
(* the bytes of tail, chosen at the start, and the read is flagged.        *)
(***************************************************************************)
EXTENDS Integers, Sequences, Bags, SequencesExt

CONSTANTS Input,      \* the packets, as the header stacks they are built from
          Over,       \* bytes after the packet that a read can reach
          Junk        \* the values those bytes can have

TCP == 6
UDP == 17
PE_UNHANDLED == -2
MAX_VLANS == 3
NoAddr == <<>>
NET_UNKNOWN == 0

(***************************************************************************)
(* A packet on the wire (RFC 894, 802.1Q, RFC 3032, RFC 791, RFC 8200 and  *)
(* its extension headers, RFC 793, RFC 768), described by its header       *)
(* stack: vlan tags, mpls labels, the network layer ("v4", "v6" or "arp"), *)
(* the IPv6 extension headers by next-header number, the transport         *)
(* protocol, and cut, the bytes missing at its end.                        *)
(***************************************************************************)
Zeros(n) == [i \in 1 .. n |-> 0]
Addr6(x) == <<254, 128>> \o Zeros(13) \o <<x>>
SrcPort == <<48, 57>>    \* 12345
DstPort == <<0, 80>>
NextOf(s, k) == IF k < Len(s.ext) THEN s.ext[k + 1] ELSE s.l4
ExtBytes(s, k) ==
    CASE s.ext[k] = 51  -> <<NextOf(s, k), 1>> \o Zeros(10)    \* 12 bytes
      [] s.ext[k] = 50  -> <<0, 0, 1, 0, 0, 0, 0, 1>>          \* SPI, sequence
      [] OTHER          -> <<NextOf(s, k), 0>> \o Zeros(6)     \* 8 bytes
L4Bytes(p) ==
    CASE p = TCP -> SrcPort \o DstPort \o Zeros(8) \o <<80, 2>> \o Zeros(6)
      [] p = UDP -> SrcPort \o DstPort \o <<0, 8, 0, 0>>
      [] OTHER   -> <<8>> \o Zeros(7)
NetBytes(s) ==
    CASE s.net = "v4" -> <<69>> \o Zeros(7) \o <<64, s.l4, 0, 0, 10, 0, 0, 1, 10, 0, 0, 2>>
      [] s.net = "v6" -> <<96>> \o Zeros(5) \o <<IF s.ext = <<>> THEN s.l4 ELSE s.ext[1], 64>>
                          \o Addr6(1) \o Addr6(2)
      [] OTHER        -> <<0, 1, 8, 0, 6, 4, 0, 1>> \o Zeros(20)
EthType(s) ==
    IF s.mpls > 0 THEN <<136, 71>>
    ELSE CASE s.net = "v4" -> <<8, 0>> [] s.net = "v6" -> <<134, 221>> [] OTHER -> <<8, 6>>
Wire(s) ==
    Zeros(12) \o FlattenSeq([k \in 1 .. s.vlan |-> <<129, 0, 0, 1>>]) \o EthType(s)
    \o FlattenSeq([k \in 1 .. s.mpls |-> <<0, 16, IF k = s.mpls THEN 1 ELSE 0, 64>>])
    \o NetBytes(s)
    \o (IF s.net = "v6" THEN FlattenSeq([k \in 1 .. Len(s.ext) |-> ExtBytes(s, k)]) ELSE <<>>)
    \o (IF s.net = "arp" \/ 50 \in ToSet(s.ext) THEN <<>> ELSE L4Bytes(s.l4))
Encode(s) == SubSeq(Wire(s), 1, Len(Wire(s)) - s.cut)

VARIABLES stack,   \* the packet's header stack (history, for the properties)
          mem,     \* the packet's bytes followed by the bytes after them
          len,     \* header->len, the length on the wire
          pc,      \* the function the parse is in
          pos,
          vlans,
          nh,      \* ipv6_parse's next_hdr
          rec,     \* the parsed fields of the packet_record
          stats,   \* the network_stats counters
          oob      \* some read was at or past header->len

vars == <<stack, mem, len, pc, pos, vlans, nh, rec, stats, oob>>

\* header->caplen: the bytes the capture kept, all the bucket holds.
CapLen == Len(Encode(stack))
Byte(i) == mem[i + 1]
Short(i) == Byte(i) * 256 + Byte(i + 1)      \* LE_U_SHORT
Reads(is) == oob' = (oob \/ \E i \in is : i >= CapLen)
Bytes(i, n) == SubSeq(mem, i + 1, i + n)

\* packet_record_init.
NoRec == [src |-> NoAddr, dst |-> NoAddr, vers |-> NET_UNKNOWN, proto |-> 0,
          srcport |-> 0, dstport |-> 0]
NoStats == [captured |-> 0, dll_errors |-> 0, network_errors |-> 0,
            transport_errors |-> 0, ipv4 |-> 0, ipv6 |-> 0, other_net_layer |-> 0,
            transport |-> EmptyBag]
Count(c) == stats' = [stats EXCEPT ![c] = @ + 1]
Goto(s) == pc' = s

Init ==
    /\ stack \in Input
    /\ len = Len(Wire(stack))
    /\ \E tail \in [1 .. Over -> Junk] : mem = Encode(stack) \o tail
    /\ pc = "datalink"
    /\ pos = 0
    /\ vlans = 0
    /\ nh = 0
    /\ rec = NoRec
    /\ stats = NoStats
    /\ oob = FALSE

\* packet_parse counts the packet; datalink_parse checks the Ethernet
\* header's length and skips the MAC addresses.
Datalink ==
    /\ pc = "datalink"
    /\ stats' = [stats EXCEPT !.captured = @ + 1,
                              !.dll_errors = IF len < 14 THEN @ + 1 ELSE @]
    /\ Goto(IF len < 14 THEN "done" ELSE "vlan")
    /\ pos' = 12
    /\ UNCHANGED <<stack, mem, len, vlans, nh, rec, oob>>

\* One iteration of the VLAN loop, or the ethertype after it.
VlanTag ==
    /\ pc = "vlan"
    /\ Reads({pos, pos + 1})
    /\ IF Short(pos) = 33024                                   \* 0x8100
       THEN IF len - pos < 4 \/ vlans + 1 > MAX_VLANS
            THEN Count("dll_errors") /\ Goto("done") /\ UNCHANGED <<pos, vlans>>
            ELSE pos' = pos + 4 /\ vlans' = vlans + 1 /\ UNCHANGED <<pc, stats>>
       ELSE /\ pos' = pos + 2
            /\ Goto(IF Short(pos) \in {34887, 34888} THEN "mpls" ELSE "net")
            /\ UNCHANGED <<vlans, stats>>
    /\ UNCHANGED <<stack, mem, len, nh, rec>>

\* One MPLS label; the bottom-of-stack bit ends the loop.
MplsLabel ==
    /\ pc = "mpls"
    /\ IF len < pos + 4
       THEN Count("dll_errors") /\ Goto("done") /\ UNCHANGED <<pos, oob>>
       ELSE /\ Reads({pos + 2})
            /\ pos' = pos + 4
            /\ Goto(IF Byte(pos + 2) % 2 = 0 THEN "mpls" ELSE "net")
            /\ UNCHANGED stats
    /\ UNCHANGED <<stack, mem, len, vlans, nh, rec>>

\* The network layer is not IPv4 or IPv6 by its first nibble.  The fields
\* it resets still hold packet_record_init's values.
OtherNet ==
    /\ pc = "net"
    /\ Byte(pos) \div 16 \notin {4, 6}
    /\ Reads({pos})
    /\ stats' = [stats EXCEPT !.dll_errors = @ + 1, !.other_net_layer = @ + 1]
    /\ Goto("done")
    /\ UNCHANGED <<stack, mem, len, pos, vlans, nh, rec>>

\* ipv4_parse, then stats->ipv4++.  A parsed header leaves pos past the
\* Ethernet header (4 * h_len >= 0), so the network error check after it
\* fails only for a truncated header.
Ipv4 ==
    /\ pc = "net"
    /\ Byte(pos) \div 16 = 4
    /\ Count("ipv4")
    /\ Reads({pos})
    /\ IF len - pos < 20
       THEN Goto("neterr") /\ UNCHANGED <<pos, rec>>
       ELSE /\ rec' = [rec EXCEPT !.proto = Byte(pos + 9), !.src = Bytes(pos + 12, 4),
                                  !.dst = Bytes(pos + 16, 4), !.vers = 4]
            /\ pos' = pos + 4 * (Byte(pos) % 16)
            /\ Goto("transport")
    /\ UNCHANGED <<stack, mem, len, vlans, nh>>

\* ipv6_parse's fixed header, then stats->ipv6++.
Ipv6 ==
    /\ pc = "net"
    /\ Byte(pos) \div 16 = 6
    /\ Count("ipv6")
    /\ Reads({pos})
    /\ IF len < pos + 40
       THEN Goto("neterr") /\ UNCHANGED <<pos, nh, rec>>
       ELSE /\ rec' = [rec EXCEPT !.src = Bytes(pos + 8, 16), !.dst = Bytes(pos + 24, 16),
                                  !.vers = 6]
            /\ nh' = Byte(pos + 6)
            /\ pos' = pos + 40
            /\ Goto("ext")
    /\ UNCHANGED <<stack, mem, len, vlans>>

\* The loop of ipv6_parse, one case of its switch per action.  A case that
\* returns 0 goes to the network error count.
ExtStep(newpos, trunc) ==
    /\ nh' = Byte(pos)
    /\ pos' = newpos
    /\ Reads({pos, pos + 1})
    /\ Goto(IF trunc THEN "neterr" ELSE "ext")
    /\ UNCHANGED <<stack, mem, len, vlans, rec, stats>>

\* HOPOPTS, DSTOPTS, ROUTING: pos += packet[pos+1] + 1.
ExtOptions ==
    /\ pc = "ext"
    /\ nh \in {0, 60, 43}
    /\ IF len < pos + 16
       THEN Goto("neterr") /\ UNCHANGED <<stack, mem, len, pos, vlans, nh, rec, stats, oob>>
       ELSE ExtStep(pos + Byte(pos + 1) + 1, FALSE)

\* Authentication Header (RFC 4302): (payload length + 2) * 4 bytes.
ExtAuth ==
    /\ pc = "ext"
    /\ nh = 51
    /\ IF len < pos + 2
       THEN Goto("neterr") /\ UNCHANGED <<stack, mem, len, pos, vlans, nh, rec, stats, oob>>
       ELSE ExtStep(pos + (Byte(pos + 1) + 2) * 4, len < pos + (Byte(pos + 1) + 2) * 4)

\* Mobility header (RFC 6275): pos += packet[pos+1] * 8.
ExtMobility ==
    /\ pc = "ext"
    /\ nh = 135
    /\ IF len < pos + 2
       THEN Goto("neterr") /\ UNCHANGED <<stack, mem, len, pos, vlans, nh, rec, stats, oob>>
       ELSE ExtStep(pos + Byte(pos + 1) * 8, len < pos + Byte(pos + 1) * 8)

\* ESP (the rest is encrypted), FRAGMENT, TCP and UDP end the walk at pos;
\* any other next header ends it with PE_UNHANDLED, which is not an error.
ExtEnd ==
    /\ pc = "ext"
    /\ nh \notin {0, 60, 43, 51, 135}
    /\ rec' = [rec EXCEPT !.proto = nh]
    /\ pos' = IF nh \in {50, 44, TCP, UDP} THEN pos ELSE PE_UNHANDLED
    /\ Goto("transport")
    /\ UNCHANGED <<stack, mem, len, vlans, nh, stats, oob>>

\* The network layer returned an error position (not PE_UNHANDLED).
NetError ==
    /\ pc = "neterr"
    /\ Count("network_errors")
    /\ Goto("done")
    /\ UNCHANGED <<stack, mem, len, pos, vlans, nh, rec, oob>>

\* stats->transport[proto]++, then udp_parse, tcp_parse or no ports.  Only
\* a too short header is a transport error: tcp_parse's data offset moves
\* pos forward or leaves it.
Transport ==
    /\ pc = "transport"
    /\ LET p == rec.proto
           ports == p \in {TCP, UDP}
           short == (p = UDP /\ len - pos < 8) \/ (p = TCP /\ len - pos < 4)
       IN
       /\ stats' = [stats EXCEPT !.transport = @ (+) SetToBag({p}),
                      !.transport_errors = IF ports /\ short THEN @ + 1 ELSE @]
       /\ rec' = IF ports /\ ~short
                 THEN [rec EXCEPT !.srcport = Short(pos), !.dstport = Short(pos + 2)]
                 ELSE rec
       /\ IF ports /\ ~short
          THEN Reads(IF p = TCP THEN {pos + 3, pos + 12} ELSE {pos + 3})
          ELSE UNCHANGED oob
    /\ Goto("done")
    /\ UNCHANGED <<stack, mem, len, pos, vlans, nh>>

Next == \/ Datalink \/ VlanTag \/ MplsLabel \/ OtherNet \/ Ipv4 \/ Ipv6
        \/ ExtOptions \/ ExtAuth \/ ExtMobility \/ ExtEnd \/ NetError \/ Transport

\* index_bucket's thread runs the parse to its end.
Spec == Init /\ [][Next]_vars /\ WF_vars(Next)
-----------------------------------------------------------------------------
(***************************************************************************)
(* What the spec (4.D, "Per packet") says the parse of a whole packet      *)
(* gives: VLAN tags stripped up to 3 (more is a dll_errors), MPLS labels   *)
(* stripped to the bottom of the stack, a network layer that is neither   *)
(* IPv4 nor IPv6 counted in dll_errors and other_net_layer, the IPv6       *)
(* extension chain followed to the transport header (ESP ends it with     *)
(* proto 50), and the ports of TCP and UDP.                                *)
(***************************************************************************)
Proto(s) == IF 50 \in ToSet(s.ext) THEN 50 ELSE s.l4
Expected(s) ==
    LET p == Proto(s)
        counted(f) == [NoStats EXCEPT !.captured = 1, ![f] = 1,
                                      !.transport = SetToBag({p})]
        ports == IF p \in {TCP, UDP} THEN <<12345, 80>> ELSE <<0, 0>>
        ip(src, dst, v) == [NoRec EXCEPT !.src = src, !.dst = dst, !.vers = v, !.proto = p,
                                         !.srcport = ports[1], !.dstport = ports[2]]
    IN CASE s.vlan > MAX_VLANS ->
              [rec |-> NoRec, stats |-> [NoStats EXCEPT !.captured = 1, !.dll_errors = 1]]
         [] s.net = "arp" ->
              [rec |-> NoRec, stats |-> [NoStats EXCEPT !.captured = 1, !.dll_errors = 1,
                                                        !.other_net_layer = 1]]
         [] s.net = "v4" ->
              [rec |-> ip(<<10, 0, 0, 1>>, <<10, 0, 0, 2>>, 4), stats |-> counted("ipv4")]
         [] OTHER ->
              [rec |-> ip(Addr6(1), Addr6(2), 6), stats |-> counted("ipv6")]

\* The fields and counters packet_parse leaves for a complete packet are
\* those the spec's description of the parse gives (4.D): index_bucket
\* keys the flow, port and address trees on them.
ParsesAsSpecified ==
    pc = "done" /\ stack.cut = 0 =>
        rec = Expected(stack).rec /\ stats = Expected(stack).stats

\* The parse of every packet ends: index_bucket's loop over the chain, and
\* with it the indexer thread, must not stop on one packet.
ParseTerminates == <>(pc = "done")

\* No parse function reads at or past header->caplen: every length check
\* of network.c compares with header->len, and the bytes past caplen in
\* the bucket are the next packet's record.
ReadsInPacket == ~oob
====
