--------------------------- MODULE MC_PacketParse ---------------------------
(***************************************************************************)
(* Bounded packets for PacketParse: up to one VLAN tag past the limit of   *)
(* three, MPLS stacks of up to two labels, IPv4, IPv6 with extension       *)
(* chains of up to two headers (ESP only last), ARP, and TCP, UDP or       *)
(* ICMP on top.  The bytes after a packet in the bucket are zeros.         *)
(***************************************************************************)
EXTENDS PacketParse

ExtKinds == {0, 60, 43, 51, 50}

\* The extension chains of at most two headers in which ESP, whose payload
\* is encrypted, comes last.
Chains == {<<>>} \cup {<<e>> : e \in ExtKinds}
          \cup {<<e, f>> : e \in ExtKinds \ {50}, f \in ExtKinds}

MC_Input ==
    {[vlan |-> v, mpls |-> m, net |-> "v4", ext |-> <<>>, l4 |-> p, cut |-> 0] :
        v \in 0 .. 4, m \in 0 .. 2, p \in {TCP, UDP, 1}}
    \cup {[vlan |-> v, mpls |-> m, net |-> "v6", ext |-> c, l4 |-> p, cut |-> 0] :
        v \in 0 .. 4, m \in 0 .. 2, c \in Chains, p \in {TCP, UDP, 58}}
    \cup {[vlan |-> v, mpls |-> m, net |-> "arp", ext |-> <<>>, l4 |-> 0, cut |-> 0] :
        v \in 0 .. 4, m \in 0 .. 2}

\* Mobility headers (RFC 6275) of length 0, i.e. 8 bytes: one whose
\* payload protocol is "no next header" (59) as the RFC asks, and one that
\* names the mobility header itself.
MC_Mobility ==
    {[vlan |-> 0, mpls |-> 0, net |-> "v6", ext |-> <<135>>, l4 |-> p, cut |-> 0] :
        p \in {59, 135}}

\* A TCP packet over IPv4 whose capture kept all but its last 8 bytes, or
\* only its first 4 (a snaplen shorter than the packet).
MC_Truncated ==
    {[vlan |-> 0, mpls |-> 0, net |-> "v4", ext |-> <<>>, l4 |-> TCP, cut |-> c] :
        c \in {8, 50}}
====
