----------------------------- MODULE MCDatapath -----------------------------
(* Instances of Datapath for TLC. *)
EXTENDS Datapath

CONSTANTS client, client2, stranger

MCHosts == {Server, client, client2}

Ip(src, what) == [type |-> "ipv4", local |-> TRUE, what |-> what, src |-> src,
                  port |-> TRUE, fits |-> TRUE]
Arp(src, what) == [type |-> "arp", local |-> TRUE, what |-> what, src |-> src,
                   port |-> FALSE, fits |-> TRUE]

\* A request, a reply, a packet from an unknown host, an ARP request and
\* an ARP reply.
MCFrames == {Ip(client, "udp"), Ip(Server, "udp"), Ip(stranger, "udp"),
             Arp(client, "request"), Arp(client, "reply")}

\* Requests of two clients, and replies.
TwoClients == {Ip(client, "udp"), Ip(client2, "udp"), Ip(Server, "udp")}

Symmetry == Permutations(Buf)
=============================================================================
