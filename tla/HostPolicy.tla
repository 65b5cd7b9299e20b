----------------------------- MODULE HostPolicy -----------------------------
(***************************************************************************)
(* Which packets reach which service of the home host: the nftables tables *)
(* rendered by owner_guard.py, host_guard.py and local_endpoints.py, and   *)
(* the sockets and the router review that self_hosted.py lays out.         *)
(*                                                                         *)
(* A packet the host receives passes the input chain of every table that   *)
(* is loaded: an accept ends one chain only, a drop is final.  A packet    *)
(* the host sends is rewritten by the output chain first.                  *)
(***************************************************************************)
EXTENDS Integers, FiniteSets

CONSTANT AdministrationUDP  \* the port of the inventoried administration overlay

ASSUME PolicyAssumption == AdministrationUDP \in 1024 .. 65535

\* The product-owned tables, each loaded by a unit of its own.
OwnerGuard     == "aura_home"
HostGuard      == "aura_public_input"
LocalEndpoints == "aura_local_endpoints"
Tables == {OwnerGuard, HostGuard, LocalEndpoints}

Server == "aura-server"
Derp   == "aura-derp"
Rendezvous == "aura-rendezvous"

\* Before= of a guard's UNIT, Requires= and After= of its DEPENDENCY drop-in.
\* Mutant: the owner guard is left out.
RequiresWithoutOwner(s) == {HostGuard, LocalEndpoints}
RequiredTables(s) ==
  {HostGuard, LocalEndpoints} \cup IF s = Server THEN {OwnerGuard} ELSE {}

-----------------------------------------------------------------------------
(***************************************************************************)
(* Packets, by what the rules tell apart.  "lan4" is lan_network, "lan6"   *)
(* the observed /64; a destination "lan" is the host's lan_address.        *)
(***************************************************************************)
Inside6 == {"lan6", "linkLocal"}
Outside == {"wan4", "wan6", "overlay"}
Source  == {"self", "lan4"} \cup Inside6 \cup Outside

NeverForward == {4533, 4534, 4789, 22}
Port == NeverForward \cup {68, 80, 546, 3478, 8443, 8444, 9443, AdministrationUDP}

\* Only the host itself sends to its public address; 0 is any other source port.
Packet ==
  {p \in [src : Source, dst : {"lan", "public", "other", "v6"}, proto : {"tcp", "udp", "icmp"},
          sport : {0, 67, 547}, dport : Port, ct : {"new", "established", "invalid"}] :
     /\ p.src \in Inside6 \cup {"wan6"} <=> p.dst = "v6"
     /\ p.dst = "public" => p.src = "self"}

To(p, proto, ports) == p.proto = proto /\ p.dport \in ports

-----------------------------------------------------------------------------
\* local_endpoints.py: chain output.
LocalEndpoint(p) == p.dst = "public" /\ (To(p, "tcp", {8443, 8444, 9443}) \/ To(p, "udp", {3478}))

Routed(p, loaded) ==
  IF LocalEndpoints \in loaded /\ p.src = "self" /\ LocalEndpoint(p)
  THEN [p EXCEPT !.dst = "lan"] ELSE p

\* Mutant: administration is trusted here too.
TrustsOverlay(p) ==
  ~(p.dst = "lan" /\ To(p, "tcp", {9443}) /\ p.src \notin {"lan4", "self", "overlay"})
\* owner_guard.py: chain owner_input.  The host's own address is in lan_network.
OwnerInput(p) ==
  ~(p.dst = "lan" /\ To(p, "tcp", {9443}) /\ p.src \notin {"lan4", "self"})

PublicPorts(p) == p.dst = "lan" /\ (To(p, "tcp", {80, 8443, 8444}) \/ To(p, "udp", {3478}))
DHCP(p) == (p.sport = 67 /\ To(p, "udp", {68})) \/ (p.sport = 547 /\ To(p, "udp", {546}))

\* Mutant: no drop at the end, and an accepting policy.
AcceptsByDefault(p) == p.ct # "invalid"
\* host_guard.py: chain input, whose policy is to drop.
PublicInput(p) ==
  /\ p.ct # "invalid"
  /\ \/ p.src \in {"self", "overlay", "lan4"} \cup Inside6
     \/ p.ct = "established"
     \/ p.proto = "icmp"
     \/ DHCP(p) \/ PublicPorts(p)
     \/ To(p, "udp", {AdministrationUDP})

Admitted(p, loaded) ==
  /\ OwnerGuard \in loaded => OwnerInput(p)
  /\ HostGuard \in loaded => PublicInput(p)

-----------------------------------------------------------------------------
\* -listen and -stun of the rendered units, and the owner listener.
Listens(s, p) ==
  /\ p.dst = "lan"
  /\ CASE s = Derp       -> To(p, "tcp", {8443}) \/ To(p, "udp", {3478})
       [] s = Rendezvous -> To(p, "tcp", {8444})
       [] OTHER          -> To(p, "tcp", {9443})

Reaches(p, s, loaded) ==
  LET q == Routed(p, loaded) IN Admitted(q, loaded) /\ Listens(s, q)

\* Who can send a packet to the service, with some tables loaded.
Senders(s, loaded) == {p.src : p \in {q \in Packet : Reaches(q, s, loaded)}}

\* The endpoints written into region.json, the Android build and ownerHost:
\* what a client, and the host itself, send to the public address.
Endpoint(s) ==
  CASE s = Derp       -> {<<"tcp", 8443>>, <<"udp", 3478>>}
    [] s = Rendezvous -> {<<"tcp", 8444>>}
    [] OTHER          -> {<<"tcp", 9443>>}

\* Does every endpoint of the service work, from the host and from a client?
\* The router sends what a client addressed to the public address to "lan".
Opens(s, e, src, dst, loaded) ==
  \A p \in Packet :
    p.src = src /\ p.dst = dst /\ p.proto = e[1] /\ p.dport = e[2] /\ p.ct = "new"
      => Reaches(p, s, loaded)

EndpointsOpen(s, loaded) ==
  \A e \in Endpoint(s) :
    /\ Opens(s, e, "self", "public", loaded)
    /\ Opens(s, e, IF s = Server THEN "lan4" ELSE "wan4", "lan", loaded)

\* The ports the outside can open, whatever listens there.
OpenToWan(loaded) ==
  {p.dport : p \in {q \in Packet : q.src \in {"wan4", "wan6"} /\ q.ct = "new"
                                    /\ q.proto # "icmp" /\ Admitted(q, loaded)}}
=============================================================================
