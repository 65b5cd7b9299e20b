------------------------- MODULE HostGuards_proofs -------------------------
(***************************************************************************)
(* Proofs about the services of a host: WatchInv of the address watch is   *)
(* inductive, so a service that was stopped under the marker stays down    *)
(* until the operator's repair; behind the guards the watch is the same,   *)
(* and a server that may answer is private.                                *)
(***************************************************************************)
EXTENDS HostGuards, TLAPS

\* Nothing is running and nothing is marked at first.
LEMMA InitInv == Init => WatchInv
<1> SUFFICES ASSUME Init PROVE WatchInv
  OBVIOUS
<1>1. wan \in Addresses \cup {Unknown} /\ expected \in Addresses /\ faults \in 0 .. MaxFaults
  BY WanAssumption DEF Init
<1>2. marker \in BOOLEAN /\ marker \in markerLog /\ markerLog \subseteq BOOLEAN
  BY Zenon DEF Init
<1> QED
  BY <1>1, <1>2 DEF Init, WatchInv, TypeOK, HaltedStayDown, UnitState

\* A verdict of the check starts no service by itself.
LEMMA VerdictFacts ==
  ASSUME TypeOK
  PROVE  /\ \A v \in Verdicts(unit) :
              /\ v \in [Services -> UnitState]
              /\ \A s \in Services : v[s] = "up" => unit[s] = "up"
         /\ Pass(unit) \in [Services -> UnitState]
         /\ \A s \in Services : Pass(unit)[s] = "up" => unit[s] = "up"
  BY DEF TypeOK, Verdicts, Pass, UnitState

\* Every step keeps the invariant.
LEMMA NextInv == WatchInv /\ [Next]_vars => WatchInv'
<1> SUFFICES ASSUME WatchInv, [Next]_vars PROVE WatchInv'
  OBVIOUS
<1> USE WanAssumption DEF diskVars, checkVars
<1>0. TypeOK /\ HaltedStayDown /\ (pc = "stop" => markerLog = {marker})
  BY DEF WatchInv
<1>a. Fault => faults' \in 0 .. MaxFaults
  BY <1>0 DEF Fault, TypeOK
<1>1. CASE Timer
  BY <1>1 DEF Timer, WatchInv, TypeOK, HaltedStayDown
<1>2. CASE Observe
  BY <1>0, <1>2, VerdictFacts DEF Observe, End, WatchInv, TypeOK, HaltedStayDown
<1>3. CASE Mark
  BY <1>3 DEF Mark, WatchInv, TypeOK, HaltedStayDown
<1>4. CASE SyncMarker
  BY <1>4 DEF SyncMarker, Synced, WatchInv, TypeOK, HaltedStayDown
<1>5. ASSUME NEW s \in Services, QueueStop(s) PROVE WatchInv'
  BY <1>0, <1>5 DEF QueueStop, WatchInv, TypeOK, HaltedStayDown, UnitState
<1>6. ASSUME NEW s \in Services, StopFails(s) PROVE WatchInv'
  BY <1>0, <1>a, <1>6 DEF StopFails, WatchInv, TypeOK, HaltedStayDown
<1>7. CASE Raise
  BY <1>0, <1>7, VerdictFacts DEF Raise, End, WatchInv, TypeOK, HaltedStayDown
<1>8. CASE Abort
  BY <1>0, <1>a, <1>8, VerdictFacts DEF Abort, End, WatchInv, TypeOK, HaltedStayDown
<1>9. ASSUME NEW s \in Services, Request(s) PROVE WatchInv'
  BY <1>0, <1>9 DEF Request, WatchInv, TypeOK, HaltedStayDown, UnitState
<1>10. ASSUME NEW s \in Services, UnitStep(s) \/ Exit(s) PROVE WatchInv'
  BY <1>0, <1>10 DEF UnitStep, Start, Stopped, Exit, WatchInv, TypeOK, HaltedStayDown, UnitState
<1>11. CASE WanChanges
  BY <1>11 DEF WanChanges, WatchInv, TypeOK, HaltedStayDown
<1>12. CASE Repair
  BY <1>12 DEF Repair, WatchInv, TypeOK, HaltedStayDown
<1>13. CASE PowerLoss
  <2>1. marker' \in BOOLEAN /\ marker' \in markerLog' /\ markerLog' \subseteq BOOLEAN
    BY <1>0, <1>13, Zenon DEF PowerLoss, TypeOK
  <2>2. \A s \in halted : markerLog' = {TRUE}
    BY <1>0, <1>13 DEF PowerLoss, HaltedStayDown
  <2> QED
    BY <1>0, <1>a, <1>13, <2>1, <2>2
    DEF PowerLoss, End, WatchInv, TypeOK, HaltedStayDown, UnitState
<1>14. CASE UNCHANGED vars
  BY <1>14 DEF vars, WatchInv, TypeOK, HaltedStayDown
<1> QED
  BY <1>1, <1>2, <1>3, <1>4, <1>5, <1>6, <1>7, <1>8, <1>9, <1>10, <1>11, <1>12, <1>13, <1>14
  DEF Next, CheckStep

\* The invariant holds for any services, addresses and number of faults: the
\* stops are queued when the marker can no longer be lost.
THEOREM WatchInvHolds == Spec => []WatchInv
  BY InitInv, NextInv, PTL DEF Spec

\* A service the watch has stopped stays down until the operator's repair, for
\* any services, addresses and number of faults.
THEOREM QuarantineHolds == Spec => []HaltedStayDown
<1>1. WatchInv => HaltedStayDown
  BY DEF WatchInv
<1> QED
  BY <1>1, WatchInvHolds, PTL

\* Every reachable state of the watch is well typed; stops are not queued without
\* the marker.
THEOREM WatchTypes == Spec => []TypeOK
<1>1. WatchInv => TypeOK
  BY DEF WatchInv
<1> QED
  BY <1>1, WatchInvHolds, PTL

-----------------------------------------------------------------------------
(***************************************************************************)
(* The watch behind the guards.                                            *)
(***************************************************************************)
\* Every step of the composition is a step of the watch, or leaves it alone.
LEMMA StepRefines == [HostNext]_hostVars => [Next]_vars
  BY DEF HostNext, hostVars, Unguarded, GuardedStart, LoadTable, Reboot, Next, UnitStep

\* What is proved of the watch holds behind the guards too.
THEOREM GuardedWatch == HostSpec => Spec
<1>1. HostInit => Init
  BY DEF HostInit
<1> QED
  BY <1>1, StepRefines, PTL DEF HostSpec, Spec

\* A service that the watch has stopped stays down, whatever becomes of the
\* guards meanwhile.
THEOREM GuardedHaltedStayDown == HostSpec => []HaltedStayDown
  BY GuardedWatch, QuarantineHolds, PTL

-----------------------------------------------------------------------------
\* With the owner guard loaded nobody else reaches the owner listener, whichever
\* other tables are loaded.
LEMMA OwnerGuardSuffices ==
  ASSUME NEW loaded \in SUBSET Tables, OwnerGuard \in loaded
  PROVE  Senders(Server, loaded) \subseteq {"self", "lan4"}
<1>1. ASSUME NEW p \in Packet, Reaches(p, Server, loaded)
      PROVE  p.src \in {"self", "lan4"}
  <2> DEFINE q == Routed(p, loaded)
  <2>1. OwnerInput(q) /\ Listens(Server, q)
    BY <1>1, OwnerGuard \in loaded DEF Reaches, Admitted
  <2>2. q.dst = "lan" /\ To(q, "tcp", {9443})
    BY <2>1 DEF Listens, Server, Derp, Rendezvous
  <2>3. q.src \in {"self", "lan4"}
    BY <2>1, <2>2 DEF OwnerInput
  <2>4. q.src = p.src
    BY DEF Routed, Packet
  <2> QED
    BY <2>3, <2>4
<1>2. Senders(Server, loaded) = {p.src : p \in {r \in Packet : Reaches(r, Server, loaded)}}
  BY DEF Senders
<1> QED
  BY <1>1, <1>2

\* With the host guard loaded the outside can open no port that must never be
\* forwarded, the inventoried administration port excepted.
LEMMA HostGuardSuffices ==
  ASSUME NEW loaded \in SUBSET Tables, HostGuard \in loaded
  PROVE  OpenToWan(loaded) \cap NeverForward \subseteq {AdministrationUDP}
<1>1. ASSUME NEW p \in Packet, p.src \in {"wan4", "wan6"}, p.ct = "new", p.proto # "icmp",
             Admitted(p, loaded), p.dport \in NeverForward
      PROVE  p.dport = AdministrationUDP
  BY <1>1, HostGuard \in loaded
     DEF Admitted, PublicInput, DHCP, PublicPorts, To, NeverForward, Inside6
<1> QED
  BY <1>1 DEF OpenToWan

\* What the router sends on, and what the host sends to itself once the local
\* endpoints are loaded, passes both guards and meets its listener.
LEMMA EndpointsWork ==
  ASSUME NEW loaded \in SUBSET Tables, {HostGuard, LocalEndpoints} \subseteq loaded,
         NEW s \in {Server, Derp, Rendezvous}
  PROVE  EndpointsOpen(s, loaded)
<1>1. ASSUME NEW q, q.dst = "lan", q.ct = "new", NEW e \in Endpoint(s), To(q, e[1], {e[2]}),
             q.src \in {"self", "lan4"} \/ (q.src = "wan4" /\ s # Server)
      PROVE  Admitted(q, loaded) /\ Listens(s, q)
  <2>1. Listens(s, q)
    BY <1>1 DEF Endpoint, Listens, To, Server, Derp, Rendezvous
  <2>2. OwnerInput(q) /\ PublicInput(q)
    BY <1>1 DEF Endpoint, OwnerInput, PublicInput, PublicPorts, To, Server, Derp, Rendezvous
  <2> QED
    BY <2>1, <2>2 DEF Admitted
<1>2. ASSUME NEW e \in Endpoint(s)
      PROVE  Opens(s, e, "self", "public", loaded)
  <2> SUFFICES ASSUME NEW p \in Packet, p.src = "self", p.dst = "public",
                      p.proto = e[1], p.dport = e[2], p.ct = "new"
               PROVE  Reaches(p, s, loaded)
    BY DEF Opens
  <2>1. LocalEndpoint(p)
    BY <1>2 DEF Endpoint, LocalEndpoint, To, Server, Derp, Rendezvous
  <2>2. Routed(p, loaded) = [p EXCEPT !.dst = "lan"]
    BY <2>1 DEF Routed
  <2> DEFINE q == [p EXCEPT !.dst = "lan"]
  <2>3. q.dst = "lan" /\ q.ct = "new" /\ To(q, e[1], {e[2]}) /\ q.src = "self"
    BY DEF Packet, To
  <2> QED
    BY <1>1, <1>2, <2>2, <2>3 DEF Reaches
<1>3. ASSUME NEW e \in Endpoint(s)
      PROVE  Opens(s, e, IF s = Server THEN "lan4" ELSE "wan4", "lan", loaded)
  <2> SUFFICES ASSUME NEW p \in Packet, p.src = (IF s = Server THEN "lan4" ELSE "wan4"),
                      p.dst = "lan", p.proto = e[1], p.dport = e[2], p.ct = "new"
               PROVE  Reaches(p, s, loaded)
    BY DEF Opens
  <2>1. Routed(p, loaded) = p
    BY DEF Routed
  <2> QED
    BY <1>1, <1>3, <2>1 DEF Reaches, To
<1> QED
  BY <1>2, <1>3 DEF EndpointsOpen

\* At first nothing is up.
LEMMA GuardInit == HostInit => GuardInv
  BY DEF HostInit, Init, GuardInv, Serving

\* A step that can make a service serve is the guarded start.
LEMMA GuardNext == TypeOK /\ GuardInv /\ [HostNext]_hostVars => GuardInv'
<1> SUFFICES ASSUME TypeOK, GuardInv, [HostNext]_hostVars PROVE GuardInv'
  OBVIOUS
<1> USE DEF GuardInv, Serving, TypeOK
<1>1. CASE Unguarded
  <2>1. ASSUME NEW s \in Services
        PROVE  unit'[s] \in {"up", "stopping"} => unit[s] \in {"up", "stopping"}
    <3>1. CASE Observe
      BY <2>1, <3>1, VerdictFacts DEF Observe, Verdicts, Pass
    <3>2. CASE Raise \/ Abort
      BY <2>1, <3>2 DEF Raise, Abort, Verdicts
    <3>3. ASSUME NEW t \in Services, QueueStop(t) \/ Request(t) \/ Stopped(t) \/ Exit(t) 
             PROVE  unit'[s] \in {"up", "stopping"} => unit[s] \in {"up", "stopping"}
      BY <2>1, <3>3 DEF QueueStop, Request, Stopped, Exit
    <3>4. CASE UNCHANGED unit
      BY <3>4
    <3> QED
      BY <1>1, <3>1, <3>2, <3>3, <3>4
         DEF Unguarded, CheckStep, Timer, Mark, SyncMarker, StopFails, WanChanges, Repair
  <2> QED
    BY <1>1, <2>1 DEF Unguarded
<1>2. ASSUME NEW s \in Services, GuardedStart(s) PROVE GuardInv'
  BY <1>2 DEF GuardedStart, Start
<1>3. ASSUME NEW t \in Tables, LoadTable(t) PROVE GuardInv'
  BY <1>3 DEF LoadTable, vars
<1>4. CASE Reboot
  BY <1>4 DEF Reboot, PowerLoss
<1>5. CASE UNCHANGED hostVars
  BY <1>5 DEF hostVars, vars
<1> QED
  BY <1>1, <1>2, <1>3, <1>4, <1>5 DEF HostNext

\* A service that may answer has every table it requires: Requires= and After= of
\* the guards' DEPENDENCY drop-ins.
THEOREM GuardsHold == HostSpec => []GuardInv
<1>1. WatchInv => TypeOK
  BY DEF WatchInv
<1> QED
  BY <1>1, GuardedWatch, WatchInvHolds, GuardInit, GuardNext, PTL DEF HostSpec

\* As long as the server may answer, only the LAN and the host itself reach the
\* owner listener: owner_guard.py, through every install, boot and restart.
THEOREM OwnerListenerPrivateHolds == HostSpec => []OwnerListenerPrivate
<1>1. GuardInv => OwnerListenerPrivate
  BY OwnerGuardSuffices, GuardAssumption
     DEF GuardInv, OwnerListenerPrivate, PrivateTables, RequiredTables, Serving
<1> QED
  BY <1>1, GuardsHold, PTL

\* As long as a service may answer, its advertised endpoints work and nothing
\* that must never be forwarded is open: host_guard.py and local_endpoints.py.
THEOREM SurfaceHolds == HostSpec => []SurfaceAsReviewed
<1>1. GuardInv => SurfaceAsReviewed
  <2> SUFFICES ASSUME GuardInv, NEW s \in Services, Serving(s)
               PROVE  tables \in ReviewedTables /\ <<s, tables>> \in OpenTables
    BY DEF SurfaceAsReviewed
  <2>1. tables \in SUBSET Tables /\ {HostGuard, LocalEndpoints} \subseteq tables
    BY DEF GuardInv, RequiredTables
  <2>2. tables \in ReviewedTables
    BY <2>1, HostGuardSuffices DEF ReviewedTables
  <2>3. s \in {Server, Derp, Rendezvous} /\ EndpointsOpen(s, tables)
    BY <2>1, EndpointsWork, GuardAssumption
  <2> QED
    BY <2>1, <2>2, <2>3 DEF OpenTables
<1> QED
  BY <1>1, GuardsHold, PTL
=============================================================================
