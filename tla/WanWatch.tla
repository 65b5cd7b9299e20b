------------------------------ MODULE WanWatch ------------------------------
(***************************************************************************)
(* The watch on the home WAN address: wan_watch.py and its systemd units.  *)
(*                                                                         *)
(* aura-address-check.service compares what the router reports with the    *)
(* configured address, every three minutes and before any service starts.  *)
(* On a mismatch it leaves the marker ADDRESS-REPAIR, makes it durable and *)
(* only then queues a stop of every service; a unit condition keeps them   *)
(* from starting while the marker is there.  An address it cannot read, or *)
(* one that is not public, only fails the check.                           *)
(***************************************************************************)
EXTENDS Integers, FiniteSets

CONSTANTS
  Services,   \* SERVICES: the units the watch stops
  Addresses,  \* the public addresses the router may report
  Unknown,    \* the router is unreadable, or reports no public address
  MaxFaults   \* bound: failed commands, kills, power losses

ASSUME WanAssumption ==
  /\ Addresses # {} /\ Unknown \notin Addresses
  /\ MaxFaults \in Nat

VARIABLES
  wan,        \* what the router would report now
  expected,   \* expectedIPv4 of wan-observer.json
  pc,         \* where the check is: systemd runs one at a time
  todo,       \* the services it has still to stop
  marker,     \* ADDRESS-REPAIR is there
  markerLog,  \* what a power loss could make of that
  unit,       \* the state of each service
  halted,     \* history: stopped under the marker, and no repair since
  faults      \* faults so far

checkVars == <<pc, todo>>
diskVars  == <<marker, markerLog>>
vars == <<wan, expected, checkVars, diskVars, unit, halted, faults>>

\* "waiting": for the check; "ready": for its condition to be evaluated.
UnitState == {"down", "waiting", "ready", "up", "stopping"}

Init ==
  /\ wan \in Addresses /\ expected = wan
  /\ pc = "idle" /\ todo = {}
  /\ marker = FALSE /\ markerLog = {FALSE}
  /\ unit = [s \in Services |-> "down"]
  /\ halted = {}
  /\ faults = 0

-----------------------------------------------------------------------------
\* Definitions marked "mutant" are bugs the code does not have; no action uses one.
Fault == faults < MaxFaults /\ faults' = faults + 1

\* The check is over.  When it fails systemd drops the start jobs that wait for
\* it; a restart job goes on to evaluate its condition.
End == pc' = "idle" /\ todo' = {}
Pass(u) == [s \in Services |-> IF u[s] = "waiting" THEN "ready" ELSE u[s]]
Verdicts(u) ==
  {v \in [Services -> UnitState] : \A s \in Services :
     IF u[s] = "waiting" THEN v[s] \in {"down", "ready"} ELSE v[s] = u[s]}

-----------------------------------------------------------------------------
(***************************************************************************)
(* The check: observe and enforce.                                         *)
(***************************************************************************)
Timer ==
  /\ pc = "idle"
  /\ pc' = "observe"
  /\ UNCHANGED <<wan, expected, todo, diskVars, unit, halted, faults>>

\* Mutant: nothing to do when the marker is there already.
UnmarkedMismatch == wan # expected /\ ~marker
Mismatch == wan # expected

Observe ==
  /\ pc = "observe"
  /\ IF wan = Unknown THEN End /\ unit' \in Verdicts(unit)
     ELSE IF Mismatch THEN pc' = "mark" /\ UNCHANGED <<todo, unit>>
     ELSE End /\ unit' = Pass(unit)
  /\ UNCHANGED <<wan, expected, diskVars, halted, faults>>

\* Mutant: the stops are prepared before the marker is durable.
MarkAndQueue ==
  /\ pc = "mark"
  /\ pc' = "sync"
  /\ marker' = TRUE
  /\ markerLog' = markerLog \cup {TRUE}
  /\ todo' = Services
  /\ UNCHANGED <<wan, expected, unit, halted, faults>>

Mark ==
  /\ pc = "mark"
  /\ pc' = "sync"
  /\ marker' = TRUE
  /\ markerLog' = markerLog \cup {TRUE}
  /\ UNCHANGED <<wan, expected, todo, unit, halted, faults>>

\* Mutant: the directory is not synced.
Unsynced == markerLog
Synced == {marker}

SyncMarker ==
  /\ pc = "sync"
  /\ pc' = "stop"
  /\ todo' = Services
  /\ markerLog' = Synced
  /\ UNCHANGED <<wan, expected, marker, unit, halted, faults>>

\* systemctl --no-block stop: a job that waits is replaced.
QueueStop(s) ==
  /\ pc = "stop" /\ s \in todo
  /\ todo' = todo \ {s}
  /\ unit' = [unit EXCEPT ![s] = IF @ \in {"up", "stopping"} THEN "stopping" ELSE "down"]
  /\ halted' = IF marker THEN halted \cup {s} ELSE halted
  /\ UNCHANGED <<wan, expected, pc, diskVars, faults>>

\* A stop that fails does not keep the others from being tried.
StopFails(s) ==
  /\ pc = "stop" /\ s \in todo
  /\ Fault
  /\ todo' = todo \ {s}
  /\ UNCHANGED <<wan, expected, pc, diskVars, unit, halted>>

Raise ==
  /\ pc = "stop" /\ todo = {}
  /\ End
  /\ unit' \in Verdicts(unit)
  /\ UNCHANGED <<wan, expected, diskVars, halted, faults>>

\* The marker cannot be written, or TimeoutStartSec is over.
Abort ==
  /\ pc # "idle"
  /\ Fault
  /\ End
  /\ unit' \in Verdicts(unit)
  /\ UNCHANGED <<wan, expected, diskVars, halted>>

-----------------------------------------------------------------------------
(***************************************************************************)
(* The services' units: DEPENDENCY.                                        *)
(***************************************************************************)
\* A boot, an operator or Restart=on-failure asks for a start, a deploy hook or
\* an operator for a restart, which takes a running service down first.  Both
\* pull the check in; one that is running already serves this request too.
Request(s) ==
  /\ unit[s] \in {"down", "up", "stopping"}
  /\ unit' = [unit EXCEPT ![s] = "waiting"]
  /\ pc' = IF pc = "idle" THEN "observe" ELSE pc
  /\ UNCHANGED <<wan, expected, todo, diskVars, halted, faults>>

\* ConditionPathExists=!ADDRESS-REPAIR
Start(s) ==
  /\ unit[s] = "ready"
  /\ unit' = [unit EXCEPT ![s] = IF marker THEN "down" ELSE "up"]
  /\ UNCHANGED <<wan, expected, checkVars, diskVars, halted, faults>>

Stopped(s) ==
  /\ unit[s] = "stopping"
  /\ unit' = [unit EXCEPT ![s] = "down"]
  /\ UNCHANGED <<wan, expected, checkVars, diskVars, halted, faults>>

\* The service exits, its start is dropped because another unit it requires
\* failed, or somebody else stops it.
Exit(s) ==
  /\ unit[s] \in {"waiting", "ready", "up"}
  /\ unit' = [unit EXCEPT ![s] = "down"]
  /\ UNCHANGED <<wan, expected, checkVars, diskVars, halted, faults>>

-----------------------------------------------------------------------------
WanChanges ==
  /\ wan' \in (Addresses \cup {Unknown}) \ {wan}
  /\ UNCHANGED <<expected, checkVars, diskVars, unit, halted, faults>>

\* The operator's procedure, with every service offline.
Repair ==
  /\ marker /\ wan # Unknown
  /\ \A s \in Services : unit[s] = "down"
  /\ expected' = wan
  /\ marker' = FALSE /\ markerLog' = {FALSE}
  /\ halted' = {}
  /\ UNCHANGED <<wan, checkVars, unit, faults>>

PowerLoss ==
  /\ Fault
  /\ marker' \in markerLog
  /\ markerLog' = {marker'}
  /\ unit' = [s \in Services |-> "down"]
  /\ End
  /\ UNCHANGED <<wan, expected, halted>>

-----------------------------------------------------------------------------
CheckStep ==
  \/ Observe \/ Mark \/ SyncMarker \/ Raise
  \/ \E s \in Services : QueueStop(s)

UnitStep(s) == Start(s) \/ Stopped(s)

Next ==
  \/ Timer \/ CheckStep \/ Abort
  \/ \E s \in Services : StopFails(s) \/ Request(s) \/ UnitStep(s) \/ Exit(s)
  \/ WanChanges \/ Repair \/ PowerLoss

Spec == Init /\ [][Next]_vars

\* The timer fires, a check ends (TimeoutStartSec), and systemd carries out the
\* jobs it has queued.
LiveSpec ==
  /\ Spec
  /\ WF_vars(Timer) /\ WF_vars(CheckStep)
  /\ \A s \in Services : WF_vars(UnitStep(s))

-----------------------------------------------------------------------------
\* Every variable keeps its type, and the files are what a power loss could leave.
TypeOK ==
  /\ wan \in Addresses \cup {Unknown} /\ expected \in Addresses
  /\ pc \in {"idle", "observe", "mark", "sync", "stop"}
  /\ todo \subseteq Services /\ (todo # {} => pc = "stop")
  /\ marker \in BOOLEAN /\ marker \in markerLog /\ markerLog \subseteq BOOLEAN
  /\ unit \in [Services -> UnitState]
  /\ halted \subseteq Services
  /\ faults \in 0 .. MaxFaults

\* A service the watch has stopped stays down until the operator's repair: no
\* start that was under way, no reboot, no restart by somebody else brings it
\* back, whatever the router reports in the meantime.
HaltedStayDown ==
  \A s \in halted : unit[s] # "up" /\ markerLog = {TRUE}

\* Why that holds, an inductive invariant: the stops are queued when the marker,
\* if it is still there, can no longer be lost.
WatchInv ==
  /\ TypeOK
  /\ HaltedStayDown
  /\ pc = "stop" => markerLog = {marker}

\* If the router goes on reporting another address, every service is down for
\* good, even when single checks fail half-way.
LastingChangeStopsAll ==
  <>[](wan \in Addresses \ {expected}) => <>[](\A s \in Services : unit[s] # "up")

\* The header of wan_watch.py: "A confirmed change quarantines public
\* advertising until the operator provisions a new IP certificate": once the
\* marker is there the services go down.
MarkedGoDown ==
  marker ~> (~marker \/ \A s \in Services : unit[s] # "up")
=============================================================================
