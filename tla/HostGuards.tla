----------------------------- MODULE HostGuards -----------------------------
(***************************************************************************)
(* The services behind their guards: the address watch of WanWatch         *)
(* composed with the nftables units whose policy is in HostPolicy.         *)
(*                                                                         *)
(* Every guard is a oneshot that replaces its table in one transaction;    *)
(* stopping it leaves the table, a boot starts without one.  A service     *)
(* starts after the guards it requires have succeeded, and not at all when *)
(* one fails.                                                              *)
(***************************************************************************)
EXTENDS WanWatch, HostPolicy

ASSUME GuardAssumption ==
  /\ Server \in Services
  /\ Services \subseteq {Server, Derp, Rendezvous}

VARIABLE tables  \* the product-owned tables in the kernel

hostVars == <<vars, tables>>

HostInit == Init /\ tables = {}

-----------------------------------------------------------------------------
\* nft -f: a boot, or the start of a service, starts the guard.  One that fails
\* changes nothing; the services that require it are dropped (Exit).
LoadTable(t) ==
  /\ tables' = tables \cup {t}
  /\ UNCHANGED vars

GuardedStart(s) ==
  /\ Start(s)
  /\ RequiredTables(s) \subseteq tables
  /\ UNCHANGED tables

Reboot == PowerLoss /\ tables' = {}

\* The jobs and the check of WanWatch that no guard is asked for.
Unguarded ==
  /\ \/ Timer \/ CheckStep \/ Abort
     \/ \E s \in Services : StopFails(s) \/ Request(s) \/ Stopped(s) \/ Exit(s)
     \/ WanChanges \/ Repair
  /\ UNCHANGED tables

HostNext ==
  \/ Unguarded
  \/ \E s \in Services : GuardedStart(s)
  \/ \E t \in Tables : LoadTable(t)
  \/ Reboot

HostSpec == HostInit /\ [][HostNext]_hostVars

\* As in WanWatch; nothing is asked of a guard.
HostLiveSpec ==
  /\ HostSpec
  /\ WF_hostVars(Timer /\ UNCHANGED tables)
  /\ WF_hostVars(CheckStep /\ UNCHANGED tables)
  /\ \A s \in Services :
       WF_hostVars(GuardedStart(s) \/ (Stopped(s) /\ UNCHANGED tables))

-----------------------------------------------------------------------------
Serving(s) == unit[s] \in {"up", "stopping"}

\* With these tables only the LAN and the host itself reach the owner listener.
PrivateTables == {loaded \in SUBSET Tables : Senders(Server, loaded) \subseteq {"self", "lan4"}}

\* With these the outside can open no port that must never be forwarded.
ReviewedTables ==
  {loaded \in SUBSET Tables : OpenToWan(loaded) \cap NeverForward \subseteq {AdministrationUDP}}

\* With these every endpoint of the service works.
OpenTables == {e \in {Server, Derp, Rendezvous} \X SUBSET Tables : EndpointsOpen(e[1], e[2])}

\* As long as the server may answer, only the LAN and the host itself reach the
\* owner listener, whatever is installed, rebooted or restarted in which order.
OwnerListenerPrivate == Serving(Server) => tables \in PrivateTables

\* As long as a service may answer, each of its advertised endpoints works for
\* the host and for those it is meant for, and the outside can open no port
\* that the router review says must never be forwarded.
SurfaceAsReviewed ==
  \A s \in Services : Serving(s) =>
    tables \in ReviewedTables /\ <<s, tables>> \in OpenTables

\* Why both hold, an inductive invariant: a service that may answer has every
\* table it requires.
GuardInv ==
  /\ tables \subseteq Tables
  /\ \A s \in Services : Serving(s) => RequiredTables(s) \subseteq tables
=============================================================================
