------------------------------ MODULE HomeHost ------------------------------
(***************************************************************************)
(* The programs of the home host at work together: the deploy hook, the    *)
(* owner refresh and the address check, which meet on the services they    *)
(* restart, stop and start.                                                *)
(*                                                                         *)
(* A hook or a refresh asks systemd for a job and waits for it; the job    *)
(* waits for the address check; the hook waits for the refresh.  Each wait *)
(* has a timeout, and the job goes on without whoever waited.  IpDeploy,   *)
(* OwnerInstall and WanWatch have the files, the power losses and the      *)
(* steps of the check; here a publication, an installation and a check are *)
(* one step each, and what matters is who is left running on what.         *)
(***************************************************************************)
EXTENDS Integers, FiniteSets

CONSTANTS
  Public,      \* the services the hook restarts: SERVICES of ip_deploy.py
  Server,      \* aura-server.service
  None,        \* no service
  MaxVersion   \* bound: how many pairs Certbot issues

ASSUME HostAssumption ==
  /\ Server \notin Public /\ None \notin Public
  /\ MaxVersion \in Nat \ {0}

Services == Public \cup {Server}
Version  == 1 .. MaxVersion

VARIABLES
  check,    \* aura-address-check.service runs
  marker,   \* ADDRESS-REPAIR is there
  unit,     \* the state of each service; "waiting": for the check
  current,  \* the version of the pair tls/current names
  owner,    \* the version of the pair in the owner directory
  backup,   \* .owner-tls-before-renewal is there
  hook,     \* the deploy hook
  refresh,  \* aura-owner-tls-refresh.service
  loaded,   \* the version each public service that is up has read, else 0
  gone,     \* history: services somebody else has taken down since they were up
  excuse    \* history: the worst that has happened around the hook at work

systemd == <<check, unit, loaded, gone>>
disk    == <<marker, current, owner, backup>>
vars    == <<systemd, disk, hook, refresh, excuse>>

UnitState == {"down", "waiting", "up"}

Hook ==
  [pc : {"idle", "sample", "publish", "restart", "wait", "confirm", "restore", "settle",
         "owner", "await", "succeeded", "failed"},
   new : Version, prev : Version, active : SUBSET Public, todo : SUBSET Public,
   at : Public \cup {None}, joined : BOOLEAN]

Refresh ==
  [pc : {"idle", "begin", "sample", "stop", "install", "start", "wait", "confirm", "drop"},
   new : Version, active : BOOLEAN, ok : BOOLEAN]

HookAt(l, v) == [pc |-> l, new |-> v, prev |-> v, active |-> {}, todo |-> {},
                 at |-> None, joined |-> FALSE]
RefreshAt(l) == [pc |-> l, new |-> 1, active |-> FALSE, ok |-> FALSE]

Init ==
  /\ check = FALSE /\ marker = FALSE
  /\ unit = [s \in Services |-> "down"]
  /\ loaded = [s \in Public |-> 0]
  /\ current = 1 /\ owner = 1 /\ backup = FALSE
  /\ hook = HookAt("idle", 1) /\ refresh = RefreshAt("idle")
  /\ gone = {} /\ excuse = "none"

-----------------------------------------------------------------------------
\* Definitions marked "mutant" are bugs the code does not have; no action uses one.
HookRuns == hook.pc \notin {"idle", "succeeded", "failed"}

Blame(why) == excuse' = IF HookRuns /\ excuse # "other" THEN why ELSE excuse

\* The units change; one that comes up loads the linked pair.
Units(u) ==
  /\ unit' = u
  /\ loaded' = [s \in Public |-> IF u[s] # "up" THEN 0
                                 ELSE IF unit[s] = "up" THEN loaded[s] ELSE current]

\* By themselves, or at somebody else's request.
Elsewhere(u) ==
  /\ Units(u)
  /\ gone' = (gone \cup {s \in Services : unit[s] = "up" /\ u[s] # "up"})
               \ {s \in Services : u[s] = "up"}

\* A start or a restart, which takes a running service down first, and the check
\* it pulls in; one that is running already serves this request too.
Queue(s) == [unit EXCEPT ![s] = "waiting"]
Ask(s) == Units(Queue(s)) /\ check' = TRUE /\ gone' = gone \ {s}

\* Mutant: a command that reports success is taken for a service that runs.
AnyState(s) == TRUE
\* systemctl is-active.
IsActive(s) == unit[s] = "up"

\* The job is over.  It reports success when it started the service and also
\* when the start condition skipped it.
Settled(s)   == unit[s] \in {"up", "down"}
Succeeded(s) == unit[s] = "up" \/ marker

-----------------------------------------------------------------------------
(***************************************************************************)
(* The deploy hook: main and publish of ip_deploy.py.                      *)
(***************************************************************************)
HookOnly == UNCHANGED <<systemd, marker, owner, backup, refresh>>

\* A renewal, or an operator runs the hook again; the lock keeps others out.
HookBegin ==
  /\ ~HookRuns
  /\ \E v \in {current, current + 1} \cap Version : hook' = HookAt("sample", v)
  /\ excuse' = IF backup THEN "other" ELSE "none"
  /\ HookOnly /\ UNCHANGED current

\* Mutant: the hook restarts the server as well, behind the refresh's back.
ServerToo == Services
Restarted == Public

HookSample ==
  /\ hook.pc = "sample"
  /\ LET active == {s \in Restarted : unit[s] = "up"}
     IN hook' = [hook EXCEPT !.pc = "publish", !.active = active, !.todo = active]
  /\ HookOnly /\ UNCHANGED <<current, excuse>>

HookPublish ==
  /\ hook.pc = "publish"
  /\ current' = hook.new
  /\ hook' = [hook EXCEPT !.pc = "restart", !.prev = current]
  /\ HookOnly /\ UNCHANGED excuse

\* systemctl restart, on the new pair or after the rollback.
HookRestart(s) ==
  /\ hook.pc \in {"restart", "restore"} /\ s \in hook.todo
  /\ Ask(s)
  /\ hook' = [hook EXCEPT !.at = s, !.todo = @ \ {s},
                          !.pc = IF @ = "restart" THEN "wait" ELSE "settle"]
  /\ UNCHANGED <<disk, refresh, excuse>>

\* What the hook had to do is over, one way or the other.
Ended(how) == [HookAt(how, hook.new) EXCEPT !.active = hook.active, !.joined = hook.joined]

Undo ==
  /\ current' = hook.prev
  /\ hook' = [hook EXCEPT !.pc = "restore", !.todo = hook.active, !.at = None]

Proceed(ok, next) ==
  IF ok THEN hook' = next /\ UNCHANGED current ELSE Undo

HookWaited ==
  /\ hook.pc = "wait" /\ Settled(hook.at)
  /\ Proceed(Succeeded(hook.at), [hook EXCEPT !.pc = "confirm"])
  /\ HookOnly /\ UNCHANGED excuse

HookConfirm ==
  /\ hook.pc = "confirm"
  /\ Proceed(IsActive(hook.at), [hook EXCEPT !.pc = "restart", !.at = None])
  /\ HookOnly /\ UNCHANGED excuse

HookRestarted ==
  /\ hook.pc = "restart" /\ hook.todo = {}
  /\ hook' = Ended("owner")
  /\ HookOnly /\ UNCHANGED <<current, excuse>>

\* After the rollback every result is ignored, and the hook raises.
HookSettled ==
  /\ \/ /\ hook.pc = "settle" /\ Settled(hook.at)
        /\ hook' = [hook EXCEPT !.pc = "restore", !.at = None]
     \/ /\ hook.pc = "restore" /\ hook.todo = {}
        /\ hook' = Ended("failed")
  /\ HookOnly /\ UNCHANGED <<current, excuse>>

\* Mutant: the hook does not wait for the refresh.
NoWait == "succeeded"
AfterStart == "await"

\* systemctl start: a refresh that is under way already is joined.
HookOwner ==
  /\ hook.pc = "owner"
  /\ hook' = [hook EXCEPT !.pc = AfterStart, !.joined = refresh.pc # "idle"]
  /\ refresh' = IF refresh.pc = "idle" THEN RefreshAt("begin") ELSE refresh
  /\ UNCHANGED <<systemd, disk, excuse>>

\* A command fails or exceeds its 60 s while systemd goes on: the restarts are
\* rolled back, before and after them the hook gives up.
HookFails ==
  /\ \/ /\ hook.pc \in {"sample", "publish", "owner", "await"}
        /\ hook' = Ended("failed") /\ UNCHANGED current
     \/ /\ hook.pc \in {"restart", "wait", "confirm"}
        /\ Undo
     \/ /\ hook.pc = "settle"
        /\ hook' = [hook EXCEPT !.pc = "restore", !.at = None] /\ UNCHANGED current
  /\ Blame("other")
  /\ HookOnly

\* TimeoutStartSec of the renewal: nothing is rolled back.
HookKilled ==
  /\ HookRuns
  /\ hook' = Ended("failed")
  /\ Blame("other")
  /\ HookOnly /\ UNCHANGED current

-----------------------------------------------------------------------------
(***************************************************************************)
(* The owner refresh: owner_ip_refresh.py and owner_install.               *)
(***************************************************************************)
HookLock == "aura-ip-tls.lock"
\* Mutant: the refresh takes the lock of the hook that waits for it.
HookLockToo == "aura-ip-tls.lock"
RefreshLock == "aura-owner-ip-tls.lock"
Held == IF HookRuns THEN {HookLock} ELSE {}

RefreshGoes(to) == refresh' = [refresh EXCEPT !.pc = to] /\ UNCHANGED hook

\* The end of the service, and of a systemctl start that waits for it.
RefreshEnds(ok) ==
  /\ refresh' = [RefreshAt("idle") EXCEPT !.ok = ok, !.active = ok /\ refresh.active]
  /\ hook' = IF hook.pc # "await" THEN hook
              ELSE Ended(IF ok THEN "succeeded" ELSE "failed")

\* The lock is taken and the link is resolved.
RefreshBegin ==
  /\ refresh.pc = "begin"
  /\ IF RefreshLock \in Held THEN RefreshEnds(FALSE)
     ELSE refresh' = [refresh EXCEPT !.pc = "sample", !.new = current] /\ UNCHANGED hook
  /\ UNCHANGED <<systemd, disk, excuse>>

RefreshSample ==
  /\ refresh.pc = "sample"
  /\ refresh' = [refresh EXCEPT !.active = IsActive(Server),
                   !.pc = IF IsActive(Server) THEN "stop" ELSE "install"]
  /\ UNCHANGED <<systemd, disk, hook, excuse>>

\* systemctl stop, which also drops a start that is under way.
RefreshStop ==
  /\ refresh.pc = "stop"
  /\ Units([unit EXCEPT ![Server] = "down"])
  /\ gone' = gone \ {Server}
  /\ RefreshGoes("install")
  /\ UNCHANGED <<check, disk, excuse>>

\* mkdir refuses the directory of an earlier failure, which stays for review.
RefreshInstall ==
  /\ refresh.pc = "install"
  /\ IF backup THEN RefreshEnds(FALSE) /\ Blame("other") /\ UNCHANGED <<owner, backup>>
     ELSE /\ backup' = TRUE /\ owner' = refresh.new
          /\ RefreshGoes(IF refresh.active THEN "start" ELSE "drop")
          /\ UNCHANGED excuse
  /\ UNCHANGED <<systemd, marker, current>>

\* systemctl start leaves an active server alone.
RefreshStart ==
  /\ refresh.pc = "start"
  /\ IF IsActive(Server) THEN UNCHANGED systemd ELSE Ask(Server)
  /\ RefreshGoes("wait")
  /\ UNCHANGED <<disk, excuse>>

RefreshStarted ==
  /\ \/ /\ refresh.pc = "wait" /\ Settled(Server)
        /\ IF Succeeded(Server) THEN RefreshGoes("confirm") ELSE RefreshEnds(FALSE)
     \/ /\ refresh.pc = "confirm"
        /\ IF IsActive(Server) THEN RefreshGoes("drop") ELSE RefreshEnds(FALSE)
  /\ UNCHANGED <<systemd, disk, excuse>>

RefreshDrop ==
  /\ refresh.pc = "drop"
  /\ backup' = FALSE
  /\ RefreshEnds(TRUE)
  /\ UNCHANGED <<systemd, marker, current, owner, excuse>>

\* A command fails or exceeds its timeout, or TimeoutStartSec is over.
RefreshFails ==
  /\ refresh.pc # "idle"
  /\ RefreshEnds(FALSE)
  /\ Blame("other")
  /\ UNCHANGED <<systemd, disk>>

-----------------------------------------------------------------------------
(***************************************************************************)
(* The address check of wan_watch.py, and the units that require it.  What *)
(* the router reports is free to differ from one check to the next.        *)
(***************************************************************************)
CheckEnds(u) ==
  /\ check /\ check' = FALSE
  /\ Elsewhere(u)
  /\ UNCHANGED <<current, owner, backup, hook, refresh>>

\* The start condition: ConditionPathExists=!ADDRESS-REPAIR.
Started == IF marker THEN "down" ELSE "up"

CheckPasses ==
  /\ CheckEnds([s \in Services |-> IF unit[s] = "waiting" THEN Started ELSE unit[s]])
  /\ IF marker THEN Blame("other") ELSE UNCHANGED excuse
  /\ UNCHANGED marker

\* systemd drops the start jobs; a restart that still stops the service goes on.
CheckUnknown ==
  /\ \E u \in [Services -> UnitState] :
       /\ \A s \in Services : u[s] \in IF unit[s] = "waiting" THEN {"down", Started} ELSE {unit[s]}
       /\ CheckEnds(u)
  /\ Blame("unknown")
  /\ UNCHANGED marker

\* The marker is left and every service stopped, though any stop may fail.
CheckMismatch ==
  /\ marker' = TRUE
  /\ \E u \in [Services -> UnitState] :
       /\ \A s \in Services : u[s] \in CASE unit[s] = "up" -> {"up", "down"}
                                         [] unit[s] = "waiting" -> {"down"}
                                         [] OTHER -> {unit[s]}
       /\ CheckEnds(u)
  /\ Blame("other")

Timer ==
  /\ ~check /\ check' = TRUE
  /\ UNCHANGED <<unit, loaded, gone, disk, hook, refresh, excuse>>

\* A boot, an operator or Restart=on-failure asks for a start or a restart.
UnitRequested(s) ==
  /\ unit[s] # "waiting"
  /\ Elsewhere(Queue(s)) /\ check' = TRUE
  /\ IF unit[s] = "down" THEN UNCHANGED excuse ELSE Blame("other")
  /\ UNCHANGED <<disk, hook, refresh>>

\* The service exits, a guard it requires fails, or somebody else stops it.
UnitExits(s) ==
  /\ unit[s] \in {"up", "waiting"}
  /\ Elsewhere([unit EXCEPT ![s] = "down"])
  /\ Blame("other")
  /\ UNCHANGED <<check, disk, hook, refresh>>

\* The operator's review of a failed refresh, or of a changed address.
Review ==
  /\ refresh.pc = "idle" /\ \A s \in Services : unit[s] = "down"
  /\ \/ backup /\ backup' = FALSE /\ UNCHANGED marker
     \/ marker /\ marker' = FALSE /\ UNCHANGED backup
  /\ UNCHANGED <<systemd, current, owner, hook, refresh, excuse>>

-----------------------------------------------------------------------------
HookStep ==
  \/ HookSample \/ HookPublish \/ HookWaited \/ HookConfirm \/ HookRestarted
  \/ HookSettled \/ HookOwner
  \/ \E s \in Public : HookRestart(s)

RefreshStep ==
  \/ RefreshBegin \/ RefreshSample \/ RefreshStop \/ RefreshInstall
  \/ RefreshStart \/ RefreshStarted \/ RefreshDrop

Check == CheckPasses \/ CheckUnknown \/ CheckMismatch

Next ==
  \/ HookBegin \/ HookStep \/ HookFails \/ HookKilled
  \/ RefreshStep \/ RefreshFails
  \/ Timer \/ Check
  \/ \E s \in Services : UnitRequested(s) \/ UnitExits(s)
  \/ Review

Spec == Init /\ [][Next]_vars

\* Every program goes on, and a check ends (TimeoutStartSec).
LiveSpec ==
  /\ Spec
  /\ WF_vars(HookStep) /\ WF_vars(RefreshStep) /\ WF_vars(Check)

-----------------------------------------------------------------------------
\* Every variable keeps its type.
TypeOK ==
  /\ check \in BOOLEAN /\ marker \in BOOLEAN
  /\ unit \in [Services -> UnitState]
  /\ loaded \in [Public -> Version \cup {0}]
  /\ current \in Version /\ owner \in Version /\ backup \in BOOLEAN
  /\ hook \in Hook /\ refresh \in Refresh
  /\ gone \subseteq Services
  /\ excuse \in {"none", "unknown", "other"}

\* A hook that reports success leaves every service it found running up, on the
\* new pair, unless somebody else has taken it down since; a refresh that reports
\* success leaves the server up.
SuccessMeansRunning ==
  /\ hook.pc = "succeeded" =>
       \A s \in hook.active \ gone : unit[s] = "up" /\ loaded[s] = hook.new
  /\ refresh.pc = "idle" /\ refresh.ok /\ refresh.active =>
       Server \in gone \/ unit[Server] = "up"

\* A hook that reports success has brought the owner directory to the new pair,
\* unless it joined a refresh that had resolved the link before it moved.
OwnerFollows == hook.pc = "succeeded" /\ ~hook.joined => owner = hook.new

\* Why both hold, an inductive invariant: until it goes back the hook has what it
\* has restarted running on the new pair, as long as nobody else takes it down.
Forward == {"restart", "wait", "confirm", "owner", "await", "succeeded"}
Done == hook.active \ (hook.todo \cup {hook.at})

HookInv ==
  /\ \A s \in gone : unit[s] # "up"
  /\ hook.pc = "publish" => hook.todo = hook.active
  /\ hook.pc \in Forward =>
       /\ current = hook.new
       /\ \A s \in Done \ gone : unit[s] = "up" /\ loaded[s] = hook.new
  /\ hook.pc \in Forward \ {"restart", "wait", "confirm"} => hook.todo = {}
  /\ hook.pc \in {"wait", "confirm"} =>
       hook.at \in Public /\ (unit[hook.at] = "up" => loaded[hook.at] = hook.new)
  /\ hook.pc \notin {"wait", "confirm", "settle"} => hook.at = None

\* And the refresh the hook waits for is at work on the pair it has resolved.
RefreshInv ==
  /\ refresh.pc \in {"start", "wait", "confirm", "drop"} => owner = refresh.new
  /\ refresh.pc \in {"drop", "idle"} /\ refresh.active => Server \in gone \/ unit[Server] = "up"
  /\ hook.pc = "await" =>
       refresh.pc # "idle" /\ (~hook.joined /\ refresh.pc # "begin" => refresh.new = hook.new)
  /\ hook.pc = "succeeded" => refresh.pc = "idle" /\ (~hook.joined => owner = hook.new)

\* A hook that goes back or fails was given a cause: an unknown or another address,
\* a command that failed or was killed, a service that somebody else took down, or
\* the backup of an earlier failure.  The refresh it waits for, which takes a lock
\* and stops and starts a service itself, is none, even one that was under way.
FailureHasCause == hook.pc \in {"restore", "settle", "failed"} => excuse # "none"

\* Why that holds: whoever waits for a start has a check under way to wait for, and
\* the service comes up.
CalmInv ==
  /\ FailureHasCause
  /\ \A s \in Services : unit[s] = "waiting" => check
  /\ refresh.pc \in {"start", "wait", "confirm", "drop"} => backup
  /\ HookRuns /\ excuse = "none" =>
       /\ hook.pc = "wait" => unit[hook.at] # "down"
       /\ hook.pc = "confirm" => unit[hook.at] = "up"
       /\ refresh.pc = "wait" => unit[Server] # "down"
       /\ refresh.pc = "confirm" => unit[Server] = "up"

HomeInv == TypeOK /\ HookInv /\ RefreshInv /\ CalmInv

\* Nothing waits for itself: with the address confirmed and no failure around
\* it, a hook comes to its end, refresh included, and succeeds.
CalmHookSucceeds == hook.pc = "sample" ~> hook.pc = "succeeded" \/ excuse # "none"

-----------------------------------------------------------------------------
\* SELF-HOSTED.md: "An unreadable router fails the check; already-running
\* services are not stopped solely for an unknown observation."
UnknownStopsNothing ==
  hook.pc = "failed" /\ excuse = "unknown" =>
    \A s \in hook.active \ gone : unit[s] # "down"
=============================================================================
