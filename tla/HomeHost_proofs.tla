--------------------------- MODULE HomeHost_proofs ---------------------------
(***************************************************************************)
(* What a success of the hook and of the refresh means, and what it takes  *)
(* for a hook to fail, proved for any services, any number of renewals and *)
(* any interleaving of the programs of HomeHost.                           *)
(***************************************************************************)
EXTENDS HomeHost, TLAPS

UnitMap == [Services -> UnitState]

\* What is running on what; CalmInv, about failures, rests on it.
CoreInv == TypeOK /\ HookInv /\ RefreshInv

-----------------------------------------------------------------------------
(***************************************************************************)
(* What a change of the units does to what the services have loaded.       *)
(***************************************************************************)
LEMMA UnitsEffect ==
  ASSUME TypeOK, NEW u \in UnitMap, Units(u)
  PROVE  /\ unit' = u /\ unit' \in [Services -> UnitState]
         /\ loaded' \in [Public -> Version \cup {0}]
         /\ \A s \in Public : u[s] = "up" =>
              loaded'[s] = IF unit[s] = "up" THEN loaded[s] ELSE current
  BY DEF TypeOK, UnitMap, Units, Services

\* A request for s leaves the other services and what they have loaded alone.
LEMMA AskEffect ==
  ASSUME TypeOK, NEW s \in Services, Ask(s)
  PROVE  /\ unit' \in [Services -> UnitState]
         /\ loaded' \in [Public -> Version \cup {0}]
         /\ check' = TRUE
         /\ gone' = gone \ {s}
         /\ unit'[s] = "waiting"
         /\ \A t \in Services \ {s} : unit'[t] = unit[t]
         /\ \A t \in Public \ {s} : unit[t] = "up" => loaded'[t] = loaded[t]
  <1>1. Queue(s) \in UnitMap
    BY DEF TypeOK, Queue, UnitMap, UnitState
  <1>2. Units(Queue(s)) /\ check' = TRUE /\ gone' = gone \ {s}
    BY DEF Ask
  <1>3. /\ unit' = Queue(s) /\ unit' \in [Services -> UnitState]
        /\ loaded' \in [Public -> Version \cup {0}]
        /\ \A t \in Public : Queue(s)[t] = "up" =>
              loaded'[t] = IF unit[t] = "up" THEN loaded[t] ELSE current
    BY <1>1, <1>2, UnitsEffect
  <1>4. Queue(s)[s] = "waiting" /\ \A t \in Services \ {s} : Queue(s)[t] = unit[t]
    BY DEF TypeOK, Queue
  <1> QED BY <1>2, <1>3, <1>4 DEF Services

\* Whoever is up afterwards and is not gone either was so before, with what it
\* had loaded, or has come up on the linked pair.
LEMMA ElsewhereEffect ==
  ASSUME TypeOK, HookInv, NEW u \in UnitMap, Elsewhere(u)
  PROVE  /\ unit' \in [Services -> UnitState]
         /\ loaded' \in [Public -> Version \cup {0}]
         /\ gone' \subseteq Services
         /\ \A s \in gone' : unit'[s] # "up"
         /\ \A s \in Services : unit[s] = "up" \/ s \in gone => s \in gone' \/ unit'[s] = "up"
         /\ \A s \in Public : unit'[s] = "up" =>
              loaded'[s] = IF unit[s] = "up" THEN loaded[s] ELSE current
         /\ \A s \in Services \ gone' : s \in gone => unit'[s] = "up"
  <1>1. /\ unit' = u /\ unit' \in [Services -> UnitState]
        /\ loaded' \in [Public -> Version \cup {0}]
        /\ \A s \in Public : u[s] = "up" =>
              loaded'[s] = IF unit[s] = "up" THEN loaded[s] ELSE current
    BY UnitsEffect DEF Elsewhere
  <1>2. gone' = (gone \cup {s \in Services : unit[s] = "up" /\ u[s] # "up"})
                  \ {s \in Services : u[s] = "up"}
    BY DEF Elsewhere
  <1> QED BY <1>1, <1>2 DEF TypeOK, HookInv

-----------------------------------------------------------------------------
(***************************************************************************)
(* The steps of everybody but the hook and the refresh.                    *)
(***************************************************************************)
LEMMA ElsewhereKeeps ==
  ASSUME CoreInv, NEW u \in UnitMap, Elsewhere(u),
         UNCHANGED <<current, owner, backup, hook, refresh>>,
         check' \in BOOLEAN, marker' \in BOOLEAN, excuse' \in {"none", "unknown", "other"}
  PROVE  CoreInv'
  <1>1. TypeOK /\ HookInv /\ RefreshInv
    BY DEF CoreInv
  <1>2. /\ unit' \in [Services -> UnitState]
        /\ loaded' \in [Public -> Version \cup {0}]
        /\ gone' \subseteq Services
        /\ \A s \in gone' : unit'[s] # "up"
        /\ \A s \in Services : unit[s] = "up" \/ s \in gone => s \in gone' \/ unit'[s] = "up"
        /\ \A s \in Public : unit'[s] = "up" =>
             loaded'[s] = IF unit[s] = "up" THEN loaded[s] ELSE current
        /\ \A s \in Services \ gone' : s \in gone => unit'[s] = "up"
    BY <1>1, ElsewhereEffect
  <1>3. TypeOK'
    BY <1>1, <1>2 DEF TypeOK
  <1>4. HookInv'
    <2>1. hook.active \subseteq Public
      BY <1>1 DEF TypeOK, Hook
    <2>2. Public \subseteq Services
      BY DEF Services
    <2>3. ASSUME hook.pc \in Forward, NEW s \in Done, s \notin gone'
          PROVE  unit'[s] = "up" /\ loaded'[s] = hook.new
      <3>1. s \in Public /\ s \in Services /\ current = hook.new
        BY <1>1, <2>1, <2>2, <2>3 DEF Done, HookInv
      <3>2. CASE s \in gone
        <4>1. unit[s] # "up"
          BY <1>1, <3>2 DEF HookInv
        <4> QED BY <1>2, <2>3, <3>1, <3>2, <4>1
      <3>3. CASE s \notin gone
        <4>1. unit[s] = "up" /\ loaded[s] = hook.new
          BY <1>1, <2>3, <3>3 DEF HookInv
        <4> QED BY <1>2, <2>3, <3>1, <4>1
      <3> QED BY <3>2, <3>3
    <2>4. ASSUME hook.pc \in {"wait", "confirm"}, unit'[hook.at] = "up"
          PROVE  hook.at \in Public /\ loaded'[hook.at] = hook.new
      <3>1. /\ hook.at \in Public /\ current = hook.new
            /\ unit[hook.at] = "up" => loaded[hook.at] = hook.new
        BY <1>1, <2>4 DEF HookInv, Forward
      <3> QED BY <1>2, <2>4, <3>1
    <2> QED BY <1>1, <1>2, <2>3, <2>4 DEF HookInv, Done
  <1>5. RefreshInv'
    <2>1. Server \in Services
      BY DEF Services
    <2> QED BY <1>1, <1>2, <2>1 DEF RefreshInv
  <1> QED BY <1>3, <1>4, <1>5 DEF CoreInv

LEMMA BlameType ==
  ASSUME TypeOK, NEW why \in {"unknown", "other"}, Blame(why)
  PROVE  excuse' \in {"none", "unknown", "other"}
  BY DEF TypeOK, Blame

LEMMA CheckKeeps ==
  ASSUME CoreInv, Check
  PROVE  CoreInv'
  <1> USE DEF UnitMap
  <1>1. TypeOK
    BY DEF CoreInv
  <1>2. Started \in UnitState
    BY DEF Started, UnitState
  <1>3. CASE CheckPasses
    <2> DEFINE u == [s \in Services |-> IF unit[s] = "waiting" THEN Started ELSE unit[s]]
    <2>1. u \in UnitMap
      BY <1>1, <1>2 DEF TypeOK
    <2>2. Elsewhere(u) /\ check' = FALSE /\ UNCHANGED <<current, owner, backup, hook, refresh>>
      BY <1>3 DEF CheckPasses, CheckEnds
    <2>3. marker' \in BOOLEAN /\ excuse' \in {"none", "unknown", "other"}
      BY <1>1, <1>3, BlameType DEF CheckPasses, TypeOK
    <2> HIDE DEF u
    <2> QED BY <2>1, <2>2, <2>3, ElsewhereKeeps
  <1>4. CASE CheckUnknown
    <2>1. PICK u \in [Services -> UnitState] : CheckEnds(u)
      BY <1>4 DEF CheckUnknown
    <2>2. Elsewhere(u) /\ check' = FALSE /\ UNCHANGED <<current, owner, backup, hook, refresh>>
      BY <2>1 DEF CheckEnds
    <2>3. marker' \in BOOLEAN /\ excuse' \in {"none", "unknown", "other"}
      BY <1>1, <1>4, BlameType DEF CheckUnknown, TypeOK
    <2> QED BY <2>1, <2>2, <2>3, ElsewhereKeeps
  <1>5. CASE CheckMismatch
    <2>1. PICK u \in [Services -> UnitState] : CheckEnds(u)
      BY <1>5 DEF CheckMismatch
    <2>2. Elsewhere(u) /\ check' = FALSE /\ UNCHANGED <<current, owner, backup, hook, refresh>>
      BY <2>1 DEF CheckEnds
    <2>3. marker' \in BOOLEAN /\ excuse' \in {"none", "unknown", "other"}
      BY <1>1, <1>5, BlameType DEF CheckMismatch
    <2> QED BY <2>1, <2>2, <2>3, ElsewhereKeeps
  <1> QED BY <1>3, <1>4, <1>5 DEF Check

LEMMA UnitKeeps ==
  ASSUME CoreInv, NEW s \in Services, UnitRequested(s) \/ UnitExits(s)
  PROVE  CoreInv'
  <1> USE DEF UnitMap
  <1>1. TypeOK
    BY DEF CoreInv
  <1>2. CASE UnitRequested(s)
    <2>1. Queue(s) \in UnitMap
      BY <1>1 DEF TypeOK, Queue, UnitState
    <2>2. /\ Elsewhere(Queue(s)) /\ check' = TRUE /\ marker' = marker
          /\ UNCHANGED <<current, owner, backup, hook, refresh>>
      BY <1>2 DEF UnitRequested, disk
    <2>3. excuse' \in {"none", "unknown", "other"}
      BY <1>1, <1>2, BlameType DEF UnitRequested, TypeOK
    <2> QED BY <1>1, <2>1, <2>2, <2>3, ElsewhereKeeps DEF TypeOK
  <1>3. CASE UnitExits(s)
    <2> DEFINE u == [unit EXCEPT ![s] = "down"]
    <2>1. u \in UnitMap
      BY <1>1 DEF TypeOK, UnitState
    <2>2. /\ Elsewhere(u) /\ check' = check /\ marker' = marker
          /\ UNCHANGED <<current, owner, backup, hook, refresh>>
      BY <1>3 DEF UnitExits, disk
    <2>3. excuse' \in {"none", "unknown", "other"}
      BY <1>1, <1>3, BlameType DEF UnitExits
    <2> HIDE DEF u
    <2> QED BY <1>1, <2>1, <2>2, <2>3, ElsewhereKeeps DEF TypeOK
  <1> QED BY <1>2, <1>3

\* A look at the router begins, or the operator reviews a failure.
LEMMA QuietKeeps ==
  ASSUME CoreInv, Timer \/ Review
  PROVE  CoreInv'
  <1>1. /\ UNCHANGED <<unit, loaded, gone, current, owner, hook, refresh, excuse>>
        /\ check' \in BOOLEAN /\ marker' \in BOOLEAN /\ backup' \in BOOLEAN
    BY DEF CoreInv, TypeOK, Timer, Review, systemd, disk
  <1> QED BY <1>1 DEF CoreInv, TypeOK, HookInv, RefreshInv, Done

-----------------------------------------------------------------------------
(***************************************************************************)
(* The steps of the hook.                                                  *)
(***************************************************************************)
LEMMA EndedType ==
  ASSUME TypeOK, NEW how \in {"owner", "succeeded", "failed"}
  PROVE  /\ Ended(how) \in Hook
         /\ Ended(how) = [pc |-> how, new |-> hook.new, prev |-> hook.new,
                          active |-> hook.active, todo |-> {}, at |-> None,
                          joined |-> hook.joined]
  <1>1. hook.new \in Version /\ hook.active \subseteq Public /\ hook.joined \in BOOLEAN
    BY DEF TypeOK, Hook
  <1> DEFINE h == HookAt(how, hook.new)
  <1>2. h = [pc |-> how, new |-> hook.new, prev |-> hook.new, active |-> {}, todo |-> {},
             at |-> None, joined |-> FALSE]
    BY DEF HookAt
  <1>3. Ended(how) = [h EXCEPT !.active = hook.active, !.joined = hook.joined]
    BY DEF Ended
  <1> HIDE DEF h
  <1>4. h \in Hook
    BY <1>1, <1>2 DEF Hook
  <1>5. Ended(how) = [pc |-> how, new |-> hook.new, prev |-> hook.new,
                      active |-> hook.active, todo |-> {}, at |-> None,
                      joined |-> hook.joined]
    BY <1>2, <1>3, <1>4 DEF Hook
  <1> QED BY <1>1, <1>5 DEF Hook

\* A step of the hook that touches nothing but itself, the link and the blame.
LEMMA HookOnlyKeeps ==
  ASSUME CoreInv, HookOnly, HookInv', hook' \in Hook, current' \in Version,
         excuse' \in {"none", "unknown", "other"},
         hook'.pc # "await", hook'.pc # "succeeded"
  PROVE  CoreInv'
  <1>1. TypeOK'
    BY DEF CoreInv, TypeOK, HookOnly, systemd
  <1>2. RefreshInv'
    BY DEF CoreInv, RefreshInv, HookOnly, systemd
  <1> QED BY <1>1, <1>2 DEF CoreInv

\* The hook goes back to the previous pair.
LEMMA UndoKeeps ==
  ASSUME CoreInv, Undo, HookOnly, hook.pc \in {"restart", "wait", "confirm"},
         excuse' \in {"none", "unknown", "other"}
  PROVE  CoreInv'
  <1>1. /\ current' = hook.prev
        /\ hook' = [hook EXCEPT !.pc = "restore", !.todo = hook.active, !.at = None]
    BY DEF Undo
  <1>2. hook' \in Hook /\ current' \in Version /\ hook'.pc = "restore" /\ hook'.at = None
    BY <1>1 DEF CoreInv, TypeOK, Hook
  <1>3. HookInv'
    BY <1>2 DEF CoreInv, HookInv, HookOnly, systemd, Forward
  <1> QED BY <1>2, <1>3, HookOnlyKeeps

LEMMA HookBeginKeeps ==
  ASSUME CoreInv, HookBegin
  PROVE  CoreInv'
  <1>1. PICK v \in {current, current + 1} \cap Version : hook' = HookAt("sample", v)
    BY DEF HookBegin
  <1>2. hook' \in Hook /\ hook'.pc = "sample" /\ hook'.at = None
    BY <1>1 DEF HookAt, Hook
  <1>3. HookOnly /\ current' = current /\ excuse' \in {"none", "unknown", "other"}
    BY DEF HookBegin
  <1>4. HookInv'
    BY <1>2, <1>3 DEF CoreInv, HookInv, HookOnly, systemd, Forward
  <1> QED BY <1>2, <1>3, <1>4, HookOnlyKeeps DEF CoreInv, TypeOK

LEMMA HookSampleKeeps ==
  ASSUME CoreInv, HookSample
  PROVE  CoreInv'
  <1> DEFINE active == {s \in Restarted : unit[s] = "up"}
  <1>1. /\ hook.pc = "sample" /\ HookOnly /\ UNCHANGED <<current, excuse>>
        /\ hook' = [hook EXCEPT !.pc = "publish", !.active = active, !.todo = active]
    BY DEF HookSample
  <1>2. active \subseteq Public
    BY DEF Restarted
  <1> HIDE DEF active
  <1>3. /\ hook' \in Hook /\ hook'.pc = "publish" /\ hook'.at = hook.at
        /\ hook'.todo = hook'.active
    BY <1>1, <1>2 DEF CoreInv, TypeOK, Hook
  <1>4. HookInv'
    BY <1>1, <1>3 DEF CoreInv, HookInv, HookOnly, systemd, Forward
  <1> QED BY <1>1, <1>3, <1>4, HookOnlyKeeps DEF CoreInv, TypeOK

\* Nothing is restarted yet when the link moves.
LEMMA HookPublishKeeps ==
  ASSUME CoreInv, HookPublish
  PROVE  CoreInv'
  <1>1. /\ hook.pc = "publish" /\ HookOnly /\ excuse' = excuse /\ current' = hook.new
        /\ hook' = [hook EXCEPT !.pc = "restart", !.prev = current]
    BY DEF HookPublish
  <1>2. /\ hook' \in Hook /\ hook'.pc = "restart" /\ hook'.new = hook.new
        /\ hook'.todo = hook.todo /\ hook'.active = hook.active /\ hook'.at = hook.at
        /\ current' \in Version
    BY <1>1 DEF CoreInv, TypeOK, Hook
  <1>3. hook.todo = hook.active /\ hook.at = None
    BY <1>1 DEF CoreInv, HookInv
  <1>4. Done' = {}
    BY <1>2, <1>3 DEF Done
  <1>5. HookInv'
    BY <1>1, <1>2, <1>3, <1>4 DEF CoreInv, HookInv, HookOnly, systemd, Forward
  <1> QED BY <1>1, <1>2, <1>5, HookOnlyKeeps DEF CoreInv, TypeOK

\* The service restarted leaves the ones to do; nothing that is done changes.
LEMMA HookRestartKeeps ==
  ASSUME CoreInv, NEW s \in Public, HookRestart(s)
  PROVE  CoreInv'
  <1>1. /\ hook.pc \in {"restart", "restore"} /\ s \in hook.todo /\ s \in Services
        /\ Ask(s) /\ UNCHANGED <<marker, current, owner, backup, refresh, excuse>>
        /\ hook' = [hook EXCEPT !.at = s, !.todo = @ \ {s},
                                !.pc = IF @ = "restart" THEN "wait" ELSE "settle"]
    BY DEF HookRestart, disk, Services
  <1>2. TypeOK /\ HookInv /\ RefreshInv
    BY DEF CoreInv
  <1>3. /\ unit' \in [Services -> UnitState]
        /\ loaded' \in [Public -> Version \cup {0}]
        /\ check' = TRUE /\ gone' = gone \ {s} /\ unit'[s] = "waiting"
        /\ \A t \in Services \ {s} : unit'[t] = unit[t]
        /\ \A t \in Public \ {s} : unit[t] = "up" => loaded'[t] = loaded[t]
    BY <1>1, <1>2, AskEffect
  <1>4. /\ hook' \in Hook /\ hook'.at = s /\ hook'.todo = hook.todo \ {s}
        /\ hook'.active = hook.active /\ hook'.new = hook.new
        /\ hook'.pc = (IF hook.pc = "restart" THEN "wait" ELSE "settle")
        /\ hook'.joined = hook.joined
    BY <1>1, <1>2 DEF TypeOK, Hook
  <1>5. TypeOK'
    BY <1>1, <1>2, <1>3, <1>4 DEF TypeOK
  <1>6. hook.at = None /\ hook.active \subseteq Public /\ None \notin Public
    BY <1>1, <1>2, HostAssumption DEF HookInv, TypeOK, Hook
  <1>7. Done' = Done /\ s \notin Done /\ Done \subseteq Public \ {s}
    BY <1>1, <1>4, <1>6 DEF Done
  <1>8. ASSUME hook.pc = "restart"
        PROVE  /\ current' = hook'.new
               /\ \A t \in Done' \ gone' : unit'[t] = "up" /\ loaded'[t] = hook'.new
    <2>1. current = hook.new /\ \A t \in Done \ gone : unit[t] = "up" /\ loaded[t] = hook.new
      BY <1>2, <1>8 DEF HookInv, Forward
    <2> QED BY <1>1, <1>3, <1>4, <1>7, <2>1 DEF Services
  <1>9. HookInv'
    <2>1. \A t \in gone' : unit'[t] # "up"
      BY <1>2, <1>3 DEF TypeOK, HookInv
    <2> QED BY <1>1, <1>3, <1>4, <1>8, <2>1 DEF HookInv, Forward
  <1>10. RefreshInv'
    <2>1. Server \in Services \ {s}
      BY HostAssumption DEF Services
    <2> QED BY <1>1, <1>2, <1>3, <1>4, <2>1 DEF RefreshInv
  <1> QED BY <1>5, <1>9, <1>10 DEF CoreInv

\* The restart is over; the service is looked at next.
LEMMA HookWaitedKeeps ==
  ASSUME CoreInv, HookWaited
  PROVE  CoreInv'
  <1>1. hook.pc = "wait" /\ HookOnly /\ excuse' = excuse
    BY DEF HookWaited
  <1>2. CASE Undo
    BY <1>1, <1>2, UndoKeeps DEF CoreInv, TypeOK
  <1>3. CASE hook' = [hook EXCEPT !.pc = "confirm"] /\ current' = current
    <2>1. /\ hook' \in Hook /\ hook'.pc = "confirm" /\ hook'.new = hook.new
          /\ hook'.todo = hook.todo /\ hook'.active = hook.active /\ hook'.at = hook.at
      BY <1>3 DEF CoreInv, TypeOK, Hook
    <2>2. HookInv'
      BY <1>1, <1>3, <2>1 DEF CoreInv, HookInv, HookOnly, systemd, Forward, Done
    <2> QED BY <1>1, <1>3, <2>1, <2>2, HookOnlyKeeps DEF CoreInv, TypeOK
  <1> QED BY <1>2, <1>3 DEF HookWaited, Proceed

\* The service runs, on the new pair, and is done.
LEMMA HookConfirmKeeps ==
  ASSUME CoreInv, HookConfirm
  PROVE  CoreInv'
  <1>1. hook.pc = "confirm" /\ HookOnly /\ excuse' = excuse
    BY DEF HookConfirm
  <1>2. CASE Undo
    BY <1>1, <1>2, UndoKeeps DEF CoreInv, TypeOK
  <1>3. CASE /\ IsActive(hook.at) /\ current' = current
             /\ hook' = [hook EXCEPT !.pc = "restart", !.at = None]
    <2>1. /\ hook' \in Hook /\ hook'.pc = "restart" /\ hook'.new = hook.new
          /\ hook'.todo = hook.todo /\ hook'.active = hook.active /\ hook'.at = None
      BY <1>3 DEF CoreInv, TypeOK, Hook
    <2>2. unit[hook.at] = "up" /\ loaded[hook.at] = hook.new
      BY <1>1, <1>3 DEF IsActive, CoreInv, HookInv
    <2>3. Done' \subseteq Done \cup {hook.at}
      BY <2>1 DEF Done
    <2>4. HookInv'
      BY <1>1, <1>3, <2>1, <2>2, <2>3 DEF CoreInv, HookInv, HookOnly, systemd, Forward
    <2> QED BY <1>1, <1>3, <2>1, <2>4, HookOnlyKeeps DEF CoreInv, TypeOK
  <1> QED BY <1>2, <1>3 DEF HookConfirm, Proceed

LEMMA HookRestartedKeeps ==
  ASSUME CoreInv, HookRestarted
  PROVE  CoreInv'
  <1>1. /\ hook.pc = "restart" /\ hook.todo = {} /\ hook' = Ended("owner")
        /\ HookOnly /\ UNCHANGED <<current, excuse>>
    BY DEF HookRestarted
  <1>2. /\ hook' \in Hook /\ hook'.pc = "owner" /\ hook'.new = hook.new
        /\ hook'.active = hook.active /\ hook'.todo = {} /\ hook'.at = None
    BY <1>1, EndedType DEF CoreInv
  <1>3. Done' = Done
    BY <1>1, <1>2 DEF Done, CoreInv, HookInv
  <1>4. HookInv'
    BY <1>1, <1>2, <1>3 DEF CoreInv, HookInv, HookOnly, systemd, Forward
  <1> QED BY <1>1, <1>2, <1>4, HookOnlyKeeps DEF CoreInv, TypeOK

\* A step of the hook out of everything the invariant says of it.
LEMMA HookLeaves ==
  ASSUME CoreInv, HookOnly, current' = current, excuse' \in {"none", "unknown", "other"},
         hook' \in Hook, hook'.pc \in {"restore", "failed"}, hook'.at = None
  PROVE  CoreInv'
  <1>1. HookInv'
    BY DEF CoreInv, HookInv, HookOnly, systemd, Forward
  <1> QED BY <1>1, HookOnlyKeeps DEF CoreInv, TypeOK

LEMMA HookEndsKeep ==
  ASSUME CoreInv, HookSettled \/ HookFails \/ HookKilled
  PROVE  CoreInv'
  <1>1. HookOnly
    BY DEF HookSettled, HookFails, HookKilled
  <1>2. excuse' \in {"none", "unknown", "other"}
    BY BlameType DEF CoreInv, TypeOK, HookSettled, HookFails, HookKilled
  <1>3. CASE Undo /\ hook.pc \in {"restart", "wait", "confirm"}
    BY <1>1, <1>2, <1>3, UndoKeeps
  <1>4. CASE hook' = [hook EXCEPT !.pc = "restore", !.at = None] /\ current' = current
    <2>1. hook' \in Hook /\ hook'.pc = "restore" /\ hook'.at = None
      BY <1>4 DEF CoreInv, TypeOK, Hook
    <2> QED BY <1>1, <1>2, <1>4, <2>1, HookLeaves
  <1>5. CASE hook' = Ended("failed") /\ current' = current
    <2>1. hook' \in Hook /\ hook'.pc = "failed" /\ hook'.at = None
      BY <1>5, EndedType DEF CoreInv
    <2> QED BY <1>1, <1>2, <1>5, <2>1, HookLeaves
  <1> QED BY <1>3, <1>4, <1>5 DEF HookSettled, HookFails, HookKilled

\* The refresh begins, or is joined.
LEMMA HookOwnerKeeps ==
  ASSUME CoreInv, HookOwner
  PROVE  CoreInv'
  <1>1. /\ hook.pc = "owner" /\ UNCHANGED <<check, unit, loaded, gone, marker, current, owner, backup, excuse>>
        /\ hook' = [hook EXCEPT !.pc = "await", !.joined = refresh.pc # "idle"]
        /\ refresh' = IF refresh.pc = "idle" THEN RefreshAt("begin") ELSE refresh
    BY DEF HookOwner, AfterStart, systemd, disk
  <1>2. /\ hook' \in Hook /\ hook'.pc = "await" /\ hook'.new = hook.new
        /\ hook'.todo = hook.todo /\ hook'.active = hook.active /\ hook'.at = hook.at
        /\ hook'.joined = (refresh.pc # "idle")
    BY <1>1 DEF CoreInv, TypeOK, Hook
  <1>3. RefreshAt("begin") \in Refresh
    BY HostAssumption DEF RefreshAt, Refresh, Version
  <1>4. TypeOK'
    BY <1>1, <1>2, <1>3 DEF CoreInv, TypeOK
  <1>5. Done' = Done
    BY <1>2 DEF Done
  <1>6. HookInv'
    BY <1>1, <1>2, <1>5 DEF CoreInv, HookInv, Forward
  <1>7. RefreshInv'
    <2>1. CASE refresh.pc = "idle"
      <3>1. refresh'.pc = "begin"
        BY <1>1, <2>1 DEF RefreshAt
      <3> QED BY <1>2, <3>1, <2>1 DEF RefreshInv
    <2>2. CASE refresh.pc # "idle"
      BY <1>1, <1>2, <2>2 DEF CoreInv, RefreshInv
    <2> QED BY <2>1, <2>2
  <1> QED BY <1>4, <1>6, <1>7 DEF CoreInv

-----------------------------------------------------------------------------
(***************************************************************************)
(* The steps of the refresh.                                               *)
(***************************************************************************)
\* The refresh is over, and with it the wait of the hook.
LEMMA RefreshEndsKeeps ==
  ASSUME CoreInv, NEW ok \in BOOLEAN, RefreshEnds(ok), refresh.pc # "idle",
         ok => refresh.pc = "drop",
         UNCHANGED <<systemd, marker, current, owner>>,
         backup' \in BOOLEAN, excuse' \in {"none", "unknown", "other"}
  PROVE  CoreInv'
  <1>1. /\ UNCHANGED <<check, unit, loaded, gone>>
        /\ refresh' = [RefreshAt("idle") EXCEPT !.ok = ok, !.active = ok /\ refresh.active]
        /\ hook' = IF hook.pc # "await" THEN hook
                    ELSE Ended(IF ok THEN "succeeded" ELSE "failed")
    BY DEF RefreshEnds, systemd
  <1>2. /\ refresh' \in Refresh /\ refresh'.pc = "idle"
        /\ refresh'.active = (ok /\ refresh.active)
    <2> DEFINE r == RefreshAt("idle")
               active == ok /\ refresh.active
    <2>1. r \in Refresh /\ r.pc = "idle"
      BY HostAssumption DEF RefreshAt, Refresh, Version
    <2>2. active \in BOOLEAN
      BY DEF CoreInv, TypeOK, Refresh
    <2>3. refresh' = [r EXCEPT !.ok = ok, !.active = active]
      BY <1>1
    <2> HIDE DEF r, active
    <2>4. refresh' \in Refresh /\ refresh'.pc = "idle" /\ refresh'.active = active
      BY <2>1, <2>2, <2>3 DEF Refresh
    <2> QED BY <2>4 DEF active
  <1>3. CASE hook.pc # "await"
    <2>1. hook' = hook
      BY <1>1, <1>3
    <2>2. TypeOK' /\ HookInv'
      BY <1>1, <1>2, <2>1 DEF CoreInv, TypeOK, HookInv, Done
    <2>3. RefreshInv'
      BY <1>1, <1>2, <1>3, <2>1 DEF CoreInv, RefreshInv
    <2> QED BY <2>2, <2>3 DEF CoreInv
  <1>4. CASE hook.pc = "await" /\ ok
    <2>1. /\ hook' \in Hook /\ hook'.pc = "succeeded" /\ hook'.new = hook.new
          /\ hook'.todo = {} /\ hook'.active = hook.active /\ hook'.at = None
          /\ hook'.joined = hook.joined
      BY <1>1, <1>4, EndedType DEF CoreInv
    <2>2. hook.todo = {} /\ hook.at = None
      BY <1>4 DEF CoreInv, HookInv, Forward
    <2>3. TypeOK'
      BY <1>1, <1>2, <2>1 DEF CoreInv, TypeOK
    <2>4. HookInv'
      BY <1>1, <1>4, <2>1, <2>2 DEF CoreInv, HookInv, Forward, Done
    <2>5. RefreshInv'
      BY <1>1, <1>2, <1>4, <2>1 DEF CoreInv, RefreshInv
    <2> QED BY <2>3, <2>4, <2>5 DEF CoreInv
  <1>5. CASE hook.pc = "await" /\ ~ok
    <2>1. hook' \in Hook /\ hook'.pc = "failed" /\ hook'.at = None
      BY <1>1, <1>5, EndedType DEF CoreInv
    <2>2. TypeOK' /\ HookInv'
      BY <1>1, <1>2, <2>1 DEF CoreInv, TypeOK, HookInv, Forward
    <2>3. RefreshInv'
      BY <1>1, <1>2, <1>5, <2>1 DEF CoreInv, RefreshInv
    <2> QED BY <2>2, <2>3 DEF CoreInv
  <1> QED BY <1>3, <1>4, <1>5

\* A step of the refresh that touches no unit: the invariant asks only about
\* the pair it has resolved, the files it has installed and the server.
LEMMA RefreshOnlyKeeps ==
  ASSUME CoreInv, UNCHANGED <<systemd, marker, current, hook>>,
         refresh' \in Refresh, refresh'.pc # "idle", hook.pc # "succeeded",
         owner' \in Version, backup' \in BOOLEAN, excuse' \in {"none", "unknown", "other"},
         refresh'.pc \in {"start", "wait", "confirm", "drop"} => owner' = refresh'.new,
         refresh'.pc = "drop" /\ refresh'.active => Server \in gone \/ unit[Server] = "up",
         hook.pc = "await" /\ ~hook.joined /\ refresh'.pc # "begin" => refresh'.new = hook.new
  PROVE  CoreInv'
  <1>1. UNCHANGED <<check, unit, loaded, gone>>
    BY DEF systemd
  <1>2. TypeOK' /\ HookInv'
    BY <1>1 DEF CoreInv, TypeOK, HookInv, Done
  <1>3. RefreshInv'
    BY <1>1 DEF RefreshInv
  <1> QED BY <1>2, <1>3 DEF CoreInv

LEMMA RefreshBeginKeeps ==
  ASSUME CoreInv, RefreshBegin
  PROVE  CoreInv'
  <1>1. refresh.pc = "begin" /\ UNCHANGED <<systemd, marker, current, owner, backup, excuse>>
    BY DEF RefreshBegin, disk
  <1>2. /\ backup' \in BOOLEAN /\ excuse' \in {"none", "unknown", "other"}
        /\ hook.pc # "succeeded"
    BY <1>1 DEF CoreInv, TypeOK, RefreshInv
  <1>3. CASE RefreshEnds(FALSE)
    BY <1>1, <1>2, <1>3, RefreshEndsKeeps
  <1>4. CASE refresh' = [refresh EXCEPT !.pc = "sample", !.new = current] /\ hook' = hook
    <2>1. refresh' \in Refresh /\ refresh'.pc = "sample" /\ refresh'.new = current
      BY <1>4 DEF CoreInv, TypeOK, Refresh
    <2>2. hook.pc = "await" => current = hook.new
      BY DEF CoreInv, HookInv, Forward
    <2> QED BY <1>1, <1>2, <1>4, <2>1, <2>2, RefreshOnlyKeeps DEF CoreInv, TypeOK
  <1> QED BY <1>3, <1>4 DEF RefreshBegin

LEMMA RefreshSampleKeeps ==
  ASSUME CoreInv, RefreshSample
  PROVE  CoreInv'
  <1>1. /\ refresh.pc = "sample"
        /\ UNCHANGED <<systemd, marker, current, owner, backup, hook, excuse>>
        /\ refresh' = [refresh EXCEPT !.active = IsActive(Server),
                         !.pc = IF IsActive(Server) THEN "stop" ELSE "install"]
    BY DEF RefreshSample, disk
  <1>2. IsActive(Server) \in BOOLEAN
    BY DEF IsActive
  <1> HIDE DEF IsActive
  <1>3. refresh' \in Refresh /\ refresh'.pc \in {"stop", "install"} /\ refresh'.new = refresh.new
    BY <1>1, <1>2 DEF CoreInv, TypeOK, Refresh
  <1>4. /\ hook.pc # "succeeded"
        /\ hook.pc = "await" /\ ~hook.joined => refresh.new = hook.new
    BY <1>1 DEF CoreInv, RefreshInv
  <1> QED BY <1>1, <1>3, <1>4, RefreshOnlyKeeps DEF CoreInv, TypeOK

\* The refresh takes the server down; the services of the hook stay.
LEMMA RefreshStopKeeps ==
  ASSUME CoreInv, RefreshStop
  PROVE  CoreInv'
  <1> DEFINE u == [unit EXCEPT ![Server] = "down"]
  <1>1. /\ refresh.pc = "stop" /\ Units(u) /\ gone' = gone \ {Server} /\ check' = check
        /\ UNCHANGED <<marker, current, owner, backup, hook, excuse>>
        /\ refresh' = [refresh EXCEPT !.pc = "install"]
    BY DEF RefreshStop, RefreshGoes, disk
  <1>2. TypeOK /\ HookInv /\ RefreshInv
    BY DEF CoreInv
  <1>3. u \in UnitMap /\ u[Server] = "down" /\ \A t \in Services \ {Server} : u[t] = unit[t]
    BY <1>2 DEF TypeOK, UnitMap, UnitState, Services
  <1> HIDE DEF u
  <1>4. /\ unit' = u /\ unit' \in [Services -> UnitState]
        /\ loaded' \in [Public -> Version \cup {0}]
        /\ \A s \in Public : u[s] = "up" =>
             loaded'[s] = IF unit[s] = "up" THEN loaded[s] ELSE current
    BY <1>1, <1>2, <1>3, UnitsEffect
  <1>5. /\ refresh' \in Refresh /\ refresh'.pc = "install" /\ refresh'.new = refresh.new
    BY <1>1, <1>2 DEF TypeOK, Refresh
  <1>6. TypeOK'
    BY <1>1, <1>2, <1>4, <1>5 DEF TypeOK
  <1>7. Public \subseteq Services \ {Server} /\ hook.active \subseteq Public
    BY <1>2, HostAssumption DEF Services, TypeOK, Hook
  <1>8. ASSUME hook.pc \in Forward, NEW t \in Done, t \notin gone'
        PROVE  unit'[t] = "up" /\ loaded'[t] = hook.new
    <2>1. t \in Public /\ t # Server /\ t \in Services
      BY <1>7, <1>8 DEF Done
    <2>2. t \notin gone
      BY <1>1, <1>8, <2>1
    <2>3. unit[t] = "up" /\ loaded[t] = hook.new
      BY <1>2, <1>8, <2>2 DEF HookInv
    <2> QED BY <1>3, <1>4, <2>1, <2>3
  <1>9. HookInv'
    <2>1. \A t \in gone' : unit'[t] # "up"
      BY <1>1, <1>2, <1>3, <1>4 DEF TypeOK, HookInv
    <2>2. ASSUME hook.pc \in {"wait", "confirm"}
          PROVE  hook.at \in Public /\ (unit'[hook.at] = "up" => loaded'[hook.at] = hook.new)
      BY <1>2, <1>3, <1>4, <1>7, <2>2 DEF HookInv
    <2> QED BY <1>1, <1>2, <1>8, <2>1, <2>2 DEF HookInv, Done
  <1>10. RefreshInv'
    BY <1>1, <1>2, <1>5 DEF RefreshInv
  <1> QED BY <1>6, <1>9, <1>10 DEF CoreInv

LEMMA RefreshInstallKeeps ==
  ASSUME CoreInv, RefreshInstall
  PROVE  CoreInv'
  <1>1. refresh.pc = "install" /\ UNCHANGED <<systemd, marker, current>>
    BY DEF RefreshInstall
  <1>2. CASE backup
    <2>1. RefreshEnds(FALSE) /\ Blame("other") /\ UNCHANGED <<owner, backup>>
      BY <1>2 DEF RefreshInstall
    <2>2. backup' \in BOOLEAN /\ excuse' \in {"none", "unknown", "other"}
      BY <2>1, BlameType DEF CoreInv, TypeOK
    <2> QED BY <1>1, <2>1, <2>2, RefreshEndsKeeps
  <1>3. CASE ~backup
    <2>1. /\ backup' = TRUE /\ owner' = refresh.new /\ hook' = hook /\ excuse' = excuse
          /\ refresh' = [refresh EXCEPT !.pc = IF refresh.active THEN "start" ELSE "drop"]
      BY <1>3 DEF RefreshInstall, RefreshGoes
    <2>2. /\ refresh' \in Refresh /\ refresh'.new = refresh.new /\ refresh'.active = refresh.active
          /\ refresh'.pc = (IF refresh.active THEN "start" ELSE "drop")
          /\ refresh.new \in Version
      BY <2>1 DEF CoreInv, TypeOK, Refresh
    <2>3. /\ hook.pc # "succeeded"
          /\ hook.pc = "await" /\ ~hook.joined => refresh.new = hook.new
      BY <1>1 DEF CoreInv, RefreshInv
    <2> QED BY <1>1, <2>1, <2>2, <2>3, RefreshOnlyKeeps DEF CoreInv, TypeOK
  <1> QED BY <1>2, <1>3

\* The server is asked for; the services of the hook stay.
LEMMA RefreshStartKeeps ==
  ASSUME CoreInv, RefreshStart
  PROVE  CoreInv'
  <1>1. /\ refresh.pc = "start" /\ UNCHANGED <<marker, current, owner, backup, hook, excuse>>
        /\ refresh' = [refresh EXCEPT !.pc = "wait"]
    BY DEF RefreshStart, RefreshGoes, disk
  <1>2. TypeOK /\ HookInv /\ RefreshInv
    BY DEF CoreInv
  <1>3. refresh' \in Refresh /\ refresh'.pc = "wait" /\ refresh'.new = refresh.new
    BY <1>1, <1>2 DEF TypeOK, Refresh
  <1>4. owner' = refresh'.new /\ hook.pc # "succeeded"
        /\ (hook.pc = "await" /\ ~hook.joined => refresh'.new = hook.new)
    BY <1>1, <1>2, <1>3 DEF RefreshInv
  <1>5. CASE UNCHANGED systemd
    BY <1>1, <1>2, <1>3, <1>4, <1>5, RefreshOnlyKeeps DEF TypeOK
  <1>6. CASE Ask(Server)
    <2>1. Server \in Services /\ Public \subseteq Services \ {Server}
      BY HostAssumption DEF Services
    <2>2. /\ unit' \in [Services -> UnitState]
          /\ loaded' \in [Public -> Version \cup {0}]
          /\ check' = TRUE /\ gone' = gone \ {Server} /\ unit'[Server] = "waiting"
          /\ \A t \in Services \ {Server} : unit'[t] = unit[t]
          /\ \A t \in Public \ {Server} : unit[t] = "up" => loaded'[t] = loaded[t]
      BY <1>2, <1>6, <2>1, AskEffect
    <2>3. TypeOK'
      BY <1>1, <1>2, <1>3, <2>2 DEF TypeOK
    <2>4. hook.active \subseteq Public
      BY <1>2 DEF TypeOK, Hook
    <2>5. ASSUME hook.pc \in Forward, NEW t \in Done, t \notin gone'
          PROVE  unit'[t] = "up" /\ loaded'[t] = hook.new
      <3>1. t \in Public /\ t \in Services \ {Server} /\ t \notin gone
        BY <2>1, <2>2, <2>4, <2>5 DEF Done
      <3> QED BY <1>2, <2>2, <2>5, <3>1 DEF HookInv
    <2>6. HookInv'
      <3>1. \A t \in gone' : unit'[t] # "up"
        BY <1>2, <2>2 DEF TypeOK, HookInv
      <3>2. ASSUME hook.pc \in {"wait", "confirm"}
            PROVE  hook.at \in Public /\ (unit'[hook.at] = "up" => loaded'[hook.at] = hook.new)
        BY <1>2, <2>1, <2>2, <3>2 DEF HookInv
      <3> QED BY <1>1, <1>2, <2>5, <3>1, <3>2 DEF HookInv, Done
    <2>7. RefreshInv'
      BY <1>1, <1>2, <1>3, <1>4 DEF RefreshInv
    <2> QED BY <2>3, <2>6, <2>7 DEF CoreInv
  <1> QED BY <1>5, <1>6 DEF RefreshStart

LEMMA RefreshStartedKeeps ==
  ASSUME CoreInv, RefreshStarted
  PROVE  CoreInv'
  <1>1. /\ refresh.pc \in {"wait", "confirm"}
        /\ UNCHANGED <<systemd, marker, current, owner, backup, excuse>>
    BY DEF RefreshStarted, disk
  <1>2. /\ backup' \in BOOLEAN /\ excuse' \in {"none", "unknown", "other"} /\ owner' \in Version
        /\ hook.pc # "succeeded" /\ owner' = refresh.new
        /\ (hook.pc = "await" /\ ~hook.joined => refresh.new = hook.new)
    BY <1>1 DEF CoreInv, TypeOK, RefreshInv
  <1>3. CASE RefreshEnds(FALSE)
    BY <1>1, <1>2, <1>3, RefreshEndsKeeps
  <1>4. CASE RefreshGoes("confirm")
    <2>1. /\ refresh' \in Refresh /\ refresh'.pc = "confirm" /\ refresh'.new = refresh.new
          /\ hook' = hook
      BY <1>4 DEF RefreshGoes, CoreInv, TypeOK, Refresh
    <2> QED BY <1>1, <1>2, <2>1, RefreshOnlyKeeps
  <1>5. CASE RefreshGoes("drop") /\ IsActive(Server)
    <2>1. /\ refresh' \in Refresh /\ refresh'.pc = "drop" /\ refresh'.new = refresh.new
          /\ hook' = hook
      BY <1>5 DEF RefreshGoes, CoreInv, TypeOK, Refresh
    <2> QED BY <1>1, <1>2, <1>5, <2>1, RefreshOnlyKeeps DEF IsActive
  <1> QED BY <1>3, <1>4, <1>5 DEF RefreshStarted

LEMMA RefreshOverKeeps ==
  ASSUME CoreInv, RefreshDrop \/ RefreshFails
  PROVE  CoreInv'
  <1>1. CASE RefreshDrop
    BY <1>1, RefreshEndsKeeps DEF RefreshDrop, CoreInv, TypeOK
  <1>2. CASE RefreshFails
    <2>1. excuse' \in {"none", "unknown", "other"}
      BY <1>2, BlameType DEF RefreshFails, CoreInv
    <2> QED BY <1>2, <2>1, RefreshEndsKeeps DEF RefreshFails, disk, CoreInv, TypeOK
  <1> QED BY <1>1, <1>2

-----------------------------------------------------------------------------
(***************************************************************************)
(* Every step.                                                             *)
(***************************************************************************)
LEMMA CoreInit == Init => CoreInv
  <1> SUFFICES ASSUME Init PROVE CoreInv
    OBVIOUS
  <1>1. 1 \in Version
    BY HostAssumption DEF Version
  <1>2. hook = [pc |-> "idle", new |-> 1, prev |-> 1, active |-> {}, todo |-> {},
                at |-> None, joined |-> FALSE]
    BY DEF Init, HookAt
  <1>3. refresh = [pc |-> "idle", new |-> 1, active |-> FALSE, ok |-> FALSE]
    BY DEF Init, RefreshAt
  <1>4. hook \in Hook /\ refresh \in Refresh
    BY <1>1, <1>2, <1>3 DEF Hook, Refresh
  <1>5. TypeOK
    BY <1>1, <1>4 DEF Init, TypeOK, UnitState
  <1>6. HookInv /\ RefreshInv
    BY <1>2, <1>3 DEF Init, HookInv, RefreshInv, Forward
  <1> QED BY <1>5, <1>6 DEF CoreInv

LEMMA CoreNext == CoreInv /\ [Next]_vars => CoreInv'
  <1> SUFFICES ASSUME CoreInv, [Next]_vars PROVE CoreInv'
    OBVIOUS
  <1>1. CASE HookBegin \/ HookStep \/ HookFails \/ HookKilled
    BY <1>1, HookBeginKeeps, HookSampleKeeps, HookPublishKeeps, HookRestartKeeps,
       HookWaitedKeeps, HookConfirmKeeps, HookRestartedKeeps, HookEndsKeep, HookOwnerKeeps
    DEF HookStep
  <1>2. CASE RefreshStep \/ RefreshFails
    BY <1>2, RefreshBeginKeeps, RefreshSampleKeeps, RefreshStopKeeps, RefreshInstallKeeps,
       RefreshStartKeeps, RefreshStartedKeeps, RefreshOverKeeps
    DEF RefreshStep
  <1>3. CASE Timer \/ Review \/ Check
    BY <1>3, QuietKeeps, CheckKeeps
  <1>4. CASE \E s \in Services : UnitRequested(s) \/ UnitExits(s)
    BY <1>4, UnitKeeps
  <1>5. CASE UNCHANGED vars
    BY <1>5 DEF vars, systemd, disk, CoreInv, TypeOK, HookInv, RefreshInv, Done
  <1> QED BY <1>1, <1>2, <1>3, <1>4, <1>5 DEF Next

-----------------------------------------------------------------------------
(***************************************************************************)
(* A hook fails for a cause.                                               *)
(***************************************************************************)
\* Whatever is blamed while a hook is at work stays with it.
LEMMA BlameEffect ==
  ASSUME NEW why \in {"unknown", "other"}, Blame(why)
  PROVE  /\ HookRuns => excuse' # "none"
         /\ ~HookRuns => excuse' = excuse
  BY DEF Blame

\* Where the programs are after a step that ends one of them.
LEMMA EndsEffect ==
  /\ \A how \in {"owner", "succeeded", "failed"} : Ended(how).pc = how
  /\ \A l, v : HookAt(l, v).pc = l
  /\ \A ok : RefreshEnds(ok) =>
       /\ refresh'.pc = "idle"
       /\ hook.pc # "await" => hook' = hook
       /\ hook.pc = "await" => hook'.pc = IF ok THEN "succeeded" ELSE "failed"
  /\ \A l : RefreshAt(l).pc = l
  BY DEF Ended, HookAt, RefreshEnds, RefreshAt

\* The steps of the hook.
LEMMA CalmHook ==
  ASSUME CoreInv, CalmInv, HookBegin \/ HookStep \/ HookFails \/ HookKilled
  PROVE  CalmInv'
  <1> USE EndsEffect
  <1>0. TypeOK /\ HookInv
    BY DEF CoreInv
  <1>a. hook \in Hook /\ \A l : [hook EXCEPT !.pc = l].pc = l
    BY <1>0 DEF TypeOK, Hook
  <1>1. ASSUME UNCHANGED <<unit, check, backup, refresh, excuse>>, HookRuns,
               hook'.pc \in {"publish", "restart", "owner"}
        PROVE  CalmInv'
    BY <1>1 DEF CalmInv, FailureHasCause, HookRuns
  <1>2. ASSUME UNCHANGED <<unit, check, backup, refresh>>, excuse' # "none"
        PROVE  CalmInv'
    BY <1>2 DEF CalmInv, FailureHasCause
  <1>3. CASE HookBegin
    <2>1. hook'.pc = "sample" /\ (excuse' = "none" => ~backup) /\ UNCHANGED <<unit, check, backup, refresh>>
      BY <1>3 DEF HookBegin, HookOnly, systemd
    <2> QED BY <2>1 DEF CalmInv, FailureHasCause
  <1>4. CASE HookSample \/ HookPublish \/ HookRestarted
    <2>1. /\ UNCHANGED <<unit, check, backup, refresh, excuse>> /\ HookRuns
          /\ hook'.pc \in {"publish", "restart", "owner"}
      BY <1>4, <1>a DEF HookSample, HookPublish, HookRestarted, HookOnly, systemd, HookRuns, Hook
    <2> QED BY <1>1, <2>1
  <1>5. ASSUME NEW s \in Public, HookRestart(s) PROVE CalmInv'
    <2>1. /\ unit'[s] = "waiting" /\ \A t \in Services \ {s} : unit'[t] = unit[t]
          /\ check' = TRUE /\ UNCHANGED <<backup, refresh, excuse>>
      BY <1>0, <1>5, AskEffect DEF HookRestart, disk, Services
    <2>2. /\ hook.pc \in {"restart", "restore"} /\ hook'.at = s
          /\ hook'.pc = IF hook.pc = "restart" THEN "wait" ELSE "settle"
      BY <1>a, <1>5 DEF HookRestart, Hook
    <2>3. Server # s /\ Server \in Services
      BY HostAssumption DEF Services
    <2> QED BY <2>1, <2>2, <2>3 DEF CalmInv, FailureHasCause, HookRuns
  <1>6. CASE HookWaited \/ HookConfirm
    <2>1. /\ UNCHANGED <<unit, check, backup, refresh, excuse>>
          /\ hook.pc \in {"wait", "confirm"} /\ HookRuns
      BY <1>6 DEF HookWaited, HookConfirm, HookOnly, systemd, HookRuns
    <2>2. CASE Undo
      <3>1. unit[hook.at] # "up" /\ (hook.pc = "wait" => unit[hook.at] = "down")
        BY <1>6, <2>2, <1>a, <2>1 DEF HookWaited, HookConfirm, Proceed, Undo, Settled, Succeeded, IsActive, Hook
      <3> QED BY <1>2, <2>1, <3>1 DEF CalmInv
    <2>3. CASE hook' = [hook EXCEPT !.pc = "confirm"] /\ hook.pc = "wait" /\ Settled(hook.at)
      <3>1. hook'.pc = "confirm" /\ hook'.at = hook.at
        BY <1>a, <2>3 DEF Hook
      <3> QED BY <2>1, <2>3, <3>1 DEF Settled, CalmInv, FailureHasCause, HookRuns
    <2>4. CASE hook'.pc = "restart"
      BY <1>1, <2>1, <2>4
    <2> QED BY <1>6, <1>a, <2>2, <2>3, <2>4 DEF HookWaited, HookConfirm, Proceed, Hook
  <1>7. CASE HookSettled
    <2>1. hook.pc \in {"settle", "restore"} /\ UNCHANGED <<unit, check, backup, refresh, excuse>>
      BY <1>7 DEF HookSettled, HookOnly, systemd
    <2> QED BY <1>2, <2>1 DEF CalmInv, FailureHasCause
  <1>8. CASE HookOwner
    <2>1. /\ hook.pc = "owner" /\ hook'.pc = "await" /\ UNCHANGED <<unit, check, backup, excuse>>
          /\ refresh' = refresh \/ refresh'.pc = "begin"
      BY <1>8, <1>a DEF HookOwner, AfterStart, systemd, disk, Hook
    <2> QED BY <2>1 DEF CalmInv, FailureHasCause, HookRuns
  <1>9. CASE HookFails \/ HookKilled
    <2>1. HookRuns /\ Blame("other") /\ UNCHANGED <<unit, check, backup, refresh>>
      BY <1>9 DEF HookFails, HookKilled, HookOnly, systemd, HookRuns
    <2> QED BY <1>2, <2>1, BlameEffect
  <1> QED BY <1>3, <1>4, <1>5, <1>6, <1>7, <1>8, <1>9 DEF HookStep

\* The steps of the refresh, which never fails by itself in a start that nobody
\* has disturbed.
LEMMA CalmRefresh ==
  ASSUME CoreInv, CalmInv, RefreshStep \/ RefreshFails
  PROVE  CalmInv'
  <1> USE EndsEffect
  <1>0. TypeOK /\ HookInv
    BY DEF CoreInv
  <1>a. refresh \in Refresh /\ Server \in Services
    BY <1>0 DEF TypeOK, Services
  <1>b. hook.pc \in {"wait", "confirm"} => hook.at \in Services \ {Server}
    BY <1>0, HostAssumption DEF HookInv, Services
  <1>1. ASSUME UNCHANGED <<unit, check, excuse>>, backup' = backup \/ backup',
               refresh'.pc \notin {"start", "wait", "confirm", "drop"} \/ backup',
               refresh'.pc \notin {"wait", "confirm"},
               hook'.pc # "failed" \/ hook' = hook \/ excuse # "none",
               hook' = hook \/ hook'.pc \in {"succeeded", "failed"}
        PROVE  CalmInv'
    BY <1>1 DEF CalmInv, FailureHasCause, HookRuns
  <1>2. CASE RefreshBegin \/ RefreshSample
    <2>1. RefreshLock \notin Held
      BY DEF RefreshLock, Held, HookLock
    <2>2. refresh'.pc \in {"sample", "stop", "install"} /\ hook' = hook /\ UNCHANGED <<unit, check, excuse, backup>>
      BY <1>2, <1>a, <2>1 DEF RefreshBegin, RefreshSample, systemd, disk, Refresh
    <2> QED BY <1>1, <2>2
  <1>3. CASE RefreshStop
    <2>1. /\ unit' = [unit EXCEPT ![Server] = "down"] /\ hook' = hook
          /\ refresh'.pc = "install" /\ UNCHANGED <<check, excuse, backup>>
      BY <1>3, <1>a DEF RefreshStop, Units, RefreshGoes, disk, Refresh
    <2>2. \A t \in Services \ {Server} : unit'[t] = unit[t]
      BY <2>1, <1>0 DEF TypeOK
    <2>3. unit'[Server] = "down"
      BY <2>1, <1>0, <1>a DEF TypeOK
    <2> QED BY <2>1, <2>2, <2>3, <1>b DEF CalmInv, FailureHasCause, HookRuns
  <1>4. CASE RefreshInstall
    <2>1. CASE backup
      <3>1. RefreshEnds(FALSE) /\ Blame("other") /\ UNCHANGED <<unit, check, backup>>
        BY <1>4, <2>1 DEF RefreshInstall, systemd
      <3> QED BY <3>1, BlameEffect DEF CalmInv, FailureHasCause, HookRuns
    <2>2. CASE ~backup
      <3>1. backup' /\ refresh'.pc \in {"start", "drop"} /\ hook' = hook /\ UNCHANGED <<unit, check, excuse>>
        BY <1>4, <1>a, <2>2 DEF RefreshInstall, RefreshGoes, systemd, Refresh
      <3> QED BY <1>1, <3>1
    <2> QED BY <2>1, <2>2
  <1>5. CASE RefreshStart
    <2>1. /\ refresh.pc = "start" /\ refresh'.pc = "wait" /\ hook' = hook /\ UNCHANGED <<backup, excuse>>
          /\ IF IsActive(Server) THEN UNCHANGED systemd ELSE Ask(Server)
      BY <1>5, <1>a DEF RefreshStart, RefreshGoes, disk, Refresh
    <2>2. CASE IsActive(Server)
      BY <2>1, <2>2 DEF IsActive, systemd, CalmInv, FailureHasCause, HookRuns
    <2>3. CASE ~IsActive(Server)
      <3>1. /\ unit'[Server] = "waiting" /\ check' = TRUE
            /\ \A t \in Services \ {Server} : unit'[t] = unit[t]
        BY <1>0, <1>a, <2>1, <2>3, AskEffect
      <3> QED BY <2>1, <3>1, <1>b DEF CalmInv, FailureHasCause, HookRuns
    <2> QED BY <2>2, <2>3
  <1>6. CASE RefreshStarted
    <2>1. UNCHANGED <<unit, check, backup, excuse>> /\ refresh.pc \in {"wait", "confirm"}
      BY <1>6 DEF RefreshStarted, systemd, disk
    <2>2. CASE RefreshEnds(FALSE) /\ unit[Server] # "up" /\ (refresh.pc = "wait" => unit[Server] = "down")
      <3>1. HookRuns => excuse # "none"
        BY <2>1, <2>2 DEF CalmInv
      <3> QED BY <1>1, <2>1, <2>2, <3>1 DEF HookRuns
    <2>3. CASE RefreshGoes("confirm") /\ refresh.pc = "wait" /\ Settled(Server)
      <3>1. refresh'.pc = "confirm" /\ hook' = hook
        BY <1>a, <2>3 DEF RefreshGoes, Refresh
      <3> QED BY <2>1, <2>3, <3>1 DEF Settled, CalmInv, FailureHasCause, HookRuns
    <2>4. CASE RefreshGoes("drop")
      <3>1. refresh'.pc = "drop" /\ hook' = hook
        BY <1>a, <2>4 DEF RefreshGoes, Refresh
      <3> QED BY <2>1, <3>1 DEF CalmInv, FailureHasCause, HookRuns
    <2> QED BY <1>6, <2>2, <2>3, <2>4 DEF RefreshStarted, Settled, Succeeded, IsActive
  <1>7. CASE RefreshDrop
    <2>1. RefreshEnds(TRUE) /\ UNCHANGED <<unit, check, excuse>>
      BY <1>7 DEF RefreshDrop, systemd
    <2> QED BY <2>1 DEF CalmInv, FailureHasCause, HookRuns
  <1>8. CASE RefreshFails
    <2>1. RefreshEnds(FALSE) /\ Blame("other") /\ UNCHANGED <<unit, check, backup>>
      BY <1>8 DEF RefreshFails, systemd, disk
    <2> QED BY <2>1, BlameEffect DEF CalmInv, FailureHasCause, HookRuns
  <1> QED BY <1>2, <1>3, <1>4, <1>5, <1>6, <1>7, <1>8 DEF RefreshStep

\* The steps of systemd, of the check and of the operator.
LEMMA CalmOther ==
  ASSUME CoreInv, CalmInv, Timer \/ Review \/ Check \/ \E s \in Services : UnitRequested(s) \/ UnitExits(s)
  PROVE  CalmInv'
  <1>0. TypeOK /\ HookInv
    BY DEF CoreInv
  <1>a. Server \in Services /\ (hook.pc \in {"wait", "confirm"} => hook.at \in Services)
    BY <1>0 DEF HookInv, Services
  <1>1. ASSUME UNCHANGED <<hook, refresh, backup>>, Blame("other") \/ Blame("unknown"),
               \A s \in Services : unit'[s] = "waiting" => check'
        PROVE  CalmInv'
    BY <1>1, BlameEffect DEF CalmInv, FailureHasCause, HookRuns
  <1>2. CASE Timer \/ Review
    BY <1>2 DEF Timer, Review, systemd, disk, CalmInv, FailureHasCause, HookRuns
  <1>3. CASE CheckPasses
    <2>1. /\ unit' = [s \in Services |-> IF unit[s] = "waiting" THEN Started ELSE unit[s]]
          /\ UNCHANGED <<hook, refresh, backup>>
          /\ IF marker THEN Blame("other") ELSE excuse' = excuse
      BY <1>3 DEF CheckPasses, CheckEnds, Elsewhere, Units
    <2>2. \A s \in Services : unit'[s] # "waiting"
      BY <2>1 DEF Started
    <2>3. CASE marker
      BY <1>1, <2>1, <2>2, <2>3
    <2>4. CASE ~marker
      <3>1. \A s \in Services : unit'[s] = IF unit[s] = "waiting" THEN "up" ELSE unit[s]
        BY <2>1, <2>4 DEF Started
      <3> QED BY <2>1, <2>2, <2>4, <3>1, <1>a DEF CalmInv, FailureHasCause, HookRuns
    <2> QED BY <2>3, <2>4
  <1>4. CASE CheckUnknown \/ CheckMismatch
    <2>1. /\ UNCHANGED <<hook, refresh, backup>> /\ (Blame("other") \/ Blame("unknown"))
          /\ \A s \in Services : unit'[s] # "waiting"
      BY <1>4 DEF CheckUnknown, CheckMismatch, CheckEnds, Elsewhere, Units, Started
    <2> QED BY <1>1, <2>1
  <1>5. ASSUME NEW s \in Services, UnitRequested(s) PROVE CalmInv'
    <2>1. /\ unit' = [unit EXCEPT ![s] = "waiting"] /\ check' = TRUE /\ UNCHANGED <<hook, refresh, backup>>
          /\ IF unit[s] = "down" THEN excuse' = excuse ELSE Blame("other")
      BY <1>5 DEF UnitRequested, Elsewhere, Units, Queue, disk
    <2>2. unit'[s] = "waiting" /\ \A t \in Services \ {s} : unit'[t] = unit[t]
      BY <1>0, <2>1 DEF TypeOK
    <2>3. CASE unit[s] = "down"
      BY <2>1, <2>2, <2>3, <1>a DEF CalmInv, FailureHasCause, HookRuns
    <2> QED BY <1>1, <2>1, <2>3
  <1>6. ASSUME NEW s \in Services, UnitExits(s) PROVE CalmInv'
    <2>1. /\ unit' = [unit EXCEPT ![s] = "down"] /\ Blame("other")
          /\ UNCHANGED <<check, hook, refresh, backup>>
      BY <1>6 DEF UnitExits, Elsewhere, Units, disk
    <2>2. \A t \in Services : unit'[t] = "waiting" => check'
      BY <1>0, <2>1 DEF TypeOK, CalmInv
    <2> QED BY <1>1, <2>1, <2>2
  <1> QED BY <1>2, <1>3, <1>4, <1>5, <1>6 DEF Check

LEMMA CalmNext == CoreInv /\ CalmInv /\ [Next]_vars => CalmInv'
  <1> SUFFICES ASSUME CoreInv, CalmInv, [Next]_vars PROVE CalmInv'
    OBVIOUS
  <1>1. CASE UNCHANGED vars
    BY <1>1 DEF vars, systemd, disk, CalmInv, FailureHasCause, HookRuns
  <1> QED BY <1>1, CalmHook, CalmRefresh, CalmOther DEF Next

-----------------------------------------------------------------------------
(***************************************************************************)
(* The theorems.                                                           *)
(***************************************************************************)
\* The inductive invariant holds of every reachable state of the host.
THEOREM HomeInvHolds == Spec => []HomeInv
  <1>1. Init => HomeInv
    BY CoreInit DEF Init, CoreInv, HomeInv, CalmInv, FailureHasCause, HookRuns, HookAt, RefreshAt
  <1>2. HomeInv /\ [Next]_vars => HomeInv'
    BY CoreNext, CalmNext DEF CoreInv, HomeInv
  <1> QED BY <1>1, <1>2, PTL DEF Spec

\* A hook never goes back or fails without a cause from outside: neither the
\* refresh it waits for nor the check its restarts pull in can be one, for any
\* services and any interleaving.
THEOREM FailureCaused == Spec => []FailureHasCause
  <1>1. HomeInv => FailureHasCause
    BY DEF HomeInv, CalmInv
  <1> QED BY <1>1, HomeInvHolds, PTL

\* Every variable keeps its type.
THEOREM HomeTypes == Spec => []TypeOK
  <1>1. HomeInv => TypeOK
    BY DEF HomeInv
  <1> QED BY <1>1, HomeInvHolds, PTL

\* What main of ip_deploy.py and owner_install report is true of the services: a
\* success of the hook leaves what it found running up on the new pair, one of the
\* refresh leaves the server up, unless somebody else has taken them down.
THEOREM SuccessIsTrue == Spec => []SuccessMeansRunning
  <1>1. HomeInv => SuccessMeansRunning
    <2> SUFFICES ASSUME HomeInv PROVE SuccessMeansRunning
      OBVIOUS
    <2>1. ASSUME hook.pc = "succeeded", NEW s \in hook.active \ gone
          PROVE  unit[s] = "up" /\ loaded[s] = hook.new
      <3>1. hook.todo = {} /\ hook.at = None
        BY <2>1 DEF HomeInv, HookInv, Forward
      <3>2. s \in Public /\ None \notin Public
        BY <2>1, HostAssumption DEF HomeInv, TypeOK, Hook
      <3>3. s \in Done \ gone
        BY <2>1, <3>1, <3>2 DEF Done
      <3> QED BY <2>1, <3>3 DEF HomeInv, HookInv, Forward
    <2> QED BY <2>1 DEF SuccessMeansRunning, HomeInv, RefreshInv
  <1> QED BY <1>1, HomeInvHolds, PTL

\* A hook that waited for a refresh of its own, as main of ip_deploy.py does after
\* the restarts, has brought its pair to the owner directory.
THEOREM OwnerFollowsHolds == Spec => []OwnerFollows
  <1>1. HomeInv => OwnerFollows
    BY DEF HomeInv, RefreshInv, OwnerFollows
  <1> QED BY <1>1, HomeInvHolds, PTL
=============================================================================
