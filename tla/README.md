# A TLA+ model of aura-server's delivery and certificate tools

This directory models the Python programs of this repository: the release tool
(`src/release.py`) and the host tooling of the home installation
(`src/infrastructure/`). They are small sequential programs. What makes them
hard is around them: two of them at once, systemd units that start and fail
while they run, a timeout that kills them half-way, a power loss that keeps part
of what they wrote. The models are about that.

Line numbers and symbols for every definition are in `PROJECT.json` under `map`.

## 1. The system

| component | code | state it keeps | operations |
|---|---|---|---|
| IP certificate deploy hook | `infrastructure/ip_deploy.py` | `/etc/aura-infrastructure/tls`: one directory per published pair, the link `current`, the staging link `.current-next`; the lock file in `/run/lock` | copy and validate the renewed pair, publish it, restart the services, roll back, prune, start the owner refresh |
| Public services under systemd | units written by `prepare.py`, `self_hosted.py` | unit state, loaded credentials | load certificate and key through `tls/current`, restart on failure, start condition and start dependency |
| Certificate validation | `renew.py` `validate_pair` | none | match, chain, address, lifetime of a pair |
| Owner certificate refresh | `owner_ip_refresh.py`, `renew.py` (`owner_install`, `owner_files`, `atomic_copy`) | the two owner files, the backup directory, the server's state | stop, back up, replace, check, start, drop the backup |
| DNS deploy hook | `renew.py` `main` | files per role, their backups | the hook of the superseded two-host layout |
| WAN address watch | `wan_watch.py` and its two units | the marker `ADDRESS-REPAIR` | read the router, compare, mark, stop all services |
| Release tool | `release.py` | archive files, release directories | pack, fetch, verify and unpack |
| Layout rendering | `prepare.py`, `self_hosted.py` | an output directory | render unit files, the renewal timer, client endpoints and the router review |
| Firewall and routing guards | `host_guard.py`, `owner_guard.py`, `local_endpoints.py` | three nftables tables in the kernel | load one table each, before the services that require it |
| Reachability probe | `reachability_probe.py` | a socket | answer a bounded number of echo requests |
| systemd smoke check | `smoke_systemd.py` | none | a manual check on a host |

How they interact:

- Certbot moves the links of its lineage (`cert.pem`, `privkey.pem`, ...) one
  after the other and calls the deploy hook, which copies through them.
- The hook moves `tls/current`. systemd reads each credential of a starting
  service through that link, at any moment, without any lock.
- The hook restarts the services it sampled as active and then starts
  `aura-owner-tls-refresh.service`, which resolves `tls/current` and installs the
  pair in the owner directory.
- Every service `Requires` the address check, which runs before each start and
  every three minutes; the check stops the services and leaves a marker on which
  their start condition depends.
- Every service `Requires` its guards, which load their tables once a boot. A
  packet passes the chains of all loaded tables.
- The hook holds its lock while it waits for a restart; the restart waits for the
  address check. At its end the hook waits for the refresh, which waits for the
  server's start, which waits for the check. Every wait has a timeout after which
  the job goes on alone.
- The renewal timer runs Certbot every hour; Certbot renews a pair that is due and
  then runs the hook once, whether it succeeds or not.
- Separate runs of the release tool share only the paths they are given.

What is hard to test here: the moment of a kill or a power loss between any two
system calls; a second process between a check and the use of its result; the
two reads of a pair on both sides of a move of the link; the recovery from a
failure that is itself interrupted. `PROJECT.json` lists each such place under
`hazards`.

What makes each component correct:

- *deploy hook*: a reader and a power loss find a whole pair of one renewal; a
  published pair never changes; a failure puts back the pair that worked; what
  a rollback needs is kept; the lock comes back.
- *owner refresh*: whatever happens, a matching owner pair is on the disk; a
  reported success is final.
- *address watch*: a service it stopped stays down until the operator's repair,
  and a lasting change brings every service down.
- *guards*: whatever serves is reached by those it is meant for and by nobody
  else, through boots, failed guards and restarts.
- *the host as a whole*: a reported success is true of the services and the owner
  directory, and nothing waits for itself.
- *renewal schedule*: a certificate that expires in use has a failure behind it that
  was logged, or is what a successful deployment has overtaken; and failures heal.
- *release tool*: a destination is a complete, verified result of exactly one
  run, or it is not there; what `pack` makes, `unpack` accepts.

## 2. The modules

```
PairRegister  <--implements--  IpDeploy        <-- MCIpDeploy, IpDeploy_proofs, PairRegister_proofs
PairInstall   <--implements--  OwnerInstall    <-- MCOwnerInstall, OwnerInstall_proofs
                               WanWatch        <-- MCWanWatch
WanWatch, HostPolicy  <--extends--  HostGuards <-- MCHostGuards, HostGuards_proofs
                               HomeHost        <-- MCHomeHost, HomeHost_proofs
                               RenewalSchedule <-- MCRenewalSchedule, RenewalSchedule_proofs
ReleaseFormat <--extends--  ReleaseDelivery    <-- MCReleaseDelivery, ReleaseDelivery_proofs
                               ReleaseFormat   <-- ReleaseFormat_proofs
```

Each component module declares its constants and their assumption, one action
per system call or command that another process or a crash can get between, the
specification, the properties, and the inductive invariant of its proof. An
operator that says "mutant" is a plausible bug the code does not have; no
action uses it, and the properties are shown to fail when it replaces the
definition that follows it.

### IpDeploy

`main`, `publish`, `point` and `sync_directory` of `ip_deploy.py`, and the
services.

| state | code |
|---|---|
| `lineage` | what Certbot's `live` links name, one version per file |
| `lock` | the `flock` on `/run/lock/aura-ip-tls.lock` |
| `pc`, `job` | where a hook is; its snapshot, `active`, the services still to do, `generation`, `previous`, and where `point` is aimed |
| `root` | the publication directory: the generations, `current`, `.current-next` |
| `pair` | the two files of every generation |
| `rootLog`, `pairLog` | what a power loss could leave of `root` and of each generation |
| `unit` | each systemd unit, with the material it has loaded |

`Acquire`, `CopySnapshot`, `Validate`/`Reject` and `Sample` are `main` up to the
call of `publish`; `Enter`/`Refuse` read the link and make the directory;
`WritePair` and `SyncGeneration` fill it; `Stage`, `Replace`, `SyncRoot` are
`point`; `Restart`, `Check`, `Restarted` the restarts; `RollBack`, `Unlink`,
`Restore`, `Restored` the `except` branch; `Prune`, `Pruned` the end of
`publish`. `Abort`, `WriteFails`, `RestartFails` and `PruneFails` are its
failures; they raise or are kills, and each ends the process, which frees the
lock. `Renew`, `Load`, `AutoRestart`, `UnitFails`, the operator's actions and
`PowerLoss` are the surroundings.

*Power loss.* A file that was fsynced has its data on the disk; a name that was
created, renamed or removed is there for certain only after an fsync of its
directory. The changes of one directory reach the disk in their order, as on a
journalled file system (ext4 in its default mode); data that was not synced may
be lost at any point. `rootLog` is therefore the set of all states of the
directory since its last sync, and `pairLog[g]` the set of all contents of
generation `g`. `PowerLoss` chooses one of each.

`PairRegister` is the abstract specification: one register that holds whole
pairs. A reader sees a value that was written, a power loss sets it back to one
written since the last sync, and there is never a torn value. `IpDeploy`
implements it with the mapping `shown` = what `tls/current` leads to, `saved` =
what it could lead to after a power loss.

### OwnerInstall

`main` and `refresh` of `owner_ip_refresh.py`; `owner_install`, `owner_files` and
`atomic_copy` of `renew.py`. `disk` is the owner directory with the backup, and
`diskLog` every state of it a power loss could leave. `Begin`, `Sample`,
`Verify`/`Reject` are `refresh`; `Stop`, `MakeBackup`/`StaleBackup`, `Copy`
(two files into the backup, two into place; `CopyUnsynced` is a kill between a
rename and its sync), `Check`, `Start`,
`Confirm`, `Drop`, `Finish` are `owner_install`. `Fail` is a failure or a kill
at any other step. The copies in the backup are synced there, but the backup's own
entry in the owner directory is safe only after the first replacement. `Repair` is the operator's offline review that the code relies on
when a backup is found: it puts the kept pair back if the live one is not whole.
Where the package itself is called (`owner check`), its check is that the
material matches.

`PairInstall` is the abstract specification: a refresh installs the pair that was
published when it began, in one step or not at all, and a power loss sets the
directory back only over installations that were not synced. The mapping reads the
owner directory as the operator does (`Recovered`): the live pair, or the kept one
if the live files do not match. The one step is the replacement of the second file;
everything before, after and between, the repair included, leaves the value alone.

### WanWatch

`enforce` of `wan_watch.py`, one action per step, with the timer and the unit
lines it writes (`DEPENDENCY`). `marker`/`markerLog` is the file
`ADDRESS-REPAIR` and its durability. A unit is `waiting` for the check, `ready`
for its condition to be evaluated, `up`, `stopping` or `down`. A router that
cannot be read and one that reports a private address are the same to the code
and are `Unknown`. `halted` is a history variable: the services that were stopped
under the marker, since the last repair.

### HostPolicy and HostGuards

`HostPolicy` has the three tables as predicates on packets. A packet has a source
and a destination by what the rules tell apart (the LAN, the observed /64, the
overlay, outside, the host itself), ports that a rule, a listener or the router
review names, and a connection state. `OwnerInput` and `PublicInput` are the two
input chains, `Routed` the rewriting of the third table; `Admitted` is the
evaluation by the kernel: every loaded chain has to let a packet pass. `Listens`
and `Endpoint` are the sockets and the advertised endpoints that `self_hosted.py`
renders.

`HostGuards` composes it with the actions of `WanWatch`: `LoadTable` is a guard's
oneshot, which replaces its table in one transaction and is never undone;
`GuardedStart` is `WanWatch`'s `Start` of a unit that also has `Requires=` and
`After=` its guards; `Reboot` is its `PowerLoss`, which leaves no table.
A guard that fails changes nothing, and the jobs that require it end (`Exit`).
The packets are evaluated once per set of tables (`PrivateTables`,
`ReviewedTables`, `OpenTables`).

### HomeHost

The deploy hook, the owner refresh and the address check at once. The actions
`Hook...` are `main` and `publish` of `ip_deploy.py`, `Refresh...` are
`owner_ip_refresh.py` and `owner_install`, `Check...` is a run of `wan_watch.py`.
The files, the power losses and the single steps of the check are left to the
component models; a publication, an installation and a check are one step here.
What is kept is every command that asks systemd for something, every wait, and
what each outcome makes the program do next: `HookRestart` and `HookWaited` are
the two halves of one `systemctl restart`, and `HookFails` between them is its 60 s
timeout, after which the job goes on. A service that comes up loads the pair that
is linked then. `HookOwner` starts the refresh or joins the one that runs.

`gone` and `excuse` are history: the services somebody else took down since they
were last up, and the worst that has happened around the hook at work: an
unreadable router (`unknown`), or a failure, a kill, a changed address or a unit
somebody else restarted or stopped (`other`).

### RenewalSchedule

The timer and the service of `self_hosted.py`, `-checkend` of `validate_pair`, and
what a deployment leaves in use until the next one. Time passes in periods in which
the timer has run at least once, unless the host was off. `lineage`, `current` and
`owner` are the ages of the newest pair, the published one and the owner files,
`serving` that of the pair each service has loaded, and `backup` the directory that
makes every refresh fail after it has stopped the server (`renew.py:83`).

A deployment is one step with the outcomes that `IpDeploy`, `OwnerInstall` and
`HomeHost` have:

- `Deployed`: the hook reports success. What was active is restarted on the new pair.
  Any service may be one that was sampled as inactive (`ip_deploy.py:134`, for the
  server `owner_ip_refresh.py:44`) and came up before its files changed: it keeps the
  pair it has loaded. The refresh may be one that somebody else had started, which
  installs the pair that was linked before.
- `Refused`: the pair is published and the services run on it, but the refresh meets
  the backup; the server is down and the hook fails.
- `Failed`: anything fails or is killed. The link, the owner files, the backup and each
  service are each in any state that some interleaving leaves.

`RefreshOwner`, `RefreshRefused` and `RefreshFails` are refreshes that the hook did not
start; `Load` and `Stop` are starts and stops by anybody at any time; `Repair` is the
operator's. The host is one with `ownerEnabled`: without it `owner` and the server play
no part.

What nobody reports is history: `overtaken` has the services that the last successful
deployment left on another pair, `raced` says that a start has ever come between a
sample and its files, `quiet` counts the periods since the last disturbance, be it a
failure, such a start or a repair. `faults` counts failures, kills, periods without
power and joined refreshes; starts that are overtaken are not bounded. So the
properties say what the code can promise: after a success a service may present the
replaced pair until that one expires, just when the next renewal is due, and the run of
that renewal mends it.

### ReleaseDelivery

`pack`, `fetch` and `unpack` of `release.py`, any number of runs on shared paths,
each of which may be killed and tried again with other arguments. The content of an
archive is a sequence of members, or `Other`, one cut short; `Artifacts` are those
that `pack` makes. A run of `unpack` stages what it read as `ReleaseFormat` says,
and the release directory holds what was staged. The difference that matters is
kept: a rename replaces a file, and fails on a directory that is not empty. The
archives may exist at the start. A run that has reached `unpacked` has renamed its
directory into place; killed just then, it has not printed that it did. `unpack` reads
the archive twice, for its digest and for its members: `UnpackedAsAsked` says what may
have happened to it in between.

### ReleaseFormat

What is inside: `member_name`, `verify_bundle`, the members `pack` writes and the
loop of `unpack`, as operators. `Staged` is the loop, with the checks in the order of
the code and a staging directory that may end up half filled; `AcceptedFor` is what
`verify_bundle` then makes of it. The reference they are checked against is
`Release`: what `pack` makes of any bundle. A name is the sequence of what is between
its slashes, so that a file and a directory of one name can meet (no directory of a
file system has both, which is why `Release` excludes it); a content is known by its
digest. `unpack` must accept an archive for exactly the release it was made from, in
any order of the members. The two properties about that are stated in
`ReleaseDelivery`, of every archive that a run of `unpack` may have read.

## 3. The runs

| run | instance | what it shows |
|---|---|---|
| `ip_deploy` | 2 hooks, 2 services, 3 names, 2 renewals, 1 fault | `CurrentSurvivesPowerLoss`, `RotationKeepsPrevious`, `ActiveServePublished`, `RollbackIsDurable`, `PublishedPairImmutable`, `ImplementsRegister`, `HookAdvances`, `DeployInv`, `TypeOK` |
| `ip_deploy_live` | 2 hooks, 1 service, 3 names, 1 renewal, 1 fault | `NeverWithdrawn`, `LockGivenBack` |
| `ip_deploy_stopped` | 1 hook, 1 service, no fault | violated: `NoImplicitStart` |
| `owner_install` | 3 pairs, 3 faults | `PriorPairRecoverable`, `SuccessIsDurable`, `ImplementsInstall`, `OwnerInv`, `TypeOK` |
| `owner_install_offline` | 2 pairs, no fault | violated: `ReplacedOffline` |
| `host_guards` | the server and one public service, 2 addresses, 2 faults, all packets | `HaltedStayDown`, `OwnerListenerPrivate`, `SurfaceAsReviewed`, `WatchInv`, `LastingChangeStopsAll`, `TypeOK` |
| `wan_watch_flap` | 1 service, 2 addresses, 1 fault | violated: `MarkedGoDown` |
| `home_host` | 1 public service and the server, 2 versions | `SuccessMeansRunning`, `OwnerFollows`, `FailureHasCause`, `CalmHookSucceeds`, `HomeInv`, `TypeOK` |
| `home_host_unknown` | the same | violated: `UnknownStopsNothing` |
| `renewal` | 1 public service and the server, periods of 20 hours, 4 faults | `ExpiryWasAnnounced`, `OneFailureMended`, `HealedInTime`, `HealsByItself`, `ScheduleInv` |
| `release` | 3 runs, 1 archive path with 4 contents, 2 directories, 1 kill; every archive of up to 4 members, 3 of which fit | `TreeHasOneMaker`, `UnpackedAsAsked`, `DeliveryInv`, `OnlyLateFetchReplaces`, `TypeOK`; `AcceptsWhatPackMakes`, `StagingIsBounded` |
| `release_overwrite` | 2 runs, 1 archive | violated: `NothingOverwritten` |

*Why these bounds.* Two hooks are enough for every pairwise interleaving: they
share nothing but the lock, the directory and the services. Two renewals give an
old pair, a new one and a lineage in the middle of a renewal; a hook can run any
number of times on them, so that a rotation with something to prune is reached.
Three names hold the previous, the current and a new generation; what a failure
has left takes one of them, so that `Enter` also meets the case of no free name.
One fault reaches every failure of the hook; a failure of the recovery from a
failure is covered by the theorems, which bound no faults. Three pairs and
three faults let the owner refresh fail, its retry meet the backup, the repair
run, and the next refresh fail again. Two services let one stop or restart
succeed and the other not. Of the four contents two are releases that `pack` made,
one has the members of both, so that the second ones are refused, and one is cut
short; with three runs a fetch lands between the two reads of a verify while another
verify has the same destination. A second kill adds no new kind of leftover: a killed
run leaves a partial archive or nothing. The
archives of `ReleaseFormat` have up to one member more than fit, of six names and
two sizes, so that the count, the size and a name in conflict are each met, missed
and exceeded by one.

In `host_guards` the two services differ in the tables they require; the relay
and the rendezvous service require the same ones, and the theorems speak of all
three. Port 41641 stands for the inventoried administration port, any port from
1024 on in the theorems. In `home_host` a second public service would repeat the
restart of the first; the hook's steps between two of them are in `ip_deploy`.
Failures, kills, checks and requests are not bounded there, only the versions are.
In `renewal` the 160 hours of an IP certificate are 8 periods, Certbot's half of
them is 4, the 48 hours of `validate_pair` are rounded to 3 and the 14 days of the
DNS policy are 17. Four faults are a renewal missed for as long as Certbot renews
ahead, or a failed deployment that leaves a backup, and three more failures. A second
public service would be in the same states as the first, each on its own; the theorems
have any number. Overtaken starts need no bound, since nothing counts them.

*Fairness.* `IpDeploy`'s `LiveSpec` asks weak fairness of each hook's own steps:
every command a hook waits for goes through `renew.run`, which has a timeout, and
the rest are local system calls. Certbot, operators, units and faults are not
fair. `WanWatch`'s `LiveSpec`, and `HostGuards`' `HostLiveSpec`, ask it of the timer
(`OnUnitActiveSec=180`), of the check (`TimeoutStartSec=30` ends one that hangs)
and of systemd carrying out the stops and starts it has queued; nothing is asked
of a guard. The operator's repair, the services, the router and failures are not
fair. `HomeHost` asks that the hook, the refresh and the check go on, for the same
reasons; not the timer, which no wait depends on, since a start pulls the check
in. `RenewalSchedule` asks that time passes and that the hourly timer runs, and of
nobody that a service is started or a backup repaired. Its failures are bounded;
overtaken starts and repairs are not, so `HealsByItself` has as its premise that from
some moment on there are none.

*Deadlock* is checked except for the release tool, whose runs end.

*Symmetry* is used in the runs without temporal properties over models of
alike hooks, services, names, runs or directories.

*Deviations the runs show.* Each "violated" run checks one sentence of the
documentation against the model:

- `NoImplicitStart` (docstring of `publish`, `ip_deploy.py:53`): the services are
  sampled before the copies and fsyncs, and `systemctl restart` starts a unit an
  operator has stopped in between.
- `ReplacedOffline` (`TLS.md:65`): the refresh stops only a server that it
  sampled as active; one that is started after the sample runs on while its files
  are replaced, and `systemctl start` does not reload it.
- `MarkedGoDown` (`wan_watch.py:3`): stopping is left to the run that saw the
  mismatch. When that run ends between the marker and a stop and the old address
  comes back, no later run stops the service, which runs on under the marker. If
  the address stays changed, `LastingChangeStopsAll` holds all the same.
- `UnknownStopsNothing` (`SELF-HOSTED.md:167`): a restart takes a service down and
  its start waits for the address check; when the router cannot be read the check
  fails and systemd drops the start. The hook rolls back with another restart,
  which goes the same way, ignores that and reports a failure: services that ran
  before the renewal are down, with only an unknown observation around it.
- `NothingOverwritten` (`SECURITY.md:13`): `fetch` looks and then renames, and the
  rename replaces an archive that appeared in between. `OnlyLateFetchReplaces`
  shows that this is the only way a finished archive is replaced.

## 4. The proofs

Every proof is for all values of the constants that meet the module's
assumption (`ConstantsAssumption`, `FiniteAssumption`, `OwnerAssumption`, `WanAssumption`,
`PolicyAssumption`, `GuardAssumption`, `HostAssumption`, `ScheduleAssumption`,
`FormatAssumption`, `DeliveryAssumption`). They say that a few markers are distinct,
that there is a service or an address, that the bounds are numbers, that the ports of
the policy are different ones, that there are finitely many services, generation
names and member names (the last are at most 240 characters long), that contents have
a size, and, for the schedule, that a pair falls due for renewal, and starts to be
refused, within its lifetime.

| module | theorem | of |
|---|---|---|
| `IpDeploy_proofs` | `TypeCorrect`, `DeployInvariant` | `TypeOK`, `DeployInv` |
| | `PowerLossSafe`, `RotationSafe`, `RollbackSafe` | `CurrentSurvivesPowerLoss`, `RotationKeepsPrevious`, `RollbackIsDurable` |
| | `PublishedImmutable`, `StaysPublished` | `PublishedPairImmutable`, `NeverWithdrawn` |
| | `ActiveServe` | `ActiveServePublished` |
| | `HookComesToItsEnd` | `HookAdvances` |
| `PairRegister_proofs` | `RegisterImplemented` | `ImplementsRegister` |
| `OwnerInstall_proofs` | `OwnerTypes`, `OwnerInvariant`, `OwnerRecoverable`, `OwnerSuccessDurable` | `TypeOK`, `OwnerInv`, `PriorPairRecoverable`, `SuccessIsDurable` |
| | `InstallImplemented` | `ImplementsInstall` |
| `HostGuards_proofs` | `WatchTypes`, `WatchInvHolds`, `QuarantineHolds` | `TypeOK`, `WatchInv`, `HaltedStayDown`, of `WanWatch` |
| | `GuardedWatch` | `HostSpec => Spec` of `WanWatch` |
| | `GuardedHaltedStayDown`, `OwnerListenerPrivateHolds`, `SurfaceHolds`, `GuardsHold` | `HaltedStayDown`, `OwnerListenerPrivate`, `SurfaceAsReviewed`, `GuardInv` |
| `HomeHost_proofs` | `HomeTypes`, `HomeInvHolds`, `SuccessIsTrue`, `OwnerFollowsHolds`, `FailureCaused` | `TypeOK`, `HomeInv`, `SuccessMeansRunning`, `OwnerFollows`, `FailureHasCause` |
| `RenewalSchedule_proofs` | `ScheduleInvHolds`, `ExpiryAnnounced`, `OneFailureIsMended`, `HealsInTime` | `ScheduleInv`, `ExpiryWasAnnounced`, `OneFailureMended`, `HealedInTime` |
| `ReleaseDelivery_proofs` | `DeliveryTypes`, `DeliveryInvHolds`, `OneMaker`, `LateFetchOnly`, `AskedFor` | `TypeOK`, `DeliveryInv`, `TreeHasOneMaker`, `OnlyLateFetchReplaces`, `UnpackedAsAsked` |
| | `AcceptsHolds`, `StagingHolds` | `AcceptsWhatPackMakes`, `StagingIsBounded` |
| `ReleaseFormat_proofs` | `AcceptsExactlyPacked`, `StagedWithinBounds` | archives of any length |

*DeployInv.* `CurrentSurvivesPowerLoss` is not inductive: it speaks of a power
loss now, and nothing in it keeps a hook from linking a generation whose files
may still be lost. `DeployInv` adds, for the hook at work, what it has done so
far: the snapshot it validated (`MaterialInv`), that the generation it writes is
named by no possible link until every possible content of it is whole
(`WriteInv`), that the link is where the hook believes it is, in every state a
power loss could leave, before a service is touched (`LinkInv`); and that what is
visible is always among what may survive (`LogInv`). With the lock (in `TypeOK`)
there is only one such hook, so an action of one hook need be compared with no
other. The proof has one lemma per group of actions, and one step per conjunct an
action can disturb. `PublishedImmutable` needs one more lemma, `OneWhole`: when
all possible contents of the linked generation are whole and the visible one is
among them, what a power loss picks is that one. `StaysPublished` needs that a
deployment that succeeded stands in every possible state of the directory while
later hooks work next to it (`Standing`).

*ActiveServe* is about the units. `FreshInv` says, for each step of the
restarts, which services can no longer be up with material from before the link
moved: those the hook sampled and has been through. It rests on two facts, that
only a restart or a start gives a service new material, and that whatever starts
now loads through the link.

*HookAdvances* is the part of `LockGivenBack` that needs no fairness: while a hook has
the lock, none of its steps leads back. `Way` numbers the way through the program,
the rollback after the way out; `Left` counts what is left at a place with a loop (the
services to sample, restart or restore, the generations to prune). Every step of
the hook moves on along the first or lowers the second, and no other step changes
either, so a hold of the lock is a bounded number of steps. What it takes besides
`DeployInv` is that the service a hook checks is one it still has to do (`CheckInv`).

*RegisterImplemented.* The mapping takes a reading of the link to the version it
finds there. Three invariants make every step a step of the register or a
stutter: no file anywhere is newer than the certificate of the lineage
(`IssuedInv`), what the link could lead to after a power loss is always a whole
pair or nothing (from `DeployInv`), and the generations behind those readings do
not change (`LoggedStable`). The mapping itself is a choice from the set of
readings; `Mapped` shows that it picks what is there, so that the step lemmas do
without it.

*OwnerInv* is the order of the refresh as a fact about the disk: the live pair is
whole while it is being kept, the kept one while the live one is being replaced,
and every possible disk holds the new pair from the check on.

*InstallImplemented* needs no more than that invariant: while the first file is
replaced the backup holds exactly the pair that was live, so the recoverable pair
stays (`ReplacedRecovers`), with the second it is the new one, and wherever else the
directory changes the live pair is whole and stays. What a power loss could leave
follows from the same facts, value by value.

*WatchInv* adds to `HaltedStayDown` that stops are queued only when a power loss
can no longer change the marker. `HostGuards` has the actions of `WanWatch` with
stronger guards and further steps that leave the watch alone; `GuardedWatch` is
that step by step, and carries `HaltedStayDown` over. `GuardInv` adds that a
service that may answer has every table it requires, although tables go with a
boot and guards fail; what the tables then let through is a fact about packets
that `OwnerGuardSuffices` and `EndpointsWork` state once.

*HomeInv.* That a success is true needs to be known from the restart of the first
service on: until the hook goes back, what it has restarted runs on the new pair
unless somebody else has taken it down (`HookInv`), though every service may be
taken down and come back at any time, because it then loads the linked pair and
only the hook at work moves the link. `RefreshInv` is the same for the refresh
and for the hook that waits for it. The steps of everybody else share one lemma
(`ElsewhereKeeps`), and so do the steps of the hook that touch no unit
(`HookOnlyKeeps`) and those of the refresh (`RefreshOnlyKeeps`).

*CalmInv* is what makes `FailureHasCause` inductive, the part of `CalmHookSucceeds`
that needs no fairness. As long as nothing has happened around the hook, the unit it
waits for, or the refresh for it, is up or on its way, and one it has waited for is
up; a unit that waits for the check always has one that runs; and a refresh that has
got as far as the start holds its backup. So no wait of the hook ends badly by itself,
and a restart or a refresh that fails has a cause. Everything else the invariant
needs it shares with the safety of the hook (`CoreInv`).

*ScheduleInv* bounds the age of what is in use. A deployment that succeeds leaves
nothing but what it has overtaken on another pair (`SettledInv`), and a run that does
not fail leaves no pair that is due (`RenewedInv`), which together are
`ExpiryWasAnnounced`. Without a fault the owner files are never behind, and a service
whose start was overtaken is one renewal behind at most, because the next deployment
samples it as active; one fault costs a renewal and leaves everything on the newest
pair, or leaves things one renewal behind (`FaultInv`). When pairs are renewed at half
of their life, one renewal behind is not expired before the next run. `BehindInv` is the
clock: what is behind has been disturbed since its successor was issued, so that
`quiet` and the age of the newest pair grow together. `HealedInTime` is the bound that
`HealsByItself` does not give, at most `Lifetime - RenewBefore` periods (80 hours), and
needs no fairness. The server is the exception throughout: a refresh that has failed
leaves its backup, and every later one stops the server and gives up until the repair.

*DeliveryInv* adds to `TreeHasOneMaker` that what is about to be renamed was
verified, and that what a fetch is about to land has the expected digest.
`AskedFor` adds that an archive whose digest was compared is finished and nobody has
it open (`ArchiveStep`), so that only a fetch that lands changes what is read, to what
that fetch was asked for (`AskedInv`).

*AcceptsExactlyPacked* and *StagedWithinBounds* are about the loop of `unpack`, for
archives of any length and order. `LoopInv` is its invariant: while nothing has been
refused, the staging directory holds each member read so far once, under a permitted
name, no file above another, within both budgets; and it only grows, so that a
member refused at its turn would still break the whole. With that, an archive that is
accepted is one `pack` writes, and one that `pack` writes is refused nowhere on the
way: its bytes and files so far are part of a total that fits (`Bytes` counts a
directory as a set, so that sizes are compared by inclusion). The induction over
the members cannot use the library's induction theorems, which take an operator;
`UpwardInduction` derives what is needed from the least element of a set of numbers
(`WFMin` on the interval up to a counterexample). `AcceptsHolds` and `StagingHolds`
carry the result to every archive a run may have read.

Each of these inductive invariants but `GuardInv`, `LoopInv` and the auxiliary ones of
the proof modules is also checked by TLC as an invariant of a run.

*Only model-checked.* `LockGivenBack`, `LastingChangeStopsAll`,
`CalmHookSucceeds` and `HealsByItself` depend on fairness, which is out of the
prover's reach. Of each the part without fairness is proved: `HookAdvances`,
`HaltedStayDown` (what is stopped under the marker stays down), `FailureHasCause` and
`HealedInTime`. What is left to TLC is that what can take a step takes it.

## 5. What is not modelled

- A bound for the generations that failed deployments leave behind: each leaves a
  whole one, and only the next success prunes them.
- The checks on paths, owners, modes and sizes (`regular`, `check_root`,
  `check_host`): in the models a check passes or refuses; what it accepts is not
  decided. The same holds for the chain and the address of a certificate, for the
  HTML of the router, and for the URL and redirect rules of `fetch`, which are
  one test each with no state behind it.
- The lengths of names in an archive. `member_name` allows 240 characters and the
  USTAR header splits a name at 100 and 155; a name that does not fit ends `pack`,
  like any failure while it writes.
- `renew.main`, the hook of the superseded two-host layout. Its owner branch is the
  same `owner_install` under another lock (`aura-tls-renewal.lock`), so the two
  layouts on one host could meet in the owner directory; nothing installs both.
- The rendered texts (`prepare.py`, `self_hosted.py`) beyond the unit lines, ports,
  endpoints and rules named in the map, and the validation of their parameters.
- The reachability probe (a sequential loop, run by hand, that keeps no state), the
  smoke check, the tests.
- More power-loss behaviour than the ordered journal above: a file system that
  reorders changes within one directory.

## 6. The plan

Done: the deploy hook, the owner refresh, the address watch and the release tool
with their inductive invariants; the register of whole pairs and the installation in
one step, with the proofs that the hook and the refresh implement them; the firewall
tables and guards composed with the watch; the hook, the refresh and the check
composed on the services they share; the renewal schedule; the contents of an archive
against a reference definition, proved for archives of any length; the parts of the
liveness properties that need no fairness.

Left, in the order of what it would add:

1. The link between `HomeHost` and its parts: `HookPublish` and `RefreshInstall` are
   one step each, and `RegisterImplemented` and `InstallImplemented` say that a
   publication and an installation are; what is left is to state `HomeHost` over the
   two abstract specifications.
2. `renew.main` as a second entry to the steps of `OwnerInstall` under its own lock,
   should the two layouts ever be installed together.
3. The bounds of the reachability probe: how far a slow client can carry the loop
   over its deadline.
