# Verification of isolated-dev

`isolated-dev` is a macOS command-line program. For each project it keeps one
persistent Linux machine (Apple's `container machine`), an SSH host alias that
leads to it, and a background SSH tunnel from macOS ports to the services in it.
The program has no daemon. Each command is a process of its own, reads the state
earlier commands left on disk, changes the world by running other programs, and
exits. What is hard about it follows from that:

- everything that must survive a command is in a few files that several
  commands, `ssh` and the developer rewrite;
- each external call may fail, with or without having taken effect, and a
  command may be killed between any two;
- the next command has only those files and the observable world to go by.

The modules here model those parts, TLC checks them on small instances, and
TLAPS proves the most important results for every value of the constants.

    tlc -config SshConfig.cfg SshConfig.tla          # one check
    tlapm SshConfigProofs.tla                        # the proofs of a module

## 1. Inventory

| component | state it keeps | operations | interacts with |
|---|---|---|---|
| `sshconfig` | managed `config` and `known_hosts`, one `Include` line in `~/.ssh/config`, an advisory lock | `Apply`, `Remove`, `ForgetHostKey` | called by `app`; `ssh` reads all three files and appends to `known_hosts`; the developer edits one |
| `tunnel` | one record per machine; a detached `ssh -N` process | `Reconcile`, `Remove`, `Inspect` | called by `app`, `forge`; process table, loopback ports |
| `machine` | none of its own; the machine under a derived name | `Up`, `Stop`, `Destroy`, `Address` | `container`, `state`, `baseimage` |
| `state` | one JSON file per machine: pinned configuration, SSH address | `Save`, `Load`, `Delete`, `Path` | called by `machine`, `app` |
| `app` | none | `up`, `open`, `stop`, `destroy`, `upgrade`, `status`, `run` | composes all of the above |
| `baseimage` | image tags on the host | `EnsureReference`, `WaitDocker`, `DeleteReference` | `container`; dockerd, systemd and a fallback script in the guest |
| `guest` | in the guest: an account with its rights and keys, an sshd drop-in, packages | `Provision` | two scripts in the machine; the macOS home mounted there; `~/.ssh/*.pub` |
| `config` | none; reads the shared and the local project file | `Load`, `Validate` | called first by every command |
| `projectcmd`, `app run` | none | `run` | the record of the connection, `WaitDocker`, one call into the guest |
| `smoke` | a fixture directory, and an image and a machine of its own | `Run` | `machine`, `baseimage`, guest commands |
| `forge` | two marker files for a moment, and nothing else | `Acceptance.Run`, `Persistence.Validate` | `app` (stop, up), `tunnel`, guest commands |
| `project`, `host`, `zed`, `status`, `upgrade`, `cli` | none | reading, rendering, one external call | `app` |

Commands of one project are not serialised by anything: only the SSH
configuration, which all projects share, has a lock.

What makes each component correct:

- **sshconfig.** No call loses another project's host block; the developer's
  file gets one `Include` and keeps its lines; `Remove` leaves neither block nor
  key, also as the second attempt of one that failed; no dead holder of the lock
  blocks the others. In one sentence: each call is a sequence of atomic effects.
- **tunnel.** A live tunnel can always be found again through its record; a
  machine has at most one; no process but a tunnel of the machine is ever
  signalled; `Reconcile` ends with what was asked for and leaves alone what is
  already that; every call returns.
- **machine, state.** A machine never loses its record (without it no command
  will touch it again) and the record says truly what it was created from.
- **app.** `up` leaves SSH host, record and tunnel at one address; a new machine
  inherits no trust from the one it replaces; `destroy` leaves nothing; an
  upgrade deletes nothing before it can be recreated; rerunning is the remedy
  for every failure.
- **guest, baseimage.** `Provision` may stop anywhere and is simply run again:
  from any half-done state the next `up` that succeeds has converged the guest,
  and a user who tries again gets through in the end. What was recorded of the
  guest stays true. Nothing that is not its own is touched: not the macOS home,
  not a process that happens to have the ID in a PID file.
- **config.** A configuration that is accepted is what the two files say, and no
  two of its forwards claim one macOS port.
- **smoke.** Whatever fails, the run cleans up after itself, reports what it
  could not remove, and spares a machine of its name that it does not own. (An
  image or a directory of the run's names counts as its own and is deleted, also
  if it was there before.)
- **forge.** The run touches none of the developer's files, leaves none of its
  own that it can remove, and vouches only for what it saw.

The 40 places where this goes wrong without a test noticing are the `hazards` of
`PROJECT.json`, each with the properties that watch it, or with the reason why
none does.

## 2. The modules

| module | models | checked with | proved in |
|---|---|---|---|
| `SshConfig` | `internal/sshconfig` | itself | `SshConfigProofs` |
| `AtomicSshConfig` | what it promises: atomic effects | as a property of `SshConfig` | `SshConfigProofs` |
| `Tunnel` | `internal/tunnel` | `MCTunnel` | `TunnelProofs` |
| `AtomicTunnel` | what it promises: one recorded tunnel per machine | as a property of `Tunnel` | `TunnelProofs` |
| `Lifecycle` | `internal/app` over `internal/machine`, `internal/state` | itself | `LifecycleProofs` |
| `Guest` | `internal/guest`, `WaitDocker` of `internal/baseimage`, the boot of `internal/machine`, `run`, the scripts that run in the guest | `MCGuest` | `GuestProofs` |
| `Config` | `internal/config` (operators, no state) | `MCGuest`, through `Guest` | `ConfigProofs` |
| `Smoke` | `internal/smoke` | itself | `SmokeProofs` |
| `Forge` | `internal/forge` | itself | `ForgeProofs` |

`Lifecycle` composes the others at a coarser grain: a call of the SSH
configuration or of the tunnel manager is one or two steps of it. What makes
that sound for the SSH configuration is `AtomicSpec`: under its lock each call
*is* a sequence of atomic effects, and `Lifecycle` takes these very effects
(`Apply`; `HostRemove`, `KeyRemove`; `ForgetHostKey`) as steps. For the tunnel it
is the `AtomicSpec` of `Tunnel`: a call forgets a tunnel only when it is dead,
opens one only where none is recorded, and returns nil only with what its request
asks for, and these are the tunnel steps of `Lifecycle` (`TunnelDrop`,
`TunnelReconcile`, `TunnelRemove`). That holds while commands of one project
follow one another and `ps` can be run. The wait for Docker and the provisioning
are one step there (`Provision`) and a dozen in `Guest`; what joins the two is
`UpConverges`. This last link is an argument in prose, not a checked refinement,
and so is the match of `Lifecycle`'s own steps with those of the two abstract
modules.

Definitions named "Mutant of X" are X with a plausible bug. No specification
uses them; they are there to show that each property can fail.

### SshConfig

A process is at one of the steps of `pc`: it waits for the lock, reads or
writes one file, or returns. `writeAtomic` writes a temporary file and renames
it, so one file is replaced in one step; the read before it is a step of its
own, and what was read is kept in `seenHosts`, `seenKnown`, `seenUser` until the
write. A host block is its address, a key its alias, and the developer's file is
a sequence of lines, because "at most one" and "keeps its lines" are about the
sequence. `Return` and `Abandon` cover success, an error at any step and a
killed process: all of them close the lock's descriptor.

`ssh` (which records a key on first contact) and the developer (who edits
`~/.ssh/config`) write two of the files without the lock. The constant `Races`
says whether they may do so *between* a process's read and its write of the same
file. With `Races = TRUE` their write can be lost, which no program that
replaces a file can prevent; the runs and `ImplementsAtomic` take
`Races = FALSE`, the invariants are proved for either.

### Tunnel

The model contains the operating system: a process table `os` in which a process
ID is used again and again, and the loopback ports, which other programs take
and give up (`Listen`). A command runs `Reconcile` or `Remove` step by step
(`cmd[p].pc`): load the record, look at `ps`, signal, wait, look again, probe
each port, start `ssh -N`, save the record. `Faults` names what may go wrong in
an instance (`FaultKinds` lists them), so that each run says under which faults
its properties hold. A process is `told` when an error has reported it to the
user as having survived; such a process is out of the program's hands.

The names and guest ports of forwards are left out (a forward is its macOS
port). A program that takes a port after it was probed is not: `ssh` then exits
(`ExitOnForwardFailure`), which is `Exit`.

`Spec` lets any commands run at once. `ApartSpec` is the part of it in which
commands of one project follow one another, as a user who waits for a command
has them, while commands of different projects still run together over the same
process IDs and ports.

`AtomicTunnel` keeps of all this a record per machine, with a flag that tells
whether its tunnel lives, and a call that is idle, running, ok or error.
`TunnelOf` and `CallOf` are the refinement mapping: a recorded tunnel lives when
a tunnel process of that machine has its ID. A process that nobody recorded is
invisible there; that none is left behind is `LiveTunnelsRecorded`.

### Lifecycle

One machine, its record, the configuration of the project, the images present,
the SSH host and key, the tunnel, and the commands being run. Of the pinned
configuration the base image is modelled, which is what `upgrade` compares. The
other fields `validatePinnedConfiguration` compares (project path, machine name,
mount scope, CPUs, memory) are left out: when one of them changes alone, `up`
refuses as for an image, and `upgrade` says there is nothing to upgrade. The
ports are not pinned: `Prepare` reads any set of them. Of a key and of a tunnel
matters whether they belong to the machine that is there (`current`) or to one
it replaced (`stale`), and of a tunnel besides its address, the ports it
forwards and those it could not have (`blocked`). A reconcile that succeeds
keeps a live tunnel that is already right (`Kept`), leaves none where no port is
declared, and otherwise records one that forwards what was free; it does not
live where nothing was, and one that was started may have ended.
Every call is one step and may fail without effect (`Fail`), take effect and be
reported as failed (`Done`), or be the last before the command is killed
(`Crash`). Around the commands the developer edits the configuration, the
machine stops, is started by another use of `container` (perhaps at another
address) or is deleted by hand, `ssh` records keys, and the tunnel dies.
`MaxFaults` bounds faults, deletions by hand and foreign starts together.

### Guest and Config

`Guest` is the inside of an `up` or a `run`, one command at a time: `cmd.pc`
goes from the boot (`Manager.Up`'s retried first command) over the polls for
Docker, the start of the fallback script and the second polls (`WaitDocker`),
the commands of `provision.sh` (`account`, `admin`, `authorize`, `dropin`,
`sshd`) and `packages.sh` to the record of the connection. Any step may be the
last (`Abandon`: a call fails before or after its effect, or the command is
killed), and the next command starts with what is there.

The guest goes on by itself meanwhile. `docker` and `sshd` hold the state of the
daemon or, where none runs, what its PID file names: nothing, a process that is
gone, or one that got its ID (`recycled`). That distinction is the point of both
scripts, and they draw it differently: `provision.sh` asks `/proc` whether the
process is an sshd, `isolated-dev-dockerd` asks `kill -0` whether there is any
process. An sshd may also run without being named by its PID file (`Unnamed`,
once `SshdLosesName`): `provision.sh` then fails to start a second one, finds
that one runs, and goes on. The fallback script runs detached, step by step, beside the polls of
the command that started it and beside a systemd that may start dockerd too.
The macOS home is found at its own path, as the home of the guest, or nowhere
(`mount`, chosen once); a UID may already be that of a foreign account of the
image.

`Config` has no state: `Decode`, `MergeLocal`, `Validate` and `Load` are the
functions of the package, over files that are records of the fields they give.
A list of ports is a sequence, as the code keeps an index by name into it and
lets the last entry win. `Guest` draws the configuration of each command from
all pairs of files of the instance, and `Sound` is the reference definition
`Load` is compared with.

### Smoke and Forge

Both are long sequential runs in which any call may fail and the caller may give
up (`Cancel`) at any moment. Their state is what the run leaves in the world.
`Smoke` starts from every combination of things already there under the names
the run is going to use (`before`). In `Smoke` a teardown call that fails may
have removed part of what it should, and may have used up the time of all calls
after it (`late`). In `Forge` the mount may or may not be shared between macOS
and Linux, ports may be taken by others, volumes lost or made anew by any
lifecycle or Compose call, each removal of the edit may fail (`stuck`), and the
developer may create files of the names the run uses at any moment; a file of
the copy's name that appears during the edit (`Edit`) is told apart as `late`. Waits count their attempts.

## 3. The runs

| run | shows | states |
|---|---|---|
| `SshConfig` | two processes, two aliases, developer and `ssh` writing: `TypeOK`, `OneInclude`, `OnlyOwnBlockChanges`, `RemoveLeavesNothing`, `DeveloperLinesKept`, `AtomicSpec` (refinement), `CallsReturn` (liveness) | 160 182 |
| `Tunnel` | one command at a time for two machines that share a port; failing disk operations and starts, stubborn processes, reused IDs: `TypeOK`, `LiveTunnelsRecorded`, `OneTunnelPerMachine`, `RemoveEndsTunnel`, `ReconcileConverges`, `OnlyTunnelsSignalled`, `MatchingTunnelKept`, `AtomicSpec` (refinement) | 595 376 |
| `TunnelFaults` | all faults but `race`: `OnlyMarkedSignalled`, `CallsReturn` (liveness) | 367 506 |
| `TunnelCrash` | finding: `LiveTunnelsRecorded` fails when a command is killed | – |
| `TunnelConcurrent` | finding: `OneTunnelPerMachine` fails for two commands of one project at once | – |
| `Lifecycle` | all commands, two faults: `TypeOK`, `NoOrphanMachine`, `PinnedImage`, `UpAgrees`, `CreatorDropsOldTrust`, `DestroyCleans`, `UpgradeKeepsAWayBack`, `RerunSucceeds` (liveness) | 766 032 |
| `LifecycleTrust` | finding: `UpLeavesNoStaleKey` fails after an interrupted `up` | – |
| `Smoke` | every failure and cancellation: `LeaksReported`, `CleansUp`, `ForeignMachineKept`, `RunReturns` (liveness) | 2 528 |
| `Forge` | every failure, cancellation and outside writer: `RepositoryLeftClean`, `VolumesVouched`, `DeveloperFilesKept`, `ClosedPortsWereFree`, `RunEnds` (liveness) | 81 668 |
| `ForgeDiagnose` | finding: `DiagnoseOnlyReads` fails | – |
| `Guest` | `up` and `run` over all configurations of `MCGuest`, three faults: `TypeOK`, `AcceptedConfigSound`, `NothingSpoiled`, `RecordedAccountExists`, `UpConverges`, `RerunBringsUp` (liveness) | 484 306 |
| `GuestStalePid` | finding: `DockerBecomesAvailable` fails when the ID in dockerd's PID file is reused | – |

Seven configurations are further instances, to be run by hand:

- `TunnelApart.cfg` (module `MCTunnel`): two commands at once for different
  machines that want the same port, with the faults of the run `Tunnel`;
  `LiveTunnelsRecorded` and `OneTunnelPerMachine` hold (489 852 states).
- `TunnelKilled.cfg` (module `MCTunnel`): two such commands, killed anywhere, with
  reused IDs and process handles that cannot be released; `MatchingTunnelKept`,
  `OnlyTunnelsSignalled` and `AtomicSpec` hold (192 726 states).
- `TunnelPs.cfg` (module `MCTunnel`): `OneTunnelPerMachine` fails when `ps` cannot
  be run, although the package comment says "at most one tunnel process".
  `isMarkedProcess` answers no when `ps` fails (`process.go:117-119`), so that a
  live tunnel passes for gone: its record is deleted without a signal, and the
  next `Reconcile` starts a second one.
- `LifecycleTwoUps.cfg` (module `Lifecycle`): two processes run `up` and `stop` on
  one project; `NoOrphanMachine` holds (1 007 981 states).
- `ForgeLateFile.cfg` (module `Forge`): `LateFilesKept` fails. The marker files
  "are refused rather than overwritten if the names are taken"
  (`persistence.go:500-502`), but the copy's name is looked at once: a file that
  appears afterwards is overwritten by `cp`, or removed from the guest or by
  `os.Remove` (`persistence.go:528`).
- `GuestUnnamedSshd.cfg` (module `MCGuest`): `UpEndsOldSettings` fails. An sshd
  that its PID file does not name keeps the settings from before the drop-in
  while `up` succeeds, although the drop-in "disables password authentication
  and direct root login" (`README.md:269-270`).
- `SmokeHost.cfg` (module `Smoke`): `LeavesHostAsFound` fails. If writing the
  fixture fails halfway, the run returns without teardown, although a comment
  says "cleanup runs on every path".

**Bounds, and why they are enough.**
Two processes are the fewest that can lose each other's update, and the lock
makes a third one wait like the second; the safety part holds for any number by
proof. Two aliases are needed to tell "own block" from "another's", two
addresses for a machine that moves.
For the tunnel two process IDs allow a tunnel and its successor, and each to be
reused by another program; two machines allow an ID to pass from one machine's
tunnel to the other's; two ports allow a tunnel that gets only part of what it
asked for. `MCTunnel` lists the requests: a machine that is asked for at another
address, with fewer ports, with none, and removed, and a second one that wants
a port of the first. `TunnelFaults` has one port, as its two properties do not
speak of ports. One command at a time is what TLC can do with both ports; two at
once are checked with one port that both machines want (`TunnelApart`,
`TunnelKilled`), and any number by proof.
In `Lifecycle` two images make an upgrade, two addresses a move, and one port a
tunnel that is declared or not, and free or taken. Two faults
allow one that leaves a half-done state and one that hits the recovery from it:
the interrupted `up`, then the interrupted `destroy`.
In `Guest` three faults are what the deepest story needs: dockerd (or sshd) ends
or the machine stops, or sshd's PID file is lost, the ID in its PID file is given away, and a call of the
command that meets this fails. Two attempts of each kind are a first and a last;
`MaxPort = 3` leaves a free port, and port 4 is out of range. The files of
`MCGuest` are one of each kind that the code treats differently: a forward
overridden twice in either order, an override that repairs or causes a collision,
one of an unknown name, each way a command or a port is malformed.
`ProbeTries = 3` and `Tries = 2` give a first, a last and (for the probe) a
middle attempt; the safety of `Smoke` holds for any number by proof. Two
endpoints make an order of settling ports, one entry makes a volume that has or
has lost its data.
The run `Tunnel` and these two use symmetry of the processes and of the process
IDs: no definition tells one from another, and they check no liveness property.
No other configuration uses any. The deadlock check is off only for `Smoke` and
`Forge`, runs that end.

**Fairness.** A process runs until its call returns, hence weak fairness on the
steps of a call: Go schedules it, and each external call is assumed to return
(the program sets timeouts on the ones that wait). A process that waits in
`flock` needs strong fairness, since the lock is taken and released again and
again; the kernel keeps waiters in a queue. `RerunSucceeds` has a user who tries
`up` and `destroy` again and again (strong fairness on `Begin`, which other
commands may disable meanwhile); it speaks of behaviours in which the
configuration in the end stays the recorded one, because `up` refuses any other
until an upgrade. Faults are bounded in that run, so it says: once calls stop
failing, rerunning works. In `Guest` the steps of a command, the script and a
dockerd that starts are weakly fair, and the user runs `up` again and again with
an accepted configuration (strong fairness on `BeginUp`). systemd is not relied
on: nothing says it starts dockerd. `RerunBringsUp` exempts what no rerun
changes (the project is not mounted where it is looked for, a foreign account
has the UID) and an unrelated process that keeps the ID in dockerd's PID file
for ever, which is the finding of `GuestStalePid`. No process of the operating
system is assumed to end, no port to become free, and nobody is assumed to
cancel.

**The five findings.** In each the code departs from what its own comments or
README say; the source lines are in `PROJECT.json`.

1. `TunnelCrash`: `ssh` is started, then its record saved. A command killed
   between the two leaves a tunnel that no later command finds and that keeps
   its ports.
2. `TunnelConcurrent`: two `up` runs of one project at once each find no record
   and each start a tunnel. One is then without a record.
3. `LifecycleTrust`: only the run that created the machine forgets the old host
   key. If it fails first, the rerun finds the machine in place and keeps the
   key of its predecessor; `ssh` will refuse the new machine.
4. `ForgeDiagnose`: the diagnosis of a failed run uses `container machine run`,
   which starts a stopped machine, although "every command it runs reads".
5. `GuestStalePid`: the fallback script takes any live process with the ID in
   `/var/run/docker.pid` for a daemon that is starting, waits thirty seconds and
   gives up; so does every rerun while that process lives. A story of `docs/`
   promises that Docker becomes available even without systemd, and for sshd the
   repository guards against this very case (`provision.sh:127-133`).

One more divergence is of a document only: `REQUIREMENTS.md:73-74` has the shared
and the local file validated independently, while `config.go:119` validates the
merged result alone. A local file can so repair a shared one that is not valid
by itself; `Config` follows the code.

## 4. The proofs

`SshConfigProofs` (any processes, aliases, addresses and developer lines; from
`ConstantAssumption`, which only says that the "nobody" and "nothing" values and
the `Include` line are distinct from the others):

- `TypeCorrect`: `Spec => []TypeOK`.
- `Invariant`: `Spec => []IInv`. `OneInclude` is not inductive: a process that
  is about to add the directive must still be right that it is missing. So
  `IInv` adds that whoever is past `flock` is the holder (`LockHeld`), that the
  blocks it read are still those of the file (`FreshBlocks`), and that a process
  about to write the directive is right (`IncludeMissing`; the developer never
  writes that line). The argument is mutual exclusion: two processes past `flock`
  would both be the one holder.
- `IncludedOnce` (`[]OneInclude`) and `NoLostBlock` (`OnlyOwnBlockChanges`)
  follow, with `Races` or without.
- `ImplementsAtomic`: with `Races = FALSE`, `Spec => AtomicSpec`. What a process
  has still to do follows from where it is (`Todo`), reads map to stuttering and
  writes to effects. It needs in addition that the other two copies are fresh
  and that a call is only where its kind takes it (`FreshInvariant`).
- `KeepsDeveloperLines` (`DeveloperLinesKept`, with `Races = FALSE`): what a
  process read of the developer's file is still there when it writes.
- `RemoveIsThorough` (`RemoveLeavesNothing`, with `Races = FALSE`): under the
  lock, what a step has removed stays removed until the call returns
  (`Removed`), since `ssh` records keys of known hosts only.

`SmokeProofs` (any number of attempts; from `ProbeTries \in Nat \ {0}`):

- `Invariant`: `Spec => []IInv`, where `IInv` is `TypeOK` with two parts.
  `Known`: teardown can find what there is to remove, because the record leads
  to the run's machine, `composeUp` to its containers, `imageBuilt` to its
  image; this is what every step of `perform` must preserve, and why `compose up`
  is noted before it is tried. `Accounted`: what is still there although its
  step of teardown is behind was reported, by a call that failed by itself.
- `EveryLeakReported`, `RunCleansUp`, `SparesForeignMachine`, `TypeCorrect`
  follow. The properties themselves are not inductive: they speak of the end of
  a run only.

`TunnelProofs` (any machines, process IDs, ports, requests and number of
commands) has three layers, each with the weakest assumptions it holds under:

- With any commands at once and any faults: `TypeCorrect`. If no ID is reused
  between the look and the signal (`NoRace`), also `SignalsOnlyMarked`
  (`OnlyMarkedSignalled`), and if besides no session of the user's names the
  machine, `SignalsOnlyTunnels` (`OnlyTunnelsSignalled`). The strengthening is
  `Aims`: a process about to be signalled still is what `ps` showed, or gone.
- *The records*, for `ApartSpec` (commands of one project one after the other),
  with kills anywhere and every fault that does not blind `ps` (`Visible`: neither
  "ps" nor "session"). `RecordsInvariant` relates the step of a command to the
  world: what it loaded is still the record (`Loaded`); why it stops a process is
  still true (`Reasons`); while it makes a tunnel there is no record (`Making`);
  a record tells the truth of its tunnel (`Truthful`); no session carries a
  machine's name (`NoSession`). The difficulty is the process ID: a record names
  one that may since be dead, another program's, or another machine's tunnel, and
  `Truthful` may only speak of the case that it is a tunnel of the same machine.
  `KeepsMatchingTunnel` (`MatchingTunnelKept`, with `NoRace`) follows, and so does
  `ImplementsAtomic`: `Tunnel` implements `AtomicTunnel`. Each step maps to a step
  of `AtomicTunnel` or to stuttering. What makes it go through is that `Save`
  writes a record only where none is, that `Delete` finds its process dead, and
  that an early return of `Reconcile` found the process alive.
- *The processes*, for `ApartSpec` and `Benign`: in addition no command is killed
  and the handle of a started process can be released. Then every live tunnel
  nobody was told of is recorded or in hand (`Found`). `Invariant` is all of
  this; from it follow `NoTunnelLost`, `OneTunnel`, `RemoveLeavesNone` and
  `ReconcileReaches`. The findings `TunnelConcurrent` and `TunnelCrash` and
  the instance `TunnelPs` show three of these assumptions to be needed.

`LifecycleProofs` (any images, addresses and number of faults):

- `TypeInvariant`, `TypeCorrect` and `UpgradeKeepsTheWayBack` hold for any number
  of commands at once.
- For one at a time, the invariant says of the command that what it read of the
  record and of the machine list still holds where it acts on it (`Own`): it
  creates only where no machine is, and deletes the record only when the machine
  is gone. `NoOrphanMachine` and `PinnedImage` are parts of it; `UpAgrees`,
  `CreatorDropsOldTrust` and `DestroyCleans` follow. For `UpAgrees` each outcome
  of a reconcile is looked at (`ReplacedEffect`): nothing is declared, nothing
  is free, or a tunnel is recorded at the command's address. With two commands TLC
  refutes `NoOrphanMachine` for `destroy` beside `up`.

`GuestProofs` (any files, keys, numbers of attempts and faults; from
`GuestAssumption`): `Invariant` says that at each step of `up` the parts of the
provisioning that are behind it hold in the guest, whatever went wrong in this or
an earlier run (of sshd: none that its PID file names has the old settings),
that only a guest whose home is not the Mac's is configured, and
that what is recorded stays true. `TypeCorrect`, `SparesOthers`
(`NothingSpoiled`), `RecordIsTrue` (`RecordedAccountExists`) and
`UpLeavesConverged` (`UpConverges`) follow. `AcceptedIsSound`
(`AcceptedConfigSound`) says that the configuration a command works with is what
the two files say; it comes from `ConfigProofs`.

`ConfigProofs` (files with any forwards, any overrides and any other fields):
`LoadIsSound`, that whatever `Load` accepts is `Sound`. The merge is a loop, in
the model a recursive function of how many overrides are behind (`Overridden`).
What it has made of a forward after so many of them is shown by induction over
a set of numbers (`SetInduction`, from the well-foundedness of `<`), which needs
no theorem with an operator parameter. The one subtle point is that the last of
two overrides of one name wins.

`ForgeProofs` (any endpoints, entries and attempts): the invariant is `TypeOK`
with `OwnFiles` (a file of the run exists only while the edit of its name is
under way, or because every removal that could reach it failed; no file that the
developer had before the edit has the copy's name during it), `Captured` (what was captured is the volume the run found) and
`Stopped` (nothing starts the machine between its stop and the last closed
port). All safety properties of the run `Forge` follow.

Each strengthening was first checked by TLC as an invariant of an instance of
its module. Every invariant and every action property that a passing run checks, and
both refinements, are so proved, under the assumptions named above. Only
model-checked are the liveness properties (`CallsReturn` of two modules,
`RerunSucceeds`, `RunReturns`, `RunEnds`, `RerunBringsUp`), which are beyond the
prover, as is any statement with `ENABLED`. The type invariants of `Smoke` and
`Forge` are only proved, as no run needs to check them any more. No module
declares a RECURSIVE operator.

## 5. Assumptions

- A rename replaces a file at once, and `flock` is given up when its holder
  dies. What a power failure does to unwritten data is not modelled.
- An external call returns.
- `ps` names a process truly and completely when it can be run at all. When it
  cannot, the program takes the process for gone; only `TunnelFaults` and `TunnelPs` have
  that fault, for under it `OneTunnelPerMachine` and
  `RemoveEndsTunnel` fail.
- A process ID is not reused between the look at `ps` and the signal that
  follows it (the fault `race`, which no run has).
- A build that fails or is cancelled tags no image (`Smoke`; nothing in `Lifecycle` depends on it).
  `EnsureReference` only passes on what `container build` reports
  (`manager.go:78-90`), so one that tagged the image and then failed would be
  left behind: `LeaksReported` and `CleansUp` say nothing of it.
- `ssh` and the developer do not write inside a read and write of `SshConfig`
  with `Races = FALSE`. The code has no means to close that window.
- In `Forge` the developer leaves the run's own files alone. A file of the copy's
  name that the developer creates between the look at that name and the last
  removal may be lost: `DeveloperFilesKept` exempts it, `ForgeLateFile.cfg`
  shows it.
- A process that may not be signalled is not told apart from one that outlives
  its signals (`Tunnel`): the call ends with an error either way
  (`process.go:71-72`, `86-91`).
- An sshd that its PID file does not name may go on with old settings:
  `UpConverges` exempts it, `GuestUnnamedSshd.cfg` shows it.
- A Compose or lifecycle call may do anything to the volumes (`Forge`), and a
  command run in a stopped machine starts it (`container machine run`), as
  `Manager.Up` relies on.
- In `Guest`: a script in the guest ends with its command when that is killed; the
  first command of a boot that fails may take what systemd started with it; the
  macOS home is mounted in one of two places or in none; a second fallback script
  started while one is at work and does not wait would do what that one does; the
  look at a PID file's process and the removal of the file are one step;
  `usermod` gives the files of a home to the new UID by itself. A machine
  deleted by hand is a matter of `Lifecycle` only.

## 6. Not modelled

- **Rendering and parsing**: SSH quoting and symbolic links, the syntax of TOML
  and JSON, status and upgrade text, the classification of architecture errors,
  the choice of one address among several.
- **Reads and single calls**: `status`, `open` beyond `up`, host preflight, path
  resolution, the editor's launch; none changes modelled state.
- **Fields and names**: the fields of the configuration that are checked one by
  one and copied (version, memory, mount target, secrets), the derivation of the
  guest's user name, the exit status of a declared command.
- **The image itself**: the Dockerfile and the release script. `EnsureReference`
  is one step that may fail.
- **Concurrent `destroy`**: with `destroy` beside `up` the machine can lose its
  record; the repository makes no claim about that. `Guest` has one command at a
  time.

## 7. Plan

Done, in this order: `SshConfig` with its abstract specification and proofs (the
only state all projects share), `Tunnel` (the only long-lived process),
`Lifecycle` (the order of everything), `Smoke` with proofs, `Forge`; then `Config`
and `Guest`, and the proofs of `Guest`, `Lifecycle`, `Tunnel` and `Forge`; then
the abstract `Tunnel` with its refinement, the proofs for commands of several
projects at once and for killed ones, and the proof of `Config`'s merge.

Left:

1. `Lifecycle` over the two abstract modules themselves (`INSTANCE` instead of
   steps of the same shape), and its `Provision` against `Guest`.
2. Pure operators, against reference definitions over bounded inputs: the choice
   of the address (`Manager.Address`), the derived names, the options of the
   command line.
3. What `status` reports while a command is under way.
