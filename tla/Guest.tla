------------------------------- MODULE Guest --------------------------------
(***************************************************************************)
(* What up and run do inside the project machine: the wait for its boot    *)
(* and for Docker with the fallback script (internal/machine,              *)
(* internal/baseimage, images/base), the provisioning of the guest account *)
(* (internal/guest with provision.sh and packages.sh), the record of the   *)
(* connection (internal/app) and the execution of a declared command       *)
(* (internal/app/run.go, internal/projectcmd).                             *)
(*                                                                         *)
(* One command runs at a time. The guest goes on by itself: systemd and    *)
(* the fallback script start dockerd, dockerd gets ready or dies, the      *)
(* machine stops and loses its processes but may keep their PID files, and *)
(* the IDs in them are given to other processes.                           *)
(***************************************************************************)
EXTENDS Config

CONSTANTS
    SharedFiles, LocalFiles,  \* contents of the two configuration files
    Key, KeyFiles,            \* public keys; what the .pub files may hold
    Managed,                  \* base images isolated-dev builds itself
    BootTries, ReadinessTries, FallbackTries,
    MaxFaults                 \* bound on the faults of a behaviour

ASSUME GuestAssumption ==
    /\ {BootTries, ReadinessTries, FallbackTries} \subseteq Nat \ {0}
    /\ MaxFaults \in Nat
    /\ Invalid # Missing
    /\ \A file \in SharedFiles : IsShared(file)
    /\ \A file \in LocalFiles : IsLocal(file)

VARIABLES
    machine,  \* the machine: none, stopped, or running with or without systemd
    mount,    \* where the macOS home is found in the guest
    record,   \* the state file: none, new, or with the guest's identity
    guest,    \* what the disk of the machine holds
    docker,   \* dockerd, or, where none runs, what its PID file names
    sshd,     \* the same of sshd, which may also run unnamed by its file
    script,   \* the step of the fallback script
    spoiled,  \* what should never have been touched and was
    cmd,      \* the command that runs
    faults    \* faults so far

vars == <<machine, mount, record, guest, docker, sshd, script, spoiled, cmd,
          faults>>

-----------------------------------------------------------------------------

(* A PID file that names no process of its daemon: absent, left by a       *)
(* daemon that ended, or naming an unrelated process that got its ID.      *)
Stale == {"none", "dead", "recycled"}

(* An sshd that reads the drop-in or does not, by the settings it runs     *)
(* with, and whether its PID file names it.                                *)
Named == {"plain", "managed"}
Unnamed == {"unnamedPlain", "unnamedManaged"}

(* uid: whose the host's UID is in the guest; admin: group docker and      *)
(* sudoers; dropin: the sshd drop-in.                                      *)
Guests == [uid: {"free", "foreign", "ours"},
           admin: BOOLEAN, keys: SUBSET Key, dropin: BOOLEAN,
           packages: [LegalPackages -> {"absent", "half", "installed"}]]

Fresh(uid) == [uid |-> uid, admin |-> FALSE, keys |-> {}, dropin |-> FALSE,
               packages |-> [p \in LegalPackages |-> "absent"]]

ScriptSteps == {"admin", "authorize", "dropin", "sshd"}
Steps == {"create", "boot", "ready", "fallback", "again", "locate", "account",
          "packages", "connect", "exec"} \cup ScriptSteps

Cmd == [pc: Steps \cup {"idle", "ok"}, op: {"none", "up", "run"},
        packages: SUBSET LegalPackages, keys: SUBSET Key,
        tries: Nat]
Idle == [pc |-> "idle", op |-> "none", packages |-> {}, keys |-> {},
         tries |-> 0]

TypeOK ==
    /\ machine \in {"none", "stopped", "plain", "systemd"}
    /\ mount \in {"host", "home", "none"}
    /\ record \in {"none", "new", "connected"}
    /\ guest \in Guests
    /\ docker \in Stale \cup {"starting", "up"}
    /\ sshd \in Stale \cup Named \cup Unnamed
    /\ script \in {"none", "look", "check", "wait", "exec"}
    /\ spoiled \subseteq {"hostKeys", "stranger"}
    /\ cmd \in Cmd
    /\ cmd.pc = "boot" => cmd.tries < BootTries
    /\ cmd.pc = "ready" => cmd.tries < ReadinessTries
    /\ cmd.pc = "again" => cmd.tries < FallbackTries
    /\ faults \in 0 .. MaxFaults

Init ==
    /\ machine = "none"
    /\ mount \in {"host", "home", "none"}
    /\ record = "none"
    /\ guest = Fresh("free")
    /\ docker = "none" /\ sshd = "none" /\ script = "none"
    /\ spoiled = {}
    /\ cmd = Idle
    /\ faults = 0

-----------------------------------------------------------------------------

At(step) == cmd.pc = step
(* A command that is back at "idle" keeps nothing.                         *)
Goto(step) ==
    cmd' = IF step = "idle" THEN Idle
           ELSE [cmd EXCEPT !.pc = step, !.tries = 0]
Running == machine \in {"plain", "systemd"}
Fault == faults < MaxFaults /\ faults' = faults + 1

daemons == <<docker, sshd, script>>

(* A call into the guest finds the machine running, if need be after       *)
(* BootMachine.                                                            *)
InGuest(step) == At(step) /\ Running

(* A process that ends leaves its PID file.                                *)
Ended(daemon) == IF daemon \in Stale THEN daemon ELSE "dead"

-----------------------------------------------------------------------------
(* The commands.                                                           *)

(* The effective configurations of the files, whatever they hold.          *)
Accepted == {Load(shared, local) : shared \in SharedFiles,
                                   local \in LocalFiles} \ {Invalid}

(* The usable entries of all .pub files; private material in one of them   *)
(* is an error, as is an empty result.                                     *)
PublicKeys(files) ==
    IF "private" \in UNION files THEN {} ELSE (UNION files) \cap Key

(* up: nothing is done for a configuration that is not accepted, that      *)
(* names an image of another origin, or without a public key.              *)
BeginUp ==
    /\ At("idle")
    /\ \E cfg \in Accepted, files \in KeyFiles :
         /\ cfg.image \in Managed
         /\ PublicKeys(files) # {}
         /\ cmd' = [Idle EXCEPT !.pc = "create", !.op = "up",
                                !.packages = cfg.packages,
                                !.keys = PublicKeys(files)]
    /\ UNCHANGED <<machine, mount, record, guest, daemons, spoiled, faults>>

(* The record names the guest account and the project's path.              *)
HasIdentity == record = "connected"

(* run: the command is declared, and the guest was provisioned.            *)
BeginRun ==
    /\ At("idle")
    /\ HasIdentity
    /\ \E cfg \in Accepted : \E name \in DOMAIN cfg.commands :
         cmd' = [Idle EXCEPT !.op = "run",
                             !.pc = IF cfg.commands[name].compose
                                    THEN "ready" ELSE "exec"]
    /\ UNCHANGED <<machine, mount, record, guest, daemons, spoiled, faults>>

(* Manager.Up as far as the machine: record first, machine second. The     *)
(* host's UID may be that of an account of the image.                      *)
Create ==
    /\ At("create")
    /\ IF machine # "none" THEN UNCHANGED <<machine, guest>>
       ELSE /\ machine' = "stopped"
            /\ \E uid \in {"free", "foreign"} : guest' = Fresh(uid)
    /\ record' = IF record = "none" THEN "new" ELSE record
    /\ Goto("boot")
    /\ UNCHANGED <<mount, daemons, spoiled, faults>>

(* The machine of a call into the guest is started when it does not run.   *)
(* Its init may bring sshd up, with the drop-in if there is one.           *)
BootMachine ==
    /\ cmd.pc \in {"boot", "ready", "fallback", "again", "locate", "account",
                   "packages", "exec"}
    /\ At("packages") => cmd.packages # {}
    /\ machine = "stopped"
    /\ \/ machine' = "plain" /\ UNCHANGED sshd
       \/ /\ machine' = "systemd"
          /\ sshd' \in {sshd, IF guest.dropin THEN "managed" ELSE "plain"}
    /\ UNCHANGED <<mount, record, guest, docker, script, spoiled, cmd, faults>>

Boot ==
    /\ InGuest("boot")
    /\ Goto("ready")
    /\ UNCHANGED <<machine, mount, record, guest, daemons, spoiled, faults>>

(* The first command in a machine fails and takes its systemd with it,     *)
(* with or without what systemd has started.                               *)
BootFails ==
    /\ InGuest("boot")
    /\ Fault
    /\ machine' = "plain"
    /\ cmd' = IF cmd.tries + 1 < BootTries
              THEN [cmd EXCEPT !.tries = @ + 1] ELSE Idle
    /\ \/ UNCHANGED <<docker, sshd>>
       \/ docker' = Ended(docker) /\ sshd' = Ended(sshd)
    /\ UNCHANGED <<mount, record, guest, script, spoiled>>

-----------------------------------------------------------------------------
(* WaitDocker, of up and of run.                                           *)

Waited == IF cmd.op = "run" THEN "exec" ELSE "locate"

(* `docker info` fails while dockerd is not up, or as any call may.        *)
NoAnswer == \/ docker # "up" /\ UNCHANGED faults
            \/ docker = "up" /\ Fault

(* Mutant of Poll: the attempts are counted from zero and one too many.    *)
PollOnceMore(step, limit, next) ==
    /\ InGuest(step)
    /\ \/ docker = "up" /\ Goto(Waited) /\ UNCHANGED faults
       \/ /\ NoAnswer
          /\ \/ cmd.tries < limit /\ cmd' = [cmd EXCEPT !.tries = @ + 1]
             \/ cmd.tries >= limit /\ Goto(next)
    /\ UNCHANGED <<machine, mount, record, guest, daemons, spoiled>>

(* `docker info` is asked up to limit times.                               *)
Poll(step, limit, next) ==
    /\ InGuest(step)
    /\ \/ docker = "up" /\ Goto(Waited) /\ UNCHANGED faults
       \/ /\ NoAnswer
          /\ \/ cmd.tries + 1 < limit /\ cmd' = [cmd EXCEPT !.tries = @ + 1]
             \/ cmd.tries + 1 >= limit /\ Goto(next)
    /\ UNCHANGED <<machine, mount, record, guest, daemons, spoiled>>

Ready == Poll("ready", ReadinessTries, "fallback")
Again == Poll("again", FallbackTries, "idle")

(* The script is started detached. One that waits changes nothing more; an *)
(* earlier one that is not so far does what the new one would.             *)
Fallback ==
    /\ InGuest("fallback")
    /\ script' = IF script \in {"none", "wait"} THEN "look" ELSE script
    /\ Goto("again")
    /\ UNCHANGED <<machine, mount, record, guest, docker, sshd, spoiled,
                   faults>>

WaitDocker == Ready \/ Fallback \/ Again

-----------------------------------------------------------------------------
(* Provisioner.Provision.                                                  *)

(* The project is probed for at its macOS path and under the guest's home. *)
Found == mount # "none"

(* Mutant of Refused: the guest's home is configured whatever it is.       *)
RefusedNever == FALSE

(* The guest's home is not configured over the developer's.                *)
Refused == mount = "home"

Locate ==
    /\ InGuest("locate")
    /\ IF Found /\ ~Refused THEN Goto("account") ELSE Goto("idle")
    /\ UNCHANGED <<machine, mount, record, guest, daemons, spoiled, faults>>

(* Mutant of Account: a UID that another account has is passed over.       *)
AccountSkipped ==
    /\ InGuest("account")
    /\ guest' = IF guest.uid = "foreign" THEN guest
                ELSE [guest EXCEPT !.uid = "ours"]
    /\ Goto("admin")
    /\ UNCHANGED <<machine, mount, record, daemons, spoiled, faults>>

(* The account is added, or given the host's UID if it has another one;    *)
(* the image's own ubuntu gives way to it, a foreign account does not.     *)
Account ==
    /\ InGuest("account")
    /\ IF guest.uid = "foreign" THEN Goto("idle") /\ UNCHANGED guest
       ELSE guest' = [guest EXCEPT !.uid = "ours"] /\ Goto("admin")
    /\ UNCHANGED <<machine, mount, record, daemons, spoiled, faults>>

Admin ==
    /\ InGuest("admin")
    /\ guest' = [guest EXCEPT !.admin = TRUE]
    /\ Goto("authorize")
    /\ UNCHANGED <<machine, mount, record, daemons, spoiled, faults>>

(* authorized_keys is replaced, on the Mac as well if it is the same file. *)
Authorize ==
    /\ InGuest("authorize")
    /\ guest' = [guest EXCEPT !.keys = cmd.keys]
    /\ spoiled' = IF mount = "home" THEN spoiled \cup {"hostKeys"} ELSE spoiled
    /\ Goto("dropin")
    /\ UNCHANGED <<machine, mount, record, daemons, faults>>

DropIn ==
    /\ InGuest("dropin")
    /\ guest' = [guest EXCEPT !.dropin = TRUE]
    /\ Goto("sshd")
    /\ UNCHANGED <<machine, mount, record, daemons, spoiled, faults>>

(* SIGHUP to the process the PID file names: sshd reads the drop-in, any   *)
(* other process takes it as a request to end.                             *)
Hup == IF sshd = "recycled"
       THEN sshd' = "dead" /\ spoiled' = spoiled \cup {"stranger"}
       ELSE sshd' = "managed" /\ UNCHANGED spoiled

(* An sshd that runs unnamed keeps the port and its settings: a second one *)
(* cannot bind, and start_sshd is content with the first.                  *)
StartSshd == /\ sshd' = IF sshd \in Stale THEN "managed" ELSE sshd
             /\ UNCHANGED spoiled

(* The sshd of the PID file is told to read its drop-in; where the file    *)
(* names none, by /proc, one is started, by systemd or directly.           *)
Sshd ==
    /\ InGuest("sshd")
    /\ IF sshd \in Named THEN Hup ELSE StartSshd
    /\ Goto("packages")
    /\ UNCHANGED <<machine, mount, record, guest, docker, script, faults>>

(* Mutant of MissingPackages: a package the database knows is installed.   *)
MissingUnknown(packages) ==
    {p \in packages : guest.packages[p] = "absent"}

MissingPackages(packages) ==
    {p \in packages : guest.packages[p] # "installed"}

Installed(packages, status) ==
    guest' = [guest EXCEPT !.packages =
                [p \in LegalPackages |->
                   IF p \in packages THEN status ELSE @[p]]]

InstallPackages ==
    /\ At("packages")
    /\ \/ cmd.packages = {} /\ UNCHANGED guest
       \/ /\ cmd.packages # {} /\ Running
          /\ Installed(MissingPackages(cmd.packages), "installed")
    /\ Goto("connect")
    /\ UNCHANGED <<machine, mount, record, daemons, spoiled, faults>>

(* apt-get is interrupted and leaves packages half installed.              *)
InstallInterrupted ==
    /\ InGuest("packages")
    /\ cmd.packages # {}
    /\ Fault
    /\ Installed(MissingPackages(cmd.packages), "half")
    /\ Goto("idle")
    /\ UNCHANGED <<machine, mount, record, daemons, spoiled>>

Provision == \/ Locate \/ Account \/ Admin \/ Authorize \/ DropIn \/ Sshd
             \/ InstallPackages \/ InstallInterrupted

(* The SSH host is written (module Lifecycle) and the connection recorded. *)
Connect ==
    /\ At("connect")
    /\ record' = "connected"
    /\ Goto("ok")
    /\ UNCHANGED <<machine, mount, guest, daemons, spoiled, faults>>

(* The declared command runs as the guest account.                         *)
Exec ==
    /\ InGuest("exec")
    /\ Goto("ok")
    /\ UNCHANGED <<machine, mount, record, guest, daemons, spoiled, faults>>

Finish ==
    /\ At("ok")
    /\ Goto("idle")
    /\ UNCHANGED <<machine, mount, record, guest, daemons, spoiled, faults>>

(* A call fails, before or after it had its effect, or the command is      *)
(* killed; a script in the guest ends with its command.                    *)
Abandon ==
    /\ cmd.pc \in Steps
    /\ Fault
    /\ Goto("idle")
    /\ UNCHANGED <<machine, mount, record, guest, daemons, spoiled>>

Step ==
    \/ Create \/ BootMachine \/ Boot \/ BootFails
    \/ WaitDocker \/ Provision \/ Connect
    \/ Exec \/ Finish \/ Abandon

-----------------------------------------------------------------------------
(* The guest, between and under the commands.                              *)

inner == <<mount, record, guest, spoiled>>

(* dockerd overwrites the PID file of a daemon that ended, and will not    *)
(* start while the file names a process.                                   *)
Dockerd == docker' = IF docker \in {"none", "dead"} THEN "starting" ELSE docker

SystemdStarts ==
    /\ machine = "systemd"
    /\ docker \in {"none", "dead"}
    /\ Dockerd
    /\ UNCHANGED <<machine, inner, sshd, script, cmd, faults>>

Serve ==
    /\ docker = "starting"
    /\ docker' = "up"
    /\ UNCHANGED <<machine, inner, sshd, script, cmd, faults>>

DockerDies ==
    /\ docker \notin Stale
    /\ Fault
    /\ docker' = "dead"
    /\ UNCHANGED <<machine, inner, sshd, script, cmd>>

(* The fallback script, isolated-dev-dockerd.                              *)
ScriptLook ==
    /\ script = "look"
    /\ script' = IF docker = "up" THEN "none" ELSE "check"
    /\ UNCHANGED <<machine, inner, docker, sshd, cmd, faults>>

(* Mutant of ScriptCheck: any PID file passes for a daemon that starts.    *)
ScriptCheckFileOnly ==
    /\ script = "check"
    /\ script' = IF docker = "none" THEN "exec" ELSE "wait"
    /\ UNCHANGED <<machine, inner, docker, sshd, cmd, faults>>

(* A PID file that names no process is removed (the look at the process    *)
(* and the removal are one step here).                                     *)
ScriptCheck ==
    /\ script = "check"
    /\ IF docker \in {"none", "dead"} THEN docker' = "none" /\ script' = "exec"
       ELSE script' = "wait" /\ UNCHANGED docker
    /\ UNCHANGED <<machine, inner, sshd, cmd, faults>>

(* The script ends when dockerd answers, or after thirty looks.            *)
ScriptWait ==
    /\ script = "wait"
    /\ script' = "none"
    /\ UNCHANGED <<machine, inner, docker, sshd, cmd, faults>>

ScriptExec ==
    /\ script = "exec"
    /\ Dockerd
    /\ script' = "none"
    /\ UNCHANGED <<machine, inner, sshd, cmd, faults>>

Script == ScriptLook \/ ScriptCheck \/ ScriptWait \/ ScriptExec

(* An unrelated process gets the ID in a PID file, and ends.               *)
Recycle ==
    /\ Running
    /\ \/ /\ docker = "dead" /\ docker' = "recycled" /\ UNCHANGED sshd
          /\ Fault
       \/ /\ sshd = "dead" /\ sshd' = "recycled" /\ UNCHANGED docker
          /\ Fault
    /\ UNCHANGED <<machine, inner, script, cmd>>

StrangerEnds ==
    /\ \/ docker = "recycled" /\ docker' = "dead" /\ UNCHANGED sshd
       \/ sshd = "recycled" /\ sshd' = "dead" /\ UNCHANGED docker
    /\ UNCHANGED <<machine, inner, script, cmd, faults>>

(* The PID file of an sshd that runs is removed or overwritten.            *)
SshdLosesName ==
    /\ sshd \in Named
    /\ Fault
    /\ sshd' = IF sshd = "plain" THEN "unnamedPlain" ELSE "unnamedManaged"
    /\ UNCHANGED <<machine, inner, docker, script, cmd>>

(* The machine stops, by `stop` or by itself. Its PID files may survive;   *)
(* a script that runs in it fails its command.                             *)
Halt ==
    /\ Running
    /\ Fault
    /\ machine' = "stopped"
    /\ \/ docker' = "none" /\ sshd' = "none"
       \/ docker' = Ended(docker) /\ sshd' = Ended(sshd)
    /\ script' = "none"
    /\ cmd' = IF cmd.pc \in ScriptSteps THEN Idle ELSE cmd
    /\ UNCHANGED inner

(* `destroy` (module Lifecycle).                                           *)
Destroy ==
    /\ At("idle")
    /\ machine # "none"
    /\ Fault
    /\ machine' = "none" /\ record' = "none" /\ guest' = Fresh("free")
    /\ docker' = "none" /\ sshd' = "none" /\ script' = "none"
    /\ UNCHANGED <<mount, spoiled, cmd>>

Environment ==
    \/ SystemdStarts \/ Serve \/ DockerDies \/ Script
    \/ Recycle \/ StrangerEnds \/ SshdLosesName \/ Halt \/ Destroy

Next == BeginUp \/ BeginRun \/ Step \/ Environment

Spec == Init /\ [][Next]_vars

(* A command goes on, so do the script and a dockerd that starts, and the  *)
(* user tries up again for as long as it fails.                            *)
FairSpec ==
    /\ Spec
    /\ WF_vars(Step) /\ WF_vars(Script) /\ WF_vars(Serve)
    /\ SF_vars(BeginUp)

-----------------------------------------------------------------------------

SoundLoads ==
    \A shared \in SharedFiles, local \in LocalFiles :
        LET cfg == Load(shared, local)
        IN  cfg # Invalid => Sound(shared, local, cfg)

(* Whatever the two files hold when a command begins, the configuration it *)
(* accepts is what they say: the local file overrides resources and macOS  *)
(* ports only, its last word on a port counts, and no two forwards of the  *)
(* result claim one macOS port, so that no tunnel is asked for that cannot *)
(* bind (config.go:103-124, 159-236).                                      *)
AcceptedConfigSound == At("idle") => SoundLoads

(* Provisioning has touched nothing that is not its own: not the           *)
(* authorized_keys of the macOS home, wherever that is mounted, nor a      *)
(* process that got the ID in a stale PID file (provision.go:145-163,      *)
(* provision.sh:127-133).                                                  *)
NothingSpoiled == spoiled = {}

(* While the record names the guest account, which status shows and run    *)
(* uses without a look into the machine, the machine has that account with *)
(* its rights, its keys and the sshd drop-in, whatever command failed or   *)
(* was killed since (run.go:65-71, status.go:366-384).                     *)
RecordedAccountExists ==
    record = "connected" =>
        /\ guest.uid = "ours" /\ guest.admin
        /\ guest.keys # {} /\ guest.dropin

(* An up that succeeds has converged the guest, from wherever earlier runs *)
(* of it were interrupted: the account has exactly the keys it read, every *)
(* declared package is installed and not half so, and no sshd that its PID *)
(* file names goes on with the settings from before the drop-in            *)
(* (provision.go:65-117, provision.sh:123-139).                            *)
UpConverges ==
    [][cmd.op = "up" /\ At("connect") /\ cmd'.pc = "ok" =>
         /\ guest.uid = "ours" /\ guest.admin /\ guest.keys = cmd.keys
         /\ \A p \in cmd.packages : guest.packages[p] = "installed"
         /\ guest.dropin /\ sshd # "plain"]_vars

(* No sshd at all does. It fails: up tolerates an sshd that its PID file   *)
(* does not name, and cannot tell it to read the drop-in                   *)
(* (provision.sh:110-121).                                                 *)
UpEndsOldSettings ==
    [][cmd.op = "up" /\ At("connect") /\ cmd'.pc = "ok" =>
         sshd \notin {"plain", "unnamedPlain"}]_vars

Succeeds == cmd.op = "up" /\ At("ok")

(* What no rerun can change: the macOS home is not where the project is    *)
(* looked for, or another guest account has the host's UID.                *)
Hopeless == mount # "host" \/ guest.uid = "foreign"

(* A user who tries up again gets through in the end, whatever failed and  *)
(* whatever state the guest was left in, with systemd or without, unless   *)
(* an unrelated process holds the ID in dockerd's PID file for good        *)
(* (manager.go:136-177, isolated-dev-dockerd).                             *)
RerunBringsUp ==
    \/ []<>Succeeds
    \/ []<>Hopeless
    \/ <>[](docker = "recycled")

(* What docs/stories/epic-01-isolated-dev-mvp.md:117-119 says of the boot: *)
(* "readiness is retried and Docker becomes available even if systemd is   *)
(* unavailable".                                                           *)
DockerBecomesAvailable ==
    (cmd.op = "up" /\ At("ready") /\ machine = "plain")
        ~> (docker = "up" \/ ~Running)
=============================================================================
