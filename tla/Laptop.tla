------------------------------- MODULE Laptop -------------------------------
(***************************************************************************)
(* The processes on the drafting laptop and what they share: the command   *)
(* line (src/companion/src/draft_companion/cli.py), the status window      *)
(* (ui.py), the user service (src/packaging/debian), the companions that   *)
(* they start, up to their main loop (runtime.py), the pid file, the       *)
(* keyring and the configuration.                                          *)
(*                                                                         *)
(* What a companion does in its main loop is module Companion.  Here it is *)
(* live or reconnecting, until it completes, is stopped or dies.  Process  *)
(* numbers are reused: a new process takes the first that no living one has,*)
(* except that only Recycle gives away the number in the pid file.         *)
(***************************************************************************)
EXTENDS Keyring

CONSTANTS
  Pids,        \* numbers for companions and "start" commands
  DraftOf,     \* the draft of each configuration
  MaxStarts    \* bound on "start" commands

ASSUME LaptopAssumption ==
  /\ Callers = Pids /\ Pids \subseteq Nat \ {0}
  /\ MaxStarts \in Nat

VARIABLES
  proc,       \* the living processes' places, by number
  conf,       \* configuration: 0 is the packaged one, in device mode
  init_file,  \* the configuration the installed initializer is from
  setup,      \* the configure command
  pid_file,   \* 0 when there is none
  service,    \* the service manager's view of its unit
  registry,   \* external: the identities enrolled with the Worker
  stranger,   \* a number in the pid file that another program has by now, or 0
  starts,     \* "start" commands so far
  raced       \* history: among the living processes one was started beside a start
              \* under way, or by the service beside a companion

files == <<conf, init_file>>
outside == <<registry, stranger>>
vars == <<keyringVars, proc, files, setup, pid_file, service,
          outside, starts, raced>>

Kinds == {"service", "detached", "start"}
Places == {"chrome", "load", "initialize", "spawn", "run", "stopping"}
NoProcess == [at |-> "none", kind |-> "none", conf |-> 0]
(* The configuration is over, whichever way; gen counts those begun.        *)
SetupOver == [setup EXCEPT !.at = "idle", !.done = 0, !.previous = [n \in 1..3 |-> 0]]

Alive(p) == proc[p].at # "none"
Companions == {p \in Pids : Alive(p) /\ proc[p].kind # "start"}

TypeOK ==
  /\ KeyringTypeOK
  /\ \A p \in Pids :
       proc[p] = NoProcess \/ proc[p] \in [at : Places, kind : Kinds, conf : 0..MaxSetups]
  /\ conf \in 0..MaxSetups /\ init_file \in 0..MaxSetups
  /\ setup.at \in {"idle", "secrets", "init", "config"}
  /\ setup.done \in 0..3 /\ setup.gen \in 0..MaxSetups /\ setup.previous \in Secrets
  /\ pid_file \in Pids \cup {0}
  /\ service \in {"inactive", "active", "stopping", "restarting", "failed"}
  /\ service \in {"inactive", "failed"} <=> ~\E p \in Companions : proc[p].kind = "service"
  /\ registry \subseteq Identity
  /\ stranger \in Pids \cup {0}
  /\ starts \in 0..MaxStarts
  /\ raced \in BOOLEAN

Init ==
  /\ KeyringInit
  /\ proc = [p \in Pids |-> NoProcess]
  /\ conf = secrets[1] /\ init_file = conf
  /\ setup = [at |-> "idle", done |-> 0, gen |-> conf, previous |-> [n \in 1..3 |-> 0]]
  /\ pid_file = 0 /\ service = "inactive"
  /\ registry = {}
  /\ stranger = 0 /\ starts = 0 /\ raced = FALSE

-----------------------------------------------------------------------------
(* Processes begin and end.                                                *)

Free == {p \in Pids : ~Alive(p) /\ p # pid_file}

Begins(p, kind, place) ==
  /\ p \in Free /\ \A q \in Free : p <= q
  /\ proc' = [proc EXCEPT ![p] = [at |-> place, kind |-> kind, conf |-> conf]]

(* A start is under way until its companion has written the pid file.      *)
Starting == \E p \in Pids : proc[p].at \in {"chrome", "spawn"} \/ proc[p].kind = "start"

(* The manager notices that its process has ended, well or badly.          *)
ServiceAfter(p, well) ==
  CASE proc[p].kind # "service" -> service
    [] service = "stopping" -> "inactive"
    [] service = "restarting" -> "failed"     \* stopped, and to be started again
    [] OTHER -> IF well THEN "inactive" ELSE "failed"

(* The process is gone without running any more of its code.               *)
Dies(p) ==
  /\ proc' = [proc EXCEPT ![p] = NoProcess]
  /\ service' = ServiceAfter(p, FALSE)

(* run_foreground's finally: the pid file is unlinked, whoever's it is.    *)
PidFileAfter(p) ==
  IF proc[p].kind = "start" \/ proc[p].at = "chrome" THEN pid_file ELSE 0

(* The process leaves by an exception or by returning.                     *)
Leaves(p, well) ==
  /\ proc' = [proc EXCEPT ![p] = NoProcess]
  /\ service' = ServiceAfter(p, well)
  /\ pid_file' = PidFileAfter(p)
  /\ stranger' = IF pid_file' = 0 THEN 0 ELSE stranger

-----------------------------------------------------------------------------
(* A companion starts: run_foreground, then Companion.run.                 *)

(* ensure_chrome, then the pid file.                                       *)
ChromeReady(p) ==
  /\ proc[p].at = "chrome"
  /\ proc' = [proc EXCEPT ![p].at = "load"]
  /\ pid_file' = p /\ stranger' = 0
  /\ UNCHANGED <<keyringVars, files, setup, service, registry, starts, raced>>

(* No Chrome: exit 1 before anything is written.                           *)
ChromeFails(p) ==
  /\ proc[p].at = "chrome"
  /\ Leaves(p, FALSE)
  /\ UNCHANGED <<keyringVars, files, setup, registry, starts, raced>>

(* The steps of load_or_create_device, for preflight as for run.           *)
LoadsDevice(p) ==
  /\ proc[p].at = "load" /\ proc[p].conf = 0
  /\ ReadId(p) \/ ReadToken(p) \/ StoreId(p) \/ StoreToken(p)
  /\ UNCHANGED <<proc, files, setup, pid_file, service, outside, starts, raced>>

DeviceRaises(p) ==
  /\ call[p].step = "raised"
  /\ Forget(p) /\ UNCHANGED faults
  /\ Leaves(p, FALSE)
  /\ UNCHANGED <<files, setup, registry, starts, raced>>

(* The Worker knows the device by this token, or not at all yet.           *)
Enrollable(identity) == \A r \in registry : r.id = identity.id => r = identity

GoesOn(p) ==
  proc' = [proc EXCEPT ![p].at = IF proc[p].kind = "start" THEN "spawn" ELSE "run"]

Enrolls(p) ==
  /\ call[p].step = "loaded"
  /\ LET identity == [id |-> call[p].id, token |-> call[p].token]
     IN  Enrollable(identity) /\ registry' = registry \cup {identity}
  /\ GoesOn(p)
  /\ Forget(p) /\ UNCHANGED faults
  /\ UNCHANGED <<files, setup, pid_file, service, stranger, starts, raced>>

(* A 403 means revoked; a conflict and a dead network mean reconnecting.   *)
EnrollFails(p) ==
  /\ call[p].step = "loaded"
  /\ Forget(p) /\ UNCHANGED faults
  /\ Leaves(p, FALSE)
  /\ UNCHANGED <<files, setup, registry, starts, raced>>

(* With stored credentials: load_initializer, load_credentials.            *)
LoadsStored(p) ==
  /\ proc[p].at = "load" /\ proc[p].conf # 0
  /\ \/ /\ DraftOf[init_file] = DraftOf[proc[p].conf]
        /\ \A n \in 1..3 : secrets[n] # 0
        /\ proc' = [proc EXCEPT ![p].at = "initialize"]
        /\ UNCHANGED <<service, pid_file, stranger>>
     \/ /\ \/ DraftOf[init_file] # DraftOf[proc[p].conf]
           \/ \E n \in 1..3 : secrets[n] = 0
        /\ Leaves(p, FALSE)
  /\ UNCHANGED <<keyringVars, files, setup, registry, starts, raced>>

(* worker.initialize, or preflight's worker.health.                        *)
Initialized(p) ==
  /\ proc[p].at = "initialize"
  /\ GoesOn(p)
  /\ UNCHANGED <<keyringVars, files, setup, pid_file, service, outside, starts, raced>>

InitializeFails(p) ==
  /\ proc[p].at = "initialize"
  /\ Leaves(p, FALSE)
  /\ UNCHANGED <<keyringVars, files, setup, registry, starts, raced>>

(* The draft is complete, or the main loop was told to stop.               *)
Finishes(p) ==
  /\ proc[p].at \in {"run", "stopping"}
  /\ Leaves(p, TRUE)
  /\ UNCHANGED <<keyringVars, files, setup, registry, starts, raced>>

-----------------------------------------------------------------------------
(* SIGTERM, SIGKILL and crashes.                                           *)

(* SIGTERM stops the main loop; before it, no handler is installed and the *)
(* process dies, its pid file left behind.                                 *)
Terminated(p) ==
  IF proc[p].at \in {"run", "stopping"}
  THEN /\ proc' = [proc EXCEPT ![p].at = "stopping"]
       /\ UNCHANGED <<call, torn>>
  ELSE /\ proc' = [proc EXCEPT ![p] = NoProcess]
       /\ Ended(p)

Crash(p) ==
  /\ Alive(p)
  /\ Fault
  /\ Forget(p)
  /\ Dies(p)
  /\ UNCHANGED <<files, setup, pid_file, outside, starts, raced>>

-----------------------------------------------------------------------------
(* The command line.                                                       *)

ProcessAlive(p) == p # 0 /\ (Alive(p) \/ p = stranger)

(* Mutant: any pid file but the starter's own counts for nothing.          *)
AlreadyRunningNever == FALSE

(* _pid and process_alive, in start.                                       *)
AlreadyRunning == ProcessAlive(pid_file)

(* "start": the check, then preflight.                                     *)
StartCommand(p) ==
  /\ starts < MaxStarts
  /\ starts' = starts + 1
  /\ ~AlreadyRunning
  /\ Begins(p, "start", "load")
  /\ raced' = (Starting \/ (raced /\ \E q \in Pids : Alive(q)))
  /\ UNCHANGED <<keyringVars, files, setup, pid_file, service, outside>>

(* preflight's look for Chrome, after it has enrolled or asked the Worker.  *)
ChromeMissing(p) ==
  /\ proc[p].at = "spawn"
  /\ Leaves(p, FALSE)
  /\ UNCHANGED <<keyringVars, files, setup, registry, starts, raced>>

(* The detached companion is spawned, and the command ends.                *)
Spawn(p) ==
  /\ proc[p].at = "spawn"
  /\ proc' = [proc EXCEPT ![p] = [at |-> "chrome", kind |-> "detached", conf |-> conf]]
  /\ UNCHANGED <<keyringVars, files, setup, pid_file, service, outside, starts, raced>>

(* "stop": SIGTERM to whatever process has the number in the pid file; when*)
(* that is another program, nothing here changes.  Restart=on-failure takes*)
(* a death by SIGTERM for a success.                                       *)
StopCommand ==
  /\ pid_file # 0 /\ Alive(pid_file)
  /\ Terminated(pid_file)
  /\ service' = IF proc'[pid_file] = NoProcess THEN ServiceAfter(pid_file, TRUE) ELSE service
  /\ UNCHANGED <<device, secrets, created, faults, overlapped, finished, loose, files,
                 setup, pid_file, outside, starts, raced>>

(* Another program is given the number of a companion that left its pid    *)
(* file behind.                                                            *)
Recycle ==
  /\ pid_file # 0 /\ ~Alive(pid_file) /\ stranger = 0
  /\ stranger' = pid_file
  /\ UNCHANGED <<keyringVars, proc, files, setup, pid_file, service,
                 registry, starts, raced>>

-----------------------------------------------------------------------------
(* The service manager and the status window.                              *)

ServiceStarts(p) ==
  /\ Begins(p, "service", "chrome")
  /\ service' = "active"
  /\ raced' = (Starting \/ Companions # {} \/ (raced /\ \E q \in Pids : Alive(q)))

(* ui.main: systemctl --user enable --now.                                 *)
OpenWindow ==
  /\ service = "inactive"
  /\ \E p \in Pids : ServiceStarts(p)
  /\ UNCHANGED <<keyringVars, files, setup, pid_file, outside, starts>>

(* Restart=on-failure.                                                     *)
ServiceRetries ==
  /\ service = "failed"
  /\ \E p \in Pids : ServiceStarts(p)
  /\ UNCHANGED <<keyringVars, files, setup, pid_file, outside, starts>>

(* The buttons Stop and Reconnect wait for systemctl.                      *)
Button(verb) ==
  /\ service \in {"inactive", "active", "failed"}
  /\ IF service = "active"
     THEN \E p \in Pids :
            /\ Alive(p) /\ proc[p].kind = "service"
            /\ Terminated(p)
            /\ service' = IF proc'[p] # NoProcess THEN verb
                          ELSE IF verb = "stopping" THEN "inactive" ELSE "failed"
     ELSE /\ service' = IF verb = "stopping" THEN "inactive" ELSE "failed"
          /\ UNCHANGED <<proc, call, torn>>
  /\ UNCHANGED <<device, secrets, created, faults, overlapped, finished, loose, files,
                 setup, pid_file, outside, starts, raced>>

StopButton == Button("stopping")
ReconnectButton == Button("restarting")

(* TimeoutStopSec has passed: SIGKILL.                                     *)
ServiceKills(p) ==
  /\ proc[p].kind = "service" /\ proc[p].at = "stopping"
  /\ service \in {"stopping", "restarting"}
  /\ Fault
  /\ Forget(p)
  /\ Dies(p)
  /\ UNCHANGED <<files, setup, pid_file, outside, starts, raced>>

-----------------------------------------------------------------------------
(* configure: credentials, then the initializer, then the configuration.   *)

Configure ==
  /\ setup.at = "idle" /\ setup.gen < MaxSetups
  /\ setup' = [at |-> "secrets", done |-> 0, gen |-> setup.gen + 1, previous |-> secrets]
  /\ UNCHANGED <<keyringVars, proc, files, pid_file, service, outside, starts, raced>>

ConfigureStores ==
  /\ setup.at = "secrets"
  /\ \/ /\ StoreSecret(setup.done + 1, setup.gen)
        /\ setup' = [setup EXCEPT !.done = @ + 1, !.at = IF setup.done = 2 THEN "init" ELSE @]
     \/ /\ StoreSecretFails(setup.done + 1, setup.previous)
        /\ setup' = SetupOver
  /\ UNCHANGED <<proc, files, pid_file, service, outside, starts, raced>>

ConfigureReplaces ==
  /\ setup.at \in {"init", "config"}
  /\ setup' = IF setup.at = "init" THEN [setup EXCEPT !.at = "config"] ELSE SetupOver
  /\ init_file' = IF setup.at = "init" THEN setup.gen ELSE init_file
  /\ conf' = IF setup.at = "config" THEN setup.gen ELSE conf
  /\ loose' = (loose /\ setup.at = "init")
  /\ UNCHANGED <<device, secrets, call, created, faults, creations, proc, pid_file,
                 service, outside, starts, raced>>

(* A rename raises, or the command is interrupted: what it stored remains. *)
ConfigureDies ==
  /\ setup.at # "idle"
  /\ Fault
  /\ loose' = (loose \/ setup.done > 0)
  /\ setup' = SetupOver
  /\ UNCHANGED <<device, secrets, call, created, creations, proc, files, pid_file,
                 service, outside, starts, raced>>

-----------------------------------------------------------------------------

Next ==
  \/ \E p \in Pids :
       \/ ChromeReady(p) \/ ChromeFails(p)
       \/ LoadsDevice(p) \/ DeviceRaises(p) \/ Enrolls(p) \/ EnrollFails(p)
       \/ LoadsStored(p) \/ Initialized(p) \/ InitializeFails(p)
       \/ Finishes(p) \/ Crash(p)
       \/ StartCommand(p) \/ ChromeMissing(p) \/ Spawn(p) \/ ServiceKills(p)
  \/ StopCommand \/ Recycle
  \/ OpenWindow \/ ServiceRetries \/ StopButton \/ ReconnectButton
  \/ Configure \/ ConfigureStores \/ ConfigureReplaces \/ ConfigureDies

Spec == Init /\ [][Next]_vars

-----------------------------------------------------------------------------
(* Properties.                                                             *)

(* One laptop, one device: however starts interleave, crash and fail       *)
(* between the keyring and the Worker, the Worker knows two tokens only of *)
(* creations that overlapped each other; and it knows an id with another   *)
(* creation's token only if those two overlapped, or the id's creation was *)
(* never completed and a slow reader met the token of a later one          *)
(* (credentials.py:112-155, cli.py:58-63, runtime.py:130-138).             *)
IdentityIsOne ==
  \A r, s \in registry :
    /\ r.token = s.token \/ Overlapped(r.token, s.token)
    /\ r.id = r.token \/ Overlapped(r.id, r.token) \/ r.id \notin finished

(* The pid file is a lock for starts that do not race: while no living     *)
(* process was started in a race, there is one companion past its wait for *)
(* Chrome, it is the one "stop" would terminate, and no "start" gets that  *)
(* far beside it; and once all processes of a race are gone the lock works *)
(* again (cli.py:192-206, 281-283, 312-323).                               *)
PidFileLocks ==
  ~raced =>
    \A p \in Companions :
      /\ Companions = {p}
      /\ proc[p].at # "chrome" => pid_file = p

(* The secrets are never older than the initializer, nor the initializer   *)
(* than the routing, wherever configurations fail or die.  A configuration *)
(* that was refused or interrupted before its first secret leaves the old  *)
(* one, whose parts belong together, and a completed one repairs what      *)
(* others left behind (cli.py:159-183, credentials.py:87-108).             *)
SetupAllOrNothing ==
  /\ conf <= init_file /\ \A n \in 1..3 : init_file <= secrets[n]
  /\ setup.at = "idle" /\ ~loose =>
       init_file = conf /\ \A n \in 1..3 : secrets[n] = conf
=============================================================================
