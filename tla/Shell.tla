------------------------------- MODULE Shell -------------------------------
(***************************************************************************)
(* The desktop shell around the sidecar: the supervisor task that respawns *)
(* a dead or stuck sidecar (sidecar.rs, with the turn heartbeat of         *)
(* persistence/paths.ts), the boot wait of main.rs, the shutdown on quit   *)
(* and before an install, and the updater (updater.rs).                    *)
(*                                                                         *)
(* These run as tasks of one process that share a few atomics: the pid, the *)
(* port, the shutdown flag.  The sidecar is a process of its own that may   *)
(* die, hang or come up late.  Process identifiers grow and are not reused. *)
(* Delays are left out: a timeout may pass at any time.                    *)
(***************************************************************************)
EXTENDS Naturals, FiniteSets

CONSTANTS
  Pids,              \* identifiers of the sidecars spawned: 1 .. n
  Turns,             \* turns a sidecar may have unfinished at a time
  Callers,           \* of the updater: the scheduler, the Settings command
  MaxFailures,       \* MAX_CONSECUTIVE_SPAWN_FAILURES
  MaxTrouble,        \* bound on crashes, turns that fall silent, failed writes of the beat
  MaxUpdates         \* bound on updates begun

ASSUME ShellAssumption ==
  /\ Pids \subseteq Nat \ {0} /\ 1 \in Pids
  /\ MaxFailures \in Nat \ {0} /\ MaxTrouble \in Nat /\ MaxUpdates \in Nat

VARIABLES
  proc,              \* each sidecar: unused, starting, serving, ending or dead
  turns,             \* the unfinished turns of the sidecar that serves
  beat, beatOf,      \* the heartbeat file: none, fresh or stale; who touched it
  stray,             \* history: its removal failed, and no turn has touched it since
  portFile,          \* the sidecar that wrote the port file, 0 without one
  port, childPid, shuttingDown,   \* FrondoseServeState
  child,             \* its mutex: a sidecar to watch, or 0
  sup, held,         \* where the supervisor is; the sidecar it spawns or watches
  since,             \* spawn_time, as the sidecar it was taken for
  failures,          \* consecutive_spawn_failures
  boot, seen,        \* main's wait for the port file, and the port it has read
  app,               \* running, quitting, exiting or exited
  closing,           \* each shutdown_sidecar call: the step it is at, its pid, and (history)
                     \* whether no spawn was under way when it read that pid
  update, updating,  \* each caller's stage; UPDATE_IN_PROGRESS
  trouble, updates   \* counters of the bounded environment

heartbeat == <<beat, beatOf, stray>>
sidecar == <<proc, turns, heartbeat, portFile>>
atomics == <<port, childPid, shuttingDown>>
supervisor == <<child, sup, held, since, failures>>
main == <<boot, seen, app>>
updater == <<update, updating>>
bounds == <<trouble, updates>>
shellVars == <<sidecar, atomics, supervisor, main, closing, updater, bounds>>

Alive(p) == proc[p] \in {"starting", "serving", "ending"}
Closers == {"app", "update"}
Up == app # "exited"

ShellInit ==
  /\ \E ok \in BOOLEAN :
       /\ proc = [p \in Pids |-> IF ok /\ p = 1 THEN "starting" ELSE "unused"]
       /\ child = (IF ok THEN 1 ELSE 0) /\ childPid = child
  /\ turns = {} /\ beat \in {"none", "stale"} /\ beatOf = 0 /\ stray = FALSE
  /\ portFile = 0 /\ port = 0 /\ shuttingDown = FALSE
  /\ sup = "top" /\ held = 0 /\ since = 1 /\ failures = 0
  /\ boot = "read" /\ seen = 0 /\ app = "running"
  /\ closing = [c \in Closers |-> [at |-> "done", pid |-> 0, sure |-> FALSE]]
  /\ update = [c \in Callers |-> "idle"] /\ updating = FALSE
  /\ trouble = 0 /\ updates = 0

-----------------------------------------------------------------------------
(* The sidecar and its heartbeat.                                           *)

Trouble ==
  /\ trouble < MaxTrouble
  /\ trouble' = trouble + 1
  /\ UNCHANGED updates

SidecarServes(p) ==
  /\ proc[p] = "starting"
  /\ proc' = [proc EXCEPT ![p] = "serving"]
  /\ portFile' = p
  /\ UNCHANGED <<turns, heartbeat, atomics, supervisor, main, closing, updater, bounds>>

Dead(p) ==
  /\ proc' = [proc EXCEPT ![p] = "dead"]
  /\ turns' = {}

(* A crash leaves the heartbeat and the port file behind.                   *)
SidecarCrashes(p) ==
  /\ Alive(p) /\ Trouble /\ Dead(p)
  /\ UNCHANGED <<heartbeat, portFile, atomics, supervisor, main, closing, updater>>

(* The SIGTERM handler stops what it can and removes the port file.         *)
SidecarEnds(p) ==
  /\ proc[p] = "ending" /\ Dead(p)
  /\ portFile' = 0
  /\ UNCHANGED <<heartbeat, atomics, supervisor, main, closing, updater, bounds>>

(* A turn writes the heartbeat at its start and with its progress, which    *)
(* also brings back a file that another turn has removed; a write that     *)
(* fails is passed over.                                                   *)
TurnBeats(p, t) ==
  /\ \/ proc[p] = "serving"
     \/ proc[p] = "ending" /\ t \in turns
  /\ turns' = turns \cup {t}
  /\ \/ beat' = "fresh" /\ beatOf' = p /\ stray' = FALSE /\ UNCHANGED bounds
     \/ Trouble /\ UNCHANGED heartbeat
  /\ UNCHANGED <<proc, portFile, atomics, supervisor, main, closing, updater>>

(* A file that cannot be removed stays, with the time of its last beat.     *)
RemoveBeat ==
  \/ beat' = "none" /\ beatOf' = 0 /\ stray' = FALSE /\ UNCHANGED bounds
  \/ beat # "none" /\ Trouble /\ stray' = TRUE /\ UNCHANGED <<beat, beatOf>>

TurnEnds(p, t) ==
  /\ proc[p] \in {"serving", "ending"} /\ t \in turns
  /\ turns' = turns \ {t}
  /\ RemoveBeat
  /\ UNCHANGED <<proc, portFile, atomics, supervisor, main, closing, updater>>

(* STUCK_SECS pass without a beat.                                          *)
BeatAges ==
  /\ beat = "fresh" /\ Trouble
  /\ beat' = "stale"
  /\ UNCHANGED <<proc, turns, beatOf, stray, portFile, atomics, supervisor, main, closing, updater>>

-----------------------------------------------------------------------------
(* supervise_sidecar.                                                       *)

\* A mutant: without a child the supervisor waits for one.
SupTopWaits ==
  /\ Up /\ sup = "top"
  /\ IF shuttingDown
       THEN sup' = "gone" /\ UNCHANGED <<child, held, childPid>>
       ELSE /\ child # 0 /\ sup' = "watching"
            /\ held' = child /\ child' = 0 /\ childPid' = child
  /\ UNCHANGED <<sidecar, port, shuttingDown, since, failures, main, closing, updater, bounds>>
(* A round of the loop begins: it takes the child, if there is one.         *)
SupTop ==
  /\ Up /\ sup = "top"
  /\ IF shuttingDown
       THEN sup' = "gone" /\ UNCHANGED <<child, held, childPid>>
       ELSE /\ sup' = IF child # 0 THEN "watching" ELSE "backoff"
            /\ held' = child /\ child' = 0
            /\ childPid' = IF child # 0 THEN child ELSE childPid
  /\ UNCHANGED <<sidecar, port, shuttingDown, since, failures, main, closing, updater, bounds>>

(* child.wait returns.                                                      *)
SupReaps ==
  /\ Up /\ sup = "watching" /\ proc[held] = "dead"
  /\ childPid' = 0
  /\ sup' = IF shuttingDown THEN "gone" ELSE "backoff"
  /\ failures' = IF shuttingDown THEN failures ELSE 0
  /\ held' = 0
  /\ UNCHANGED <<sidecar, port, shuttingDown, child, since, main, closing, updater, bounds>>

\* A mutant: a heartbeat from before the spawn counts.
SaysStuckAnyAge == beat = "stale"
(* heartbeat_says_stuck.                                                    *)
SaysStuck == beat = "stale" /\ beatOf >= since

(* force_kill_sidecar_pid.                                                  *)
ForceKill(p) == IF Alive(p) THEN Dead(p) ELSE UNCHANGED <<proc, turns>>

WatchdogKills ==
  /\ Up /\ sup = "watching" /\ ~shuttingDown /\ SaysStuck
  /\ ForceKill(held)
  /\ sup' = "killing"
  /\ UNCHANGED <<heartbeat, portFile, atomics, child, held, since, failures,
                 main, closing, updater, bounds>>

WatchdogReaps ==
  /\ Up /\ sup = "killing"
  /\ childPid' = 0 /\ RemoveBeat
  /\ sup' = "backoff" /\ failures' = 0 /\ held' = 0
  /\ UNCHANGED <<proc, turns, portFile, port, shuttingDown, child, since,
                 main, closing, updater>>

\* A mutant: the flag is not read after the sleep.
SupBacksOffBlindly ==
  /\ Up /\ sup = "backoff"
  /\ sup' = "respawn"
  /\ UNCHANGED <<sidecar, atomics, child, held, since, failures, main, closing, updater, bounds>>
(* After the sleep; the flag is not read again before the spawn.            *)
SupBacksOff ==
  /\ Up /\ sup = "backoff"
  /\ sup' = IF shuttingDown THEN "gone" ELSE "respawn"
  /\ UNCHANGED <<sidecar, atomics, child, held, since, failures, main, closing, updater, bounds>>

(* spawn_frondose_serve: the next process identifier.                       *)
Spawn(p) ==
  /\ proc[p] = "unused" /\ \A q \in Pids : proc[q] = "unused" => p <= q
  /\ proc' = [proc EXCEPT ![p] = "starting"]

\* A mutant: the cached port survives the respawn.
SupSpawnsOverPort ==
  /\ Up /\ sup = "respawn"
  /\ \E p \in Pids : Spawn(p) /\ held' = p
  /\ sup' = "spawned"
  /\ UNCHANGED <<turns, heartbeat, portFile, atomics, child, since, failures,
                 main, closing, updater, bounds>>
SupSpawns ==
  /\ Up /\ sup = "respawn"
  /\ \E p \in Pids : Spawn(p) /\ held' = p
  /\ sup' = "spawned"
  /\ port' = 0 /\ portFile' = 0
  /\ UNCHANGED <<turns, heartbeat, childPid, shuttingDown, child, since, failures,
                 main, closing, updater, bounds>>

SupSpawnFails ==
  /\ Up /\ sup = "respawn"
  /\ port' = 0 /\ portFile' = 0
  /\ failures' = failures + 1
  /\ sup' = IF failures' >= MaxFailures THEN "gone" ELSE "backoff"
  /\ UNCHANGED <<proc, turns, heartbeat, childPid, shuttingDown, child, held, since,
                 main, closing, updater, bounds>>

SupStoresPid ==
  /\ Up /\ sup = "spawned"
  /\ childPid' = held /\ since' = held
  /\ sup' = "readying"
  /\ UNCHANGED <<sidecar, port, shuttingDown, child, held, failures,
                 main, closing, updater, bounds>>

(* await_serve_ready: a poll publishes the port before it asks for health.  *)
SupPolls ==
  /\ Up /\ sup = "readying" /\ portFile # 0
  /\ port' = portFile
  /\ IF proc[portFile] \in {"serving", "ending"}
       THEN sup' = "top" /\ child' = held /\ failures' = 0
       ELSE UNCHANGED <<sup, child, failures>>
  /\ UNCHANGED <<sidecar, childPid, shuttingDown, held, since, main, closing, updater, bounds>>

\* A mutant: a sidecar that is not ready in time is replaced.
SupPollsForAnother ==
  /\ Up /\ sup = "readying"
  /\ port' = 0
  /\ sup' = "backoff" /\ UNCHANGED <<child, failures>>
  /\ UNCHANGED <<sidecar, childPid, shuttingDown, held, since, main, closing, updater, bounds>>
(* A sidecar that is not ready in time is watched all the same.             *)
SupPollsInVain ==
  /\ Up /\ sup = "readying"
  /\ port' = 0
  /\ sup' = "top" /\ child' = held /\ failures' = 0
  /\ UNCHANGED <<sidecar, childPid, shuttingDown, held, since, main, closing, updater, bounds>>

Supervise ==
  \/ SupTop \/ SupReaps \/ WatchdogKills \/ WatchdogReaps \/ SupBacksOff
  \/ SupSpawns \/ SupSpawnFails \/ SupStoresPid \/ SupPolls \/ SupPollsInVain

-----------------------------------------------------------------------------
(* main's own await_serve_ready, beside the supervisor; the event loop      *)
(* starts after it.                                                        *)

BootReads ==
  /\ boot = "read" /\ portFile # 0
  /\ seen' = portFile /\ boot' = "asked"
  /\ UNCHANGED <<sidecar, atomics, supervisor, app, closing, updater, bounds>>

BootAsks ==
  /\ boot = "asked"
  /\ port' = seen
  /\ boot' = IF proc[seen] \in {"serving", "ending"} THEN "done" ELSE "read"
  /\ seen' = 0
  /\ UNCHANGED <<sidecar, childPid, shuttingDown, supervisor, app, closing, updater, bounds>>

BootGivesUp ==
  /\ boot = "read"
  /\ port' = 0 /\ boot' = "done"
  /\ UNCHANGED <<sidecar, childPid, shuttingDown, supervisor, seen, app, closing, updater, bounds>>

-----------------------------------------------------------------------------
(* shutdown_sidecar, for the caller c.                                      *)

CloseMarks(c) ==
  /\ Up /\ closing[c].at = "mark"
  /\ shuttingDown' = TRUE
  /\ closing' = [closing EXCEPT ![c].at = "term"]
  /\ UNCHANGED <<sidecar, port, childPid, supervisor, main, updater, bounds>>

\* The supervisor has read the flag for the last time before a spawn.
Spawning == sup \in {"respawn", "spawned"}

CloseTerms(c) ==
  /\ Up /\ closing[c].at = "term"
  /\ closing' = [closing EXCEPT ![c] = [at |-> IF childPid = 0 THEN "clean" ELSE "kill",
                                        pid |-> childPid, sure |-> ~Spawning]]
  /\ proc' = IF childPid # 0 /\ Alive(childPid)
               THEN [proc EXCEPT ![childPid] = "ending"] ELSE proc
  /\ UNCHANGED <<turns, heartbeat, portFile, atomics, supervisor, main, updater, bounds>>

(* 800 ms later; the signal goes to the pid that was read first.            *)
CloseKills(c) ==
  /\ Up /\ closing[c].at = "kill"
  /\ IF childPid # 0 THEN ForceKill(closing[c].pid) ELSE UNCHANGED <<proc, turns>>
  /\ closing' = [closing EXCEPT ![c].at = "clean", ![c].pid = 0]
  /\ UNCHANGED <<heartbeat, portFile, atomics, supervisor, main, updater, bounds>>

CloseCleans(c) ==
  /\ Up /\ closing[c].at = "clean"
  /\ portFile' = 0
  /\ closing' = [closing EXCEPT ![c].at = "done"]
  /\ UNCHANGED <<proc, turns, heartbeat, atomics, supervisor, main, updater, bounds>>

(* Quit in the tray shuts the sidecar down and asks for the exit, which     *)
(* shuts it down again; SIGTERM and an accepted relaunch ask for the exit.  *)
Quit ==
  /\ app = "running" /\ boot = "done"
  /\ app' \in {"quitting", "exiting"}
  /\ closing' = [closing EXCEPT !["app"].at = "mark"]
  /\ UNCHANGED <<sidecar, atomics, supervisor, boot, seen, updater, bounds>>

ExitRequested ==
  /\ app = "quitting" /\ closing["app"].at = "done"
  /\ app' = "exiting"
  /\ closing' = [closing EXCEPT !["app"].at = "mark"]
  /\ UNCHANGED <<sidecar, atomics, supervisor, boot, seen, updater, bounds>>

Exit ==
  /\ app = "exiting" /\ closing["app"].at = "done"
  /\ app' = "exited"
  /\ UNCHANGED <<sidecar, atomics, supervisor, boot, seen, closing, updater, bounds>>

Close == \/ \E c \in Closers : CloseMarks(c) \/ CloseTerms(c) \/ CloseKills(c) \/ CloseCleans(c)
         \/ ExitRequested \/ Exit

-----------------------------------------------------------------------------
(* install_and_relaunch.                                                    *)

EndUpdate(c) ==
  /\ update' = [update EXCEPT ![c] = "idle"]
  /\ updating' = FALSE

UpdateBegins(c) ==
  /\ Up /\ boot = "done" /\ update[c] = "idle" /\ ~updating
  /\ updates < MaxUpdates /\ updates' = updates + 1
  /\ updating' = TRUE
  /\ update' = [update EXCEPT ![c] = "downloading"]
  /\ UNCHANGED <<sidecar, atomics, supervisor, main, closing, trouble>>

(* Also a bundle that cannot be replaced.                                   *)
DownloadFails(c) ==
  /\ Up /\ update[c] = "downloading"
  /\ EndUpdate(c)
  /\ UNCHANGED <<sidecar, atomics, supervisor, main, closing, bounds>>

Downloaded(c) ==
  /\ Up /\ update[c] = "downloading"
  /\ update' = [update EXCEPT ![c] = "closing"]
  /\ closing' = [closing EXCEPT !["update"].at = "mark"]
  /\ UNCHANGED <<sidecar, atomics, supervisor, main, updating, bounds>>

(* After the bounded wait for childPid to be cleared.                       *)
InstallFails(c) ==
  /\ Up /\ update[c] = "closing" /\ closing["update"].at = "done"
  /\ EndUpdate(c)
  /\ UNCHANGED <<sidecar, atomics, supervisor, main, closing, bounds>>

Installed(c) ==
  /\ Up /\ update[c] = "closing" /\ closing["update"].at = "done"
  /\ update' = [update EXCEPT ![c] = "relaunching"]
  /\ UNCHANGED <<sidecar, atomics, supervisor, main, closing, updating, bounds>>

RelaunchFails(c) ==
  /\ Up /\ update[c] = "relaunching"
  /\ EndUpdate(c)
  /\ UNCHANGED <<sidecar, atomics, supervisor, main, closing, bounds>>

(* The guard stays held in a process that is on its way out.                *)
Relaunched(c) ==
  /\ Up /\ update[c] = "relaunching"
  /\ update' = [update EXCEPT ![c] = "exit"]
  /\ IF app = "running"
       THEN app' = "exiting" /\ closing' = [closing EXCEPT !["app"].at = "mark"]
       ELSE UNCHANGED <<app, closing>>
  /\ UNCHANGED <<sidecar, atomics, supervisor, boot, seen, updating, bounds>>

Update(c) ==
  \/ UpdateBegins(c) \/ DownloadFails(c) \/ Downloaded(c) \/ InstallFails(c)
  \/ Installed(c) \/ RelaunchFails(c) \/ Relaunched(c)

-----------------------------------------------------------------------------
ShellNext ==
  \/ \E p \in Pids : SidecarServes(p) \/ SidecarCrashes(p) \/ SidecarEnds(p)
  \/ \E p \in Pids, t \in Turns : TurnBeats(p, t) \/ TurnEnds(p, t)
  \/ BeatAges
  \/ Supervise
  \/ BootReads \/ BootAsks \/ BootGivesUp
  \/ Quit \/ Close
  \/ \E c \in Callers : Update(c)

(* The tasks of the shell run; the sidecar, the operator and the network    *)
(* promise nothing.                                                        *)
ShellSpec ==
  /\ ShellInit /\ [][ShellNext]_shellVars
  /\ WF_shellVars(Supervise) /\ WF_shellVars(Close)

-----------------------------------------------------------------------------
(* The types of the variables.                                             *)
ShellTypeOK ==
  /\ proc \in [Pids -> {"unused", "starting", "serving", "ending", "dead"}]
  /\ turns \subseteq Turns
  /\ beat \in {"none", "fresh", "stale"} /\ beatOf \in Pids \cup {0} /\ stray \in BOOLEAN
  /\ {portFile, port, childPid, child, held, seen} \subseteq Pids \cup {0}
  /\ shuttingDown \in BOOLEAN /\ updating \in BOOLEAN
  /\ sup \in {"top", "watching", "killing", "backoff", "respawn", "spawned", "readying", "gone"}
  /\ since \in Pids /\ failures \in 0..MaxFailures
  /\ boot \in {"read", "asked", "done"}
  /\ app \in {"running", "quitting", "exiting", "exited"}
  /\ closing \in [Closers -> [at : {"mark", "term", "kill", "clean", "done"},
                             pid : Pids \cup {0}, sure : BOOLEAN]]
  /\ update \in [Callers -> {"idle", "downloading", "closing", "relaunching", "exit"}]
  /\ trouble \in 0..MaxTrouble /\ updates \in 0..MaxUpdates

(* Two sidecars never run at the same time, whatever dies, hangs or is      *)
(* killed, and whenever: they would share one browser, one heartbeat and    *)
(* one database.                                                           *)
OneSidecar == \A p, q \in Pids : Alive(p) /\ Alive(q) => p = q

(* Once main has stopped waiting, requests and the event stream are never   *)
(* sent to a sidecar other than the one the supervisor is about to watch or *)
(* watches.                                                                *)
PortTruth ==
  boot = "done" /\ sup \in {"spawned", "readying", "watching"} => port \in {0, held}

(* The watchdog kills a sidecar in which every turn has ended only when the *)
(* removal of that sidecar's own heartbeat failed, even though turns share *)
(* one heartbeat file and a crash leaves it behind.                        *)
KillsOnlyStuck ==
  [][sup = "watching" /\ sup' = "killing" /\ Alive(held) =>
       turns # {} \/ (stray /\ beatOf = held)]_shellVars

(* No sidecar lives once a shutdown has run its course, not during the      *)
(* install that follows nor after the exit, unless the supervisor was past  *)
(* its last look at the flag, and the spawn not yet published, when the     *)
(* shutdown read the pid it was to kill.                                   *)
ShutdownEndsIt ==
  \A c \in Closers :
    closing[c].sure /\ closing[c].at \in {"clean", "done"} => \A p \in Pids : ~Alive(p)

(* A dead sidecar is replaced, unless a shutdown has begun or the spawns    *)
(* have failed MAX_CONSECUTIVE_SPAWN_FAILURES times in a row.              *)
Recovers ==
  (\A p \in Pids : ~Alive(p)) ~> ((\E p \in Pids : Alive(p)) \/ shuttingDown \/ sup = "gone")
=============================================================================
