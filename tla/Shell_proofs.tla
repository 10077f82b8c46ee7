---------------------------- MODULE Shell_proofs -----------------------------
(***************************************************************************)
(* The desktop shell and the journal of the updates it installs.  For any      *)
(* number of sidecars, turns, callers, failures and updates: one sidecar lives *)
(* at a time, its port is the published one, the watchdog spares it without a  *)
(* turn, and it does not outlive a shutdown.  For any number of instances,     *)
(* versions and generations: a notice is handed out at most once,   *)
(* whatever overlaps and dies; and one instance at a time loses neither the    *)
(* journal nor a notice that is due.                                          *)
(***************************************************************************)
EXTENDS Shell, UpdateNotice, TLAPS

\* The sidecar that the supervisor has in its hands, or leaves to be watched.
Current ==
  IF sup \in {"top", "gone"} THEN child
  ELSE IF sup \in {"watching", "spawned", "readying"} THEN held ELSE 0

\* Where the supervisor may be with a child, a sidecar in its hands, and failures.
HandsOK ==
  /\ child # 0 => sup \in {"top", "gone"}
  /\ sup \in {"watching", "killing", "spawned", "readying"} => held # 0
  /\ boot = "asked" => seen # 0
  /\ sup # "gone" => failures < MaxFailures

\* No sidecar but the current one lives, and it is the last one spawned.
CurrentOK ==
  /\ \A p \in Pids : Alive(p) => p = Current
  /\ \A p, q \in Pids : proc[p] # "unused" /\ q < p => proc[q] # "unused"
  /\ Current # 0 =>
       /\ proc[Current] # "unused"
       /\ \A p \in Pids : proc[p] # "unused" => p <= Current
       /\ sup # "spawned" => since = Current

\* The port file and, after the boot wait, the port are the current sidecar's.
PortsOK ==
  Current # 0 => /\ portFile \in {0, Current}
                 /\ boot = "done" => port \in {0, Current}

\* A heartbeat of a sidecar that lives is of an unfinished turn, or could not be removed.
BeatOK ==
  /\ beatOf # 0 => proc[beatOf] # "unused"
  /\ beat # "none" /\ beatOf # 0 /\ Alive(beatOf) => turns # {} \/ stray

\* The published pid is the live sidecar's, unless it was spawned a moment ago.
PidOK == \A p \in Pids : Alive(p) => childPid = p \/ sup = "spawned"

\* A shutdown that found no spawn under way has the only sidecar's pid, then none lives.
ClosingOK ==
  \A c \in Closers :
    /\ closing[c].at = "kill" => closing[c].pid # 0
    /\ closing[c].at \in {"term", "kill", "clean"} => shuttingDown
    /\ closing[c].sure =>
         /\ shuttingDown /\ ~Spawning
         /\ closing[c].at = "kill" => \A p \in Pids : Alive(p) => p = closing[c].pid
         /\ closing[c].at \in {"clean", "done"} => \A p \in Pids : ~Alive(p)

ShellInv ==
  ShellTypeOK /\ HandsOK /\ CurrentOK /\ PortsOK /\ BeatOK /\ PidOK /\ ClosingOK

-----------------------------------------------------------------------------
LEMMA ShellInitially == ShellInit => ShellInv
  <1> SUFFICES ASSUME ShellInit PROVE ShellInv
    OBVIOUS
  <1>1. /\ child \in {0, 1} /\ childPid = child /\ sup = "top" /\ Current = child
        /\ \A p \in Pids : Alive(p) => p = child
        /\ \A p \in Pids : proc[p] # "unused" => p = 1 /\ proc[p] = "starting"
        /\ child # 0 => proc[child] = "starting" /\ child = 1
    BY ShellAssumption DEF ShellInit, Current, Alive
  <1>2. proc \in [Pids -> {"unused", "starting", "serving", "ending", "dead"}]
    BY DEF ShellInit
  <1>3. ShellTypeOK
    <2>1. {portFile, port, childPid, child, held, seen} \subseteq Pids \cup {0}
      BY <1>1, ShellAssumption DEF ShellInit
    <2>2. closing \in [Closers -> [at : {"mark", "term", "kill", "clean", "done"},
                                  pid : Pids \cup {0}, sure : BOOLEAN]]
      BY DEF ShellInit
    <2>3. failures \in 0..MaxFailures /\ trouble \in 0..MaxTrouble /\ updates \in 0..MaxUpdates
      BY ShellAssumption DEF ShellInit
    <2> QED BY <1>1, <1>2, <2>1, <2>2, <2>3, ShellAssumption DEF ShellInit, ShellTypeOK
  <1>4. HandsOK /\ PortsOK /\ BeatOK
    BY <1>1, ShellAssumption DEF ShellInit, HandsOK, PortsOK, BeatOK
  <1>5. CurrentOK
    <2>1. \A p, q \in Pids : proc[p] # "unused" /\ q < p => proc[q] # "unused"
      BY <1>1, ShellAssumption
    <2> QED BY <1>1, <2>1, ShellAssumption DEF CurrentOK, ShellInit
  <1>6. ClosingOK
    BY DEF ShellInit, ClosingOK, Closers
  <1>7. PidOK
    BY <1>1 DEF PidOK
  <1> QED BY <1>3, <1>4, <1>5, <1>6, <1>7 DEF ShellInv

-----------------------------------------------------------------------------
(* Types.                                                                   *)

LEMMA ForceKillType ==
  ASSUME ShellTypeOK, NEW p \in Pids \cup {0}, ForceKill(p)
  PROVE  /\ proc' \in [Pids -> {"unused", "starting", "serving", "ending", "dead"}]
         /\ turns' \subseteq Turns
  BY DEF ShellTypeOK, ForceKill, Dead

\* A shutdown goes on to another step.
LEMMA ClosingType ==
  ASSUME ShellTypeOK, NEW c \in Closers, NEW step \in {"mark", "term", "kill", "clean", "done"}
  PROVE  [closing EXCEPT ![c].at = step]
           \in [Closers -> [at : {"mark", "term", "kill", "clean", "done"},
                            pid : Pids \cup {0}, sure : BOOLEAN]]
  <1>1. closing[c] \in [at : {"mark", "term", "kill", "clean", "done"},
                        pid : Pids \cup {0}, sure : BOOLEAN]
    BY DEF ShellTypeOK
  <1>2. [closing[c] EXCEPT !.at = step]
          \in [at : {"mark", "term", "kill", "clean", "done"},
              pid : Pids \cup {0}, sure : BOOLEAN]
    BY <1>1
  <1> QED BY <1>2 DEF ShellTypeOK

LEMMA SidecarTypes ==
  ASSUME ShellTypeOK,
         \/ \E p \in Pids : SidecarServes(p) \/ SidecarCrashes(p) \/ SidecarEnds(p)
         \/ \E p \in Pids, t \in Turns : TurnBeats(p, t) \/ TurnEnds(p, t)
         \/ BeatAges
  PROVE  ShellTypeOK'
  <1> USE DEF ShellTypeOK, heartbeat, sidecar, atomics, supervisor, main, updater, bounds, Dead, RemoveBeat
  <1>1. ASSUME NEW p \in Pids, SidecarServes(p) \/ SidecarEnds(p) PROVE ShellTypeOK'
    BY <1>1 DEF SidecarServes, SidecarEnds
  <1>2. ASSUME NEW p \in Pids, SidecarCrashes(p) PROVE ShellTypeOK'
    BY <1>2, ShellAssumption DEF SidecarCrashes, Trouble
  <1>3. ASSUME NEW p \in Pids, NEW t \in Turns, TurnBeats(p, t) \/ TurnEnds(p, t)
        PROVE  ShellTypeOK'
    <2>1. CASE TurnBeats(p, t)
      <3>1. trouble' \in 0..MaxTrouble /\ updates' \in 0..MaxUpdates
        BY <2>1, ShellAssumption DEF TurnBeats, Trouble
      <3>2. beat' \in {"none", "fresh", "stale"} /\ beatOf' \in Pids \cup {0} /\ stray' \in BOOLEAN
        BY <2>1 DEF TurnBeats
      <3> QED BY <2>1, <3>1, <3>2 DEF TurnBeats
    <2>2. CASE TurnEnds(p, t)
      <3>1. trouble' \in 0..MaxTrouble /\ updates' \in 0..MaxUpdates
        BY <2>2, ShellAssumption DEF TurnEnds, Trouble
      <3>2. beat' \in {"none", "fresh", "stale"} /\ beatOf' \in Pids \cup {0} /\ stray' \in BOOLEAN
        BY <2>2 DEF TurnEnds
      <3> QED BY <2>2, <3>1, <3>2 DEF TurnEnds
    <2> QED BY <1>3, <2>1, <2>2
  <1>4. ASSUME BeatAges PROVE ShellTypeOK'
    BY <1>4, ShellAssumption DEF BeatAges, Trouble
  <1> QED BY <1>1, <1>2, <1>3, <1>4

LEMMA SupervisorTypes ==
  ASSUME ShellTypeOK, HandsOK, Supervise
  PROVE  ShellTypeOK'
  <1> USE DEF ShellTypeOK, heartbeat, sidecar, atomics, supervisor, main, updater, bounds
  <1>1. CASE SupTop
    BY <1>1 DEF SupTop
  <1>2. CASE SupReaps
    BY <1>2, ShellAssumption DEF SupReaps
  <1>3. CASE WatchdogKills
    BY <1>3, ForceKillType DEF WatchdogKills
  <1>4. CASE WatchdogReaps
    <2>1. trouble' \in 0..MaxTrouble /\ updates' \in 0..MaxUpdates
      BY <1>4, ShellAssumption DEF WatchdogReaps, RemoveBeat, Trouble
    <2>2. beat' \in {"none", "fresh", "stale"} /\ beatOf' \in Pids \cup {0} /\ stray' \in BOOLEAN
      BY <1>4 DEF WatchdogReaps, RemoveBeat
    <2>3. failures' \in 0..MaxFailures
      BY <1>4, ShellAssumption DEF WatchdogReaps
    <2> QED BY <1>4, <2>1, <2>2, <2>3 DEF WatchdogReaps
  <1>5. CASE SupBacksOff
    BY <1>5 DEF SupBacksOff
  <1>6. CASE SupSpawns
    BY <1>6 DEF SupSpawns, Spawn
  <1>7. CASE SupSpawnFails
    BY <1>7, ShellAssumption DEF SupSpawnFails, HandsOK
  <1>8. CASE SupStoresPid
    BY <1>8 DEF SupStoresPid, HandsOK
  <1>9. CASE SupPolls
    BY <1>9, ShellAssumption DEF SupPolls
  <1>10. CASE SupPollsInVain
    BY <1>10, ShellAssumption DEF SupPollsInVain
  <1> QED BY <1>1, <1>2, <1>3, <1>4, <1>5, <1>6, <1>7, <1>8, <1>9, <1>10 DEF Supervise

LEMMA MainTypes ==
  ASSUME ShellTypeOK, BootReads \/ BootAsks \/ BootGivesUp \/ Quit \/ Close
  PROVE  ShellTypeOK'
  <1> USE DEF ShellTypeOK, heartbeat, sidecar, atomics, supervisor, main, updater, bounds, Closers
  <1>1. CASE BootReads \/ BootAsks \/ BootGivesUp
    BY <1>1 DEF BootReads, BootAsks, BootGivesUp
  <1>2. CASE Quit \/ ExitRequested \/ Exit
    BY <1>2, ClosingType DEF Quit, ExitRequested, Exit
  <1>3. ASSUME NEW c \in Closers, CloseMarks(c) \/ CloseCleans(c) PROVE ShellTypeOK'
    <2>1. CASE CloseMarks(c)
      BY <2>1, ClosingType DEF CloseMarks
    <2>2. CASE CloseCleans(c)
      BY <2>2, ClosingType DEF CloseCleans
    <2> QED BY <1>3, <2>1, <2>2
  <1>4. ASSUME NEW c \in Closers, CloseTerms(c) PROVE ShellTypeOK'
    BY <1>4 DEF CloseTerms, Spawning
  <1>5. ASSUME NEW c \in Closers, CloseKills(c) PROVE ShellTypeOK'
    <2>1. closing[c].pid \in Pids \cup {0}
      OBVIOUS
    <2>2. /\ proc' \in [Pids -> {"unused", "starting", "serving", "ending", "dead"}]
          /\ turns' \subseteq Turns
      BY <1>5, <2>1, ForceKillType DEF CloseKills
    <2> QED BY <1>5, <2>2 DEF CloseKills
  <1> QED BY <1>1, <1>2, <1>3, <1>4, <1>5 DEF Close

LEMMA UpdateTypes ==
  ASSUME ShellTypeOK, NEW c \in Callers, Update(c)
  PROVE  ShellTypeOK'
  <1> USE DEF ShellTypeOK, heartbeat, sidecar, atomics, supervisor, main, updater, bounds, Closers
  <1>0. EndUpdate(c) => /\ update' \in [Callers -> {"idle", "downloading", "closing",
                                                  "relaunching", "exit"}]
                        /\ updating' \in BOOLEAN
    BY DEF EndUpdate
  <1>1. CASE UpdateBegins(c)
    <2>1. updates' \in 0..MaxUpdates
      BY <1>1, ShellAssumption DEF UpdateBegins
    <2> QED BY <1>1, <2>1 DEF UpdateBegins
  <1>2. CASE DownloadFails(c)
    BY <1>0, <1>2 DEF DownloadFails
  <1>3. CASE Downloaded(c)
    BY <1>3, ClosingType DEF Downloaded
  <1>4. CASE InstallFails(c) \/ RelaunchFails(c)
    BY <1>0, <1>4 DEF InstallFails, RelaunchFails
  <1>5. CASE Installed(c)
    BY <1>5 DEF Installed
  <1>6. CASE Relaunched(c)
    BY <1>6, ClosingType DEF Relaunched
  <1> QED BY <1>1, <1>2, <1>3, <1>4, <1>5, <1>6 DEF Update

LEMMA ShellNextType == ASSUME ShellTypeOK, HandsOK, [ShellNext]_shellVars PROVE ShellTypeOK'
  <1>1. CASE UNCHANGED shellVars
    BY <1>1 DEF ShellTypeOK, shellVars, heartbeat, sidecar, atomics, supervisor, main, updater, bounds
  <1> QED BY <1>1, SidecarTypes, SupervisorTypes, MainTypes, UpdateTypes DEF ShellNext

-----------------------------------------------------------------------------
(* The sidecar in the supervisor's hands.                                   *)

LEMMA ShellNextHands ==
  ASSUME ShellTypeOK, HandsOK, [ShellNext]_shellVars
  PROVE  HandsOK'
  <1>1. CASE UNCHANGED <<supervisor, boot, seen>>
    BY <1>1 DEF HandsOK, supervisor
  <1>2. CASE Supervise
    <2>0. UNCHANGED <<boot, seen>> /\ MaxFailures > 0 /\ failures \in Nat
      BY <1>2, ShellAssumption
         DEF Supervise, SupTop, SupReaps, WatchdogKills, WatchdogReaps, SupBacksOff,
         SupSpawns, SupSpawnFails, SupStoresPid, SupPolls, SupPollsInVain, main, ShellTypeOK
    <2>1. CASE SupTop \/ SupReaps \/ WatchdogKills \/ WatchdogReaps \/ SupBacksOff
      BY <2>0, <2>1, ShellAssumption
         DEF SupTop, SupReaps, WatchdogKills, WatchdogReaps, SupBacksOff, HandsOK
    <2>2. CASE SupSpawns
      BY <2>0, <2>2, ShellAssumption DEF SupSpawns, HandsOK
    <2>3. CASE SupSpawnFails
      <3>1. sup' # "gone" => failures' < MaxFailures
        BY <2>0, <2>3, ShellAssumption DEF SupSpawnFails
      <3> QED BY <2>0, <2>3, <3>1 DEF SupSpawnFails, HandsOK
    <2>4. CASE SupStoresPid \/ SupPolls \/ SupPollsInVain
      BY <2>0, <2>4 DEF SupStoresPid, SupPolls, SupPollsInVain, HandsOK
    <2> QED BY <1>2, <2>1, <2>2, <2>3, <2>4 DEF Supervise
  <1>3. CASE BootReads \/ BootAsks \/ BootGivesUp
    BY <1>3 DEF BootReads, BootAsks, BootGivesUp, HandsOK, supervisor
  <1>4. CASE \/ \E p \in Pids : SidecarServes(p) \/ SidecarCrashes(p) \/ SidecarEnds(p)
             \/ \E p \in Pids, t \in Turns : TurnBeats(p, t) \/ TurnEnds(p, t)
             \/ BeatAges
    BY <1>4, <1>1 DEF SidecarServes, SidecarCrashes, SidecarEnds, TurnBeats, TurnEnds,
       BeatAges, main
  <1>5. CASE Quit \/ Close \/ UNCHANGED shellVars
    BY <1>5, <1>1 DEF Quit, Close, CloseMarks, CloseTerms, CloseKills, CloseCleans,
       ExitRequested, Exit, shellVars, main
  <1>6. ASSUME NEW c \in Callers, Update(c) PROVE HandsOK'
    BY <1>6, <1>1 DEF Update, UpdateBegins, DownloadFails, Downloaded, InstallFails, Installed,
       RelaunchFails, Relaunched, main
  <1> QED BY <1>2, <1>3, <1>4, <1>5, <1>6 DEF ShellNext

\* Sidecars end, and the supervisor keeps or drops the one in its hands.
LEMMA StaysCurrent ==
  ASSUME ShellTypeOK, CurrentOK,
         \A p \in Pids : Alive(p)' => Alive(p) /\ Current' = Current,
         \A p \in Pids : proc'[p] = "unused" <=> proc[p] = "unused",
         Current' \in {Current, 0},
         \/ since' = since /\ (sup = "spawned" => sup' = "spawned" \/ Current' = 0)
         \/ since' = Current'
  PROVE  CurrentOK'
  <1> USE DEF CurrentOK
  <1>1. (\A p \in Pids : Alive(p) => p = Current)'
    OBVIOUS
  <1>2. (\A p, q \in Pids : proc[p] # "unused" /\ q < p => proc[q] # "unused")'
    OBVIOUS
  <1>3. ASSUME Current' # 0
        PROVE  /\ proc'[Current'] # "unused"
               /\ \A p \in Pids : proc'[p] # "unused" => p <= Current'
               /\ sup' # "spawned" => since' = Current'
    <2>1. Current' = Current /\ Current \in Pids
      BY <1>3 DEF Current, ShellTypeOK
    <2> QED BY <1>3, <2>1
  <1> QED BY <1>1, <1>2, <1>3

\* What is not the supervisor's doing: a sidecar comes up, ends or is killed.
LEMMA FatesKeepCurrent ==
  ASSUME ShellTypeOK, CurrentOK, UNCHANGED supervisor,
         \A p \in Pids : Alive(p)' => Alive(p),
         \A p \in Pids : proc'[p] = "unused" <=> proc[p] = "unused"
  PROVE  CurrentOK' /\ Current' = Current
  <1>1. Current' = Current /\ since' = since /\ sup' = sup
    BY DEF Current, supervisor
  <1> QED BY <1>1, StaysCurrent

\* A kill changes nothing else of a sidecar's.
LEMMA ForceKillEnds ==
  ASSUME ShellTypeOK, NEW p \in Pids \cup {0}, ForceKill(p)
  PROVE  /\ \A q \in Pids : Alive(q)' => Alive(q) /\ q # p
         /\ \A q \in Pids : proc'[q] = "unused" <=> proc[q] = "unused"
         /\ turns' # turns => Alive(p)
  BY DEF ShellTypeOK, ForceKill, Dead, Alive

\* Everybody but the supervisor: a sidecar, its turns, main, a shutdown, an update.
Others ==
  \/ \E p \in Pids : SidecarServes(p) \/ SidecarCrashes(p) \/ SidecarEnds(p)
  \/ \E p \in Pids, t \in Turns : TurnBeats(p, t) \/ TurnEnds(p, t)
  \/ BeatAges
  \/ BootReads \/ BootAsks \/ BootGivesUp
  \/ Quit \/ Close
  \/ \E c \in Callers : Update(c)
  \/ UNCHANGED shellVars

LEMMA OthersFates ==
  ASSUME ShellTypeOK, Others
  PROVE  /\ UNCHANGED supervisor
         /\ \A p \in Pids : Alive(p)' => Alive(p)
         /\ \A p \in Pids : proc'[p] = "unused" <=> proc[p] = "unused"
  <1> DEFINE Fates == /\ UNCHANGED supervisor
                      /\ \A p \in Pids : Alive(p)' => Alive(p)
                      /\ \A p \in Pids : proc'[p] = "unused" <=> proc[p] = "unused"
  <1>0. proc' = proc => /\ \A p \in Pids : Alive(p)' => Alive(p)
                        /\ \A p \in Pids : proc'[p] = "unused" <=> proc[p] = "unused"
    BY DEF Alive
  <1>1. ASSUME NEW p \in Pids, SidecarServes(p) \/ SidecarCrashes(p) \/ SidecarEnds(p)
        PROVE  Fates
    BY <1>1 DEF SidecarServes, SidecarCrashes, SidecarEnds, Dead, Alive, ShellTypeOK
  <1>2. CASE \/ \E p \in Pids, t \in Turns : TurnBeats(p, t) \/ TurnEnds(p, t)
             \/ BeatAges \/ BootReads \/ BootAsks \/ BootGivesUp \/ Quit
             \/ UNCHANGED shellVars
    <2>1. UNCHANGED supervisor /\ UNCHANGED proc
      BY <1>2 DEF TurnBeats, TurnEnds, BeatAges, BootReads, BootAsks, BootGivesUp, Quit,
         sidecar, shellVars
    <2> QED BY <1>0, <2>1
  <1>3. CASE \E c \in Callers : Update(c)
    <2>1. UNCHANGED supervisor /\ UNCHANGED proc
      BY <1>3 DEF Update, UpdateBegins, DownloadFails, Downloaded, InstallFails, Installed,
         RelaunchFails, Relaunched, sidecar
    <2> QED BY <1>0, <2>1
  <1>4. ASSUME NEW c \in Closers, CloseKills(c) PROVE Fates
    <2>1. closing[c].pid \in Pids \cup {0}
      BY DEF ShellTypeOK
    <2>2. ForceKill(closing[c].pid) \/ UNCHANGED proc
      BY <1>4 DEF CloseKills
    <2>3. UNCHANGED supervisor
      BY <1>4 DEF CloseKills
    <2> QED BY <1>0, <2>1, <2>2, <2>3, ForceKillEnds
  <1>5. ASSUME NEW c \in Closers, CloseTerms(c) PROVE Fates
    BY <1>5 DEF CloseTerms, Alive, ShellTypeOK
  <1>6. CASE \/ \E c \in Closers : CloseMarks(c) \/ CloseCleans(c)
             \/ ExitRequested \/ Exit
    <2>1. UNCHANGED supervisor /\ UNCHANGED proc
      BY <1>6 DEF CloseMarks, CloseCleans, ExitRequested, Exit, sidecar
    <2> QED BY <1>0, <2>1
  <1> QED BY <1>1, <1>2, <1>3, <1>4, <1>5, <1>6 DEF Others, Close

\* The supervisor: what it holds, and what it writes.
LEMMA SupervisorCurrent ==
  ASSUME ShellTypeOK, ShellTypeOK', HandsOK, CurrentOK, Supervise
  PROVE  CurrentOK'
  <1>0. \A p \in Pids : p # 0
    BY ShellAssumption
  <1>1. CASE SupTop
    <2>1. proc' = proc /\ since' = since /\ Current' = Current /\ sup # "spawned"
      BY <1>1 DEF SupTop, HandsOK, Current, sidecar
    <2> QED BY <2>1, StaysCurrent DEF Alive
  <1>2. CASE SupReaps
    <2>1. proc' = proc /\ since' = since /\ Current' = 0 /\ Current = held /\ sup # "spawned"
      BY <1>2 DEF SupReaps, HandsOK, Current, sidecar
    <2>2. \A p \in Pids : ~Alive(p)
      BY <1>2, <2>1 DEF SupReaps, CurrentOK, Alive
    <2> QED BY <2>1, <2>2, StaysCurrent DEF Alive
  <1>3. CASE WatchdogKills
    <2>1. since' = since /\ Current' = 0 /\ Current = held /\ sup # "spawned"
      BY <1>3 DEF WatchdogKills, HandsOK, Current
    <2>2. held \in Pids \cup {0} /\ ForceKill(held)
      BY <1>3 DEF WatchdogKills, ShellTypeOK
    <2>3. \A p \in Pids : ~Alive(p)'
      BY <2>1, <2>2, ForceKillEnds DEF CurrentOK
    <2>4. \A p \in Pids : proc'[p] = "unused" <=> proc[p] = "unused"
      BY <2>2, ForceKillEnds
    <2> QED BY <2>1, <2>3, <2>4, StaysCurrent
  <1>4. CASE WatchdogReaps \/ SupBacksOff \/ SupSpawnFails
    <2>1. proc' = proc /\ since' = since /\ Current' = 0 /\ Current = 0 /\ sup # "spawned"
      BY <1>4 DEF WatchdogReaps, SupBacksOff, SupSpawnFails, HandsOK, Current, sidecar
    <2> QED BY <2>1, StaysCurrent DEF Alive
  <1>5. CASE SupSpawns
    <2>1. PICK n \in Pids : Spawn(n) /\ held' = n
      BY <1>5 DEF SupSpawns
    <2>2. Current = 0 /\ Current' = n /\ sup' = "spawned"
      BY <1>5, <2>1 DEF SupSpawns, Current
    <2>3. \A p \in Pids : ~Alive(p)
      BY <1>0, <2>2 DEF CurrentOK
    <2>4. \A p \in Pids : proc'[p] = IF p = n THEN "starting" ELSE proc[p]
      BY <2>1 DEF Spawn, ShellTypeOK
    <2>5. \A p \in Pids : Alive(p)' => p = n
      BY <2>3, <2>4 DEF Alive
    <2>6. \A p \in Pids : proc[p] # "unused" => p < n
      <3> SUFFICES ASSUME NEW p \in Pids, proc[p] # "unused" PROVE p < n
        OBVIOUS
      <3>1. p \in Nat /\ n \in Nat /\ p # n
        BY <2>1, ShellAssumption DEF Spawn
      <3>2. ~(n < p)
        BY <2>1 DEF Spawn, CurrentOK
      <3> QED BY <3>1, <3>2
    <2>7. \A p, q \in Pids : proc'[p] # "unused" /\ q < p => proc'[q] # "unused"
      <3> SUFFICES ASSUME NEW p \in Pids, NEW q \in Pids, proc'[p] # "unused", q < p
                   PROVE  proc'[q] # "unused"
        OBVIOUS
      <3>1. CASE p = n
        <4>1. p \in Nat /\ q \in Nat /\ ~(n <= q)
          BY <3>1, ShellAssumption
        <4>2. proc[q] # "unused"
          BY <2>1, <4>1 DEF Spawn
        <4> QED BY <2>4, <4>2
      <3>2. CASE p # n
        BY <2>4, <3>2 DEF CurrentOK
      <3> QED BY <3>1, <3>2
    <2>8. proc'[n] # "unused" /\ \A p \in Pids : proc'[p] # "unused" => p <= n
      <3> SUFFICES ASSUME NEW p \in Pids, proc'[p] # "unused" PROVE p <= n
        BY <2>4
      <3>1. p \in Nat /\ n \in Nat
        BY ShellAssumption
      <3> QED BY <2>4, <2>6, <3>1
    <2> QED BY <2>2, <2>5, <2>7, <2>8 DEF CurrentOK
  <1>6. CASE SupStoresPid
    <2>1. proc' = proc /\ Current' = Current /\ since' = Current'
      BY <1>6 DEF SupStoresPid, Current, sidecar
    <2> QED BY <2>1, StaysCurrent DEF Alive
  <1>7. CASE SupPolls \/ SupPollsInVain
    <2>1. proc' = proc /\ Current' = Current /\ since' = since /\ sup # "spawned"
      BY <1>7 DEF SupPolls, SupPollsInVain, Current, sidecar
    <2> QED BY <2>1, StaysCurrent DEF Alive
  <1> QED BY <1>1, <1>2, <1>3, <1>4, <1>5, <1>6, <1>7 DEF Supervise

-----------------------------------------------------------------------------
(* The port and the heartbeat.                                              *)

LEMMA OthersPorts ==
  ASSUME ShellTypeOK, HandsOK, CurrentOK, PortsOK, Others
  PROVE  PortsOK'
  <1>0. Current' = Current /\ \A p \in Pids : p # 0
    BY OthersFates, ShellAssumption DEF Current, supervisor
  <1>1. \/ portFile' \in {portFile, 0}
        \/ \E p \in Pids : Alive(p) /\ portFile' = p
    BY DEF Others, SidecarServes, SidecarCrashes, SidecarEnds, TurnBeats, TurnEnds, BeatAges,
       BootReads, BootAsks, BootGivesUp, Quit, Close, CloseMarks, CloseTerms, CloseKills,
       CloseCleans, ExitRequested, Exit, Update, UpdateBegins, DownloadFails, Downloaded,
       InstallFails, Installed, RelaunchFails, Relaunched, sidecar, shellVars, Alive
  <1>2. Current # 0 => portFile' \in {0, Current}
    BY <1>1 DEF PortsOK, CurrentOK
  <1>3. CASE BootAsks
    <2>1. seen \in Pids /\ port' = seen
      BY <1>3 DEF BootAsks, HandsOK, ShellTypeOK
    <2>2. boot' = "done" => Alive(seen)
      BY <1>3 DEF BootAsks, Alive
    <2> QED BY <1>0, <1>2, <2>1, <2>2 DEF PortsOK, CurrentOK
  <1>4. CASE BootReads \/ BootGivesUp
    BY <1>0, <1>2, <1>4 DEF PortsOK, BootReads, BootGivesUp
  <1>5. CASE ~(BootReads \/ BootAsks \/ BootGivesUp)
    <2>1. UNCHANGED <<port, boot>>
      BY <1>5
      DEF Others, SidecarServes, SidecarCrashes, SidecarEnds, TurnBeats, TurnEnds, BeatAges,
       Quit, Close, CloseMarks, CloseTerms, CloseKills,
       CloseCleans, ExitRequested, Exit, Update, UpdateBegins, DownloadFails, Downloaded,
       InstallFails, Installed, RelaunchFails, Relaunched, shellVars, atomics, main
    <2> QED BY <1>0, <1>2, <2>1 DEF PortsOK
  <1> QED BY <1>3, <1>4, <1>5

LEMMA SupervisorPorts ==
  ASSUME ShellTypeOK, HandsOK, PortsOK, Supervise
  PROVE  PortsOK'
  <1> USE DEF PortsOK
  <1>1. CASE SupTop
    BY <1>1 DEF SupTop, HandsOK, Current, sidecar, main
  <1>2. CASE SupReaps \/ WatchdogKills \/ WatchdogReaps \/ SupBacksOff \/ SupSpawnFails
    <2>1. Current' = 0
      BY <1>2 DEF SupReaps, WatchdogKills, WatchdogReaps, SupBacksOff, SupSpawnFails,
         HandsOK, Current
    <2> QED BY <2>1
  <1>3. CASE SupSpawns
    BY <1>3 DEF SupSpawns
  <1>4. CASE SupStoresPid
    BY <1>4 DEF SupStoresPid, Current, sidecar, main
  <1>5. CASE SupPolls \/ SupPollsInVain
    BY <1>5 DEF SupPolls, SupPollsInVain, Current, sidecar, main
  <1> QED BY <1>1, <1>2, <1>3, <1>4, <1>5 DEF Supervise

LEMMA OthersBeat ==
  ASSUME ShellTypeOK, CurrentOK, ClosingOK, BeatOK, Others
  PROVE  BeatOK'
  <1> USE DEF heartbeat
  <1>0. /\ \A p \in Pids : Alive(p)' => Alive(p)
        /\ \A p \in Pids : proc'[p] = "unused" <=> proc[p] = "unused"
        /\ beatOf \in Pids \cup {0}
    BY OthersFates DEF ShellTypeOK
  <1>1. CASE UNCHANGED <<turns, beatOf, stray>> /\ (beat = "none" => beat' = "none")
    BY <1>0, <1>1 DEF BeatOK
  <1>2. ASSUME NEW p \in Pids, Dead(p), Alive(p), UNCHANGED heartbeat
        PROVE  BeatOK'
    <2>1. \A q \in Pids : ~Alive(q)'
      BY <1>0, <1>2 DEF Dead, Alive, CurrentOK, ShellTypeOK
    <2> QED BY <1>0, <1>2, <2>1 DEF BeatOK
  <1>3. ASSUME NEW p \in Pids, SidecarServes(p) \/ SidecarCrashes(p) \/ SidecarEnds(p)
        PROVE  BeatOK'
    BY <1>1, <1>2, <1>3 DEF SidecarServes, SidecarCrashes, SidecarEnds, Alive
  <1>4. ASSUME NEW p \in Pids, NEW t \in Turns, TurnBeats(p, t) \/ TurnEnds(p, t)
        PROVE  BeatOK'
    <2>1. CASE TurnBeats(p, t)
      BY <2>1 DEF TurnBeats, BeatOK
    <2>2. CASE TurnEnds(p, t)
      BY <2>2 DEF TurnEnds, RemoveBeat, BeatOK
    <2> QED BY <1>4, <2>1, <2>2
  <1>5. CASE BeatAges
    BY <1>1, <1>5 DEF BeatAges
  <1>6. ASSUME NEW c \in Closers, CloseKills(c) PROVE BeatOK'
    <2>1. closing[c].pid \in Pids /\ UNCHANGED heartbeat
      BY <1>6 DEF CloseKills, ShellTypeOK, ClosingOK
    <2>2. CASE ForceKill(closing[c].pid)
      <3>1. CASE turns' = turns
        BY <1>1, <2>1, <3>1
      <3>2. CASE turns' # turns
        <4>1. ASSUME NEW q \in Pids PROVE ~Alive(q)'
          BY <1>0, <2>1, <2>2, <3>2, ForceKillEnds DEF CurrentOK
        <4> QED BY <1>0, <2>1, <4>1 DEF BeatOK
      <3> QED BY <3>1, <3>2
    <2>3. CASE UNCHANGED turns
      BY <1>1, <2>1, <2>3
    <2> QED BY <1>6, <2>2, <2>3 DEF CloseKills
  <1>7. CASE \/ \E c \in Closers : CloseMarks(c) \/ CloseTerms(c) \/ CloseCleans(c)
             \/ ExitRequested \/ Exit \/ Quit
             \/ BootReads \/ BootAsks \/ BootGivesUp
             \/ \E c \in Callers : Update(c)
             \/ UNCHANGED shellVars
    <2>1. UNCHANGED <<turns, heartbeat>>
      BY <1>7 DEF CloseMarks, CloseTerms, CloseCleans, ExitRequested, Exit, Quit, BootReads,
         BootAsks, BootGivesUp, Update, UpdateBegins, DownloadFails, Downloaded, InstallFails,
         Installed, RelaunchFails, Relaunched, shellVars, sidecar
    <2> QED BY <1>1, <2>1
  <1> QED BY <1>3, <1>4, <1>5, <1>6, <1>7 DEF Others, Close

LEMMA SupervisorBeat ==
  ASSUME ShellTypeOK, CurrentOK, BeatOK, Supervise
  PROVE  BeatOK'
  <1> USE DEF heartbeat
  <1>0. beatOf \in Pids \cup {0}
    BY DEF ShellTypeOK
  <1>1. CASE SupTop \/ SupReaps \/ SupBacksOff \/ SupSpawnFails \/ SupStoresPid \/ SupPolls
             \/ SupPollsInVain
    BY <1>1 DEF SupTop, SupReaps, SupBacksOff, SupSpawnFails, SupStoresPid, SupPolls,
       SupPollsInVain, sidecar, BeatOK, Alive
  <1>2. CASE WatchdogKills
    <2>1. held \in Pids \cup {0} /\ ForceKill(held) /\ UNCHANGED heartbeat
      BY <1>2 DEF WatchdogKills, ShellTypeOK
    <2>2. Current = held
      BY <1>2 DEF WatchdogKills, Current
    <2>3. \A p \in Pids : ~Alive(p)'
      BY <2>1, <2>2, ForceKillEnds DEF CurrentOK
    <2> QED BY <1>0, <2>1, <2>3, ForceKillEnds DEF BeatOK
  <1>3. CASE WatchdogReaps
    BY <1>3 DEF WatchdogReaps, RemoveBeat, BeatOK
  <1>4. CASE SupSpawns
    <2>1. PICK n \in Pids : Spawn(n)
      BY <1>4 DEF SupSpawns
    <2>2. beatOf # 0 => beatOf # n /\ proc'[beatOf] = proc[beatOf]
      BY <1>0, <2>1 DEF Spawn, BeatOK, ShellTypeOK
    <2> QED BY <1>4, <2>2 DEF SupSpawns, BeatOK, Alive
  <1> QED BY <1>1, <1>2, <1>3, <1>4 DEF Supervise

-----------------------------------------------------------------------------
(* Shutdowns and the pid they kill.                                         *)

LEMMA ClosingKept ==
  ASSUME ClosingOK, UNCHANGED closing, shuttingDown => shuttingDown',
         Spawning' => Spawning \/ ~shuttingDown,
         \A p \in Pids : Alive(p)' => Alive(p) \/ Spawning
  PROVE  ClosingOK'
  BY DEF ClosingOK

LEMMA SupervisorCloses ==
  ASSUME ShellTypeOK, HandsOK, CurrentOK, PidOK, ClosingOK, Supervise
  PROVE  PidOK' /\ ClosingOK'
  <1>0. UNCHANGED <<closing, shuttingDown>>
    BY DEF Supervise, SupTop, SupReaps, WatchdogKills, WatchdogReaps, SupBacksOff,
       SupSpawns, SupSpawnFails, SupStoresPid, SupPolls, SupPollsInVain, atomics
  <1>1. CASE SupTop
    <2>1. proc' = proc /\ sup # "spawned" /\ ~Spawning' /\ childPid' \in {childPid, child}
      BY <1>1 DEF SupTop, sidecar, Spawning
    <2>2. Current = child
      BY <1>1 DEF SupTop, Current
    <2>3. child # 0 => childPid' = child \/ childPid' = childPid
      BY <1>1 DEF SupTop
    <2>4. PidOK'
      BY <1>1, <2>1, <2>2 DEF SupTop, PidOK, CurrentOK, Alive
    <2> QED BY <1>0, <2>1, <2>4, ClosingKept DEF Alive
  <1>2. CASE SupReaps
    <2>1. \A p \in Pids : ~Alive(p)'
      BY <1>2 DEF SupReaps, CurrentOK, Current, Alive, sidecar
    <2>2. ~Spawning'
      BY <1>2 DEF SupReaps, Spawning
    <2> QED BY <1>0, <2>1, <2>2, ClosingKept DEF PidOK
  <1>3. CASE WatchdogKills
    <2>1. held \in Pids \cup {0} /\ ForceKill(held) /\ Current = held
      BY <1>3 DEF WatchdogKills, ShellTypeOK, Current
    <2>2. \A p \in Pids : ~Alive(p)'
      BY <2>1, ForceKillEnds DEF CurrentOK
    <2>3. ~Spawning'
      BY <1>3 DEF WatchdogKills, Spawning
    <2> QED BY <1>0, <2>2, <2>3, ClosingKept DEF PidOK
  <1>4. CASE WatchdogReaps \/ SupBacksOff \/ SupSpawnFails
    <2>1. \A p \in Pids : ~Alive(p)'
      <3>1. Current = 0 /\ proc' = proc
        BY <1>4 DEF WatchdogReaps, SupBacksOff, SupSpawnFails, Current, sidecar
      <3> QED BY <3>1, ShellAssumption DEF CurrentOK, Alive
    <2>2. Spawning' => ~shuttingDown
      BY <1>4 DEF WatchdogReaps, SupBacksOff, SupSpawnFails, Spawning
    <2> QED BY <1>0, <2>1, <2>2, ClosingKept DEF PidOK
  <1>5. CASE SupSpawns
    BY <1>0, <1>5, ClosingKept DEF SupSpawns, Spawning, PidOK
  <1>6. CASE SupStoresPid
    <2>1. proc' = proc /\ Current = held /\ childPid' = held /\ ~Spawning'
      BY <1>6 DEF SupStoresPid, Current, Spawning, sidecar
    <2> QED BY <1>0, <2>1, ClosingKept DEF PidOK, CurrentOK, Alive
  <1>7. CASE SupPolls \/ SupPollsInVain
    <2>1. UNCHANGED <<proc, childPid>> /\ sup # "spawned" /\ ~Spawning'
      BY <1>7 DEF SupPolls, SupPollsInVain, Spawning, sidecar
    <2> QED BY <1>0, <2>1, ClosingKept DEF PidOK, Alive
  <1> QED BY <1>1, <1>2, <1>3, <1>4, <1>5, <1>6, <1>7 DEF Supervise

LEMMA OthersClose ==
  ASSUME ShellTypeOK, PidOK, ClosingOK, Others
  PROVE  PidOK' /\ ClosingOK'
  <1>a. UNCHANGED childPid /\ (shuttingDown => shuttingDown')
    <2>1. CASE \/ \E p \in Pids : SidecarServes(p) \/ SidecarCrashes(p) \/ SidecarEnds(p)
               \/ \E p \in Pids, t \in Turns : TurnBeats(p, t) \/ TurnEnds(p, t)
               \/ BeatAges \/ BootReads \/ BootAsks \/ BootGivesUp \/ Quit
               \/ UNCHANGED shellVars
      BY <2>1 DEF SidecarServes, SidecarCrashes, SidecarEnds, TurnBeats, TurnEnds, BeatAges,
         BootReads, BootAsks, BootGivesUp, Quit, atomics, shellVars
    <2>2. CASE Close
      <3>1. ASSUME NEW c \in Closers, CloseMarks(c)
            PROVE  UNCHANGED childPid /\ shuttingDown'
        BY <3>1 DEF CloseMarks
      <3>2. ASSUME NEW c \in Closers, CloseTerms(c) \/ CloseKills(c) \/ CloseCleans(c)
            PROVE  UNCHANGED atomics
        BY <3>2 DEF CloseTerms, CloseKills, CloseCleans
      <3>3. ExitRequested \/ Exit => UNCHANGED atomics
        BY DEF ExitRequested, Exit
      <3> QED BY <2>2, <3>1, <3>2, <3>3 DEF Close, atomics
    <2>3. CASE \E c \in Callers : Update(c)
      BY <2>3 DEF Update, UpdateBegins, DownloadFails, Downloaded, InstallFails, Installed,
         RelaunchFails, Relaunched, atomics
    <2> QED BY <2>1, <2>2, <2>3 DEF Others
  <1>0. /\ \A p \in Pids : Alive(p)' => Alive(p)
        /\ UNCHANGED <<sup, childPid>> /\ Spawning' = Spawning
        /\ shuttingDown => shuttingDown'
    BY <1>a, OthersFates DEF supervisor, Spawning
  <1>1. PidOK'
    BY <1>0 DEF PidOK
  <1>2. CASE UNCHANGED closing
    BY <1>0, <1>1, <1>2, ClosingKept
  <1>3. ASSUME NEW c \in Closers, NEW step \in {"mark", "term"},
               closing' = [closing EXCEPT ![c].at = step], step = "term" => shuttingDown'
        PROVE  ClosingOK'
    BY <1>0, <1>3 DEF ClosingOK, ShellTypeOK
  <1>4. ASSUME NEW c \in Closers, CloseTerms(c) PROVE ClosingOK'
    <2>1. closing' = [closing EXCEPT ![c] = [at |-> IF childPid = 0 THEN "clean" ELSE "kill",
                                            pid |-> childPid, sure |-> ~Spawning]]
      BY <1>4 DEF CloseTerms
    <2>2. shuttingDown' /\ UNCHANGED childPid
      BY <1>0, <1>4 DEF CloseTerms, ClosingOK
    <2>3. ~Spawning => \A p \in Pids : Alive(p)' => p = childPid
      BY <1>0 DEF PidOK, Spawning
    <2>4. \A p \in Pids : p # 0
      BY ShellAssumption
    <2> QED BY <1>0, <2>1, <2>2, <2>3, <2>4 DEF ClosingOK, ShellTypeOK
  <1>5. ASSUME NEW c \in Closers, CloseKills(c) PROVE ClosingOK'
    BY <1>0, <1>5 DEF CloseKills, ClosingOK, ShellTypeOK, PidOK, Spawning
  <1>6. ASSUME NEW c \in Closers, CloseCleans(c) PROVE ClosingOK'
    BY <1>0, <1>6 DEF CloseCleans, ClosingOK, ShellTypeOK
  <1>7. ASSUME NEW c \in Closers, CloseMarks(c) PROVE ClosingOK'
    BY <1>3, <1>7 DEF CloseMarks
  <1>8. CASE Quit \/ ExitRequested \/ \E c \in Callers : Update(c)
    BY <1>1, <1>2, <1>3, <1>8 DEF Quit, ExitRequested, Update, UpdateBegins, DownloadFails, Downloaded,
       InstallFails, Installed, RelaunchFails, Relaunched, Closers
  <1>9. CASE \/ \E p \in Pids : SidecarServes(p) \/ SidecarCrashes(p) \/ SidecarEnds(p)
             \/ \E p \in Pids, t \in Turns : TurnBeats(p, t) \/ TurnEnds(p, t)
             \/ BeatAges \/ BootReads \/ BootAsks \/ BootGivesUp \/ Exit
             \/ UNCHANGED shellVars
    BY <1>2, <1>9 DEF SidecarServes, SidecarCrashes, SidecarEnds, TurnBeats, TurnEnds, BeatAges,
       BootReads, BootAsks, BootGivesUp, Exit, shellVars
  <1> QED BY <1>1, <1>4, <1>5, <1>6, <1>7, <1>8, <1>9 DEF Others, Close

-----------------------------------------------------------------------------
LEMMA ShellInductive == ShellSpec => []ShellInv
  <1>1. ShellInv /\ [ShellNext]_shellVars => ShellInv'
    <2> SUFFICES ASSUME ShellInv, [ShellNext]_shellVars PROVE ShellInv'
      OBVIOUS
    <2> USE DEF ShellInv
    <2>1. ShellTypeOK' /\ HandsOK'
      BY ShellNextType, ShellNextHands
    <2>2. Supervise \/ Others
      BY DEF ShellNext, Others
    <2>3. CASE Supervise
      BY <2>1, <2>3, SupervisorCurrent, SupervisorPorts, SupervisorBeat, SupervisorCloses
    <2>4. CASE Others
      BY <2>1, <2>4, OthersFates, FatesKeepCurrent, OthersPorts, OthersBeat, OthersClose
    <2> QED BY <2>2, <2>3, <2>4
  <1> QED BY <1>1, ShellInitially, PTL DEF ShellSpec

\* The shell's tasks, the sidecars and the updater keep their shape.
THEOREM ShellTypeCorrect == ShellSpec => []ShellTypeOK
  <1>1. ShellInv => ShellTypeOK
    BY DEF ShellInv
  <1> QED BY <1>1, ShellInductive, PTL

\* supervise_sidecar: a sidecar is spawned when every other is dead, whatever crashes, is
\* killed by the watchdog or by a shutdown, and whoever waits for whom.
THEOREM SidecarsNeverOverlap == ShellSpec => []OneSidecar
  <1>1. ShellInv => OneSidecar
    BY DEF ShellInv, CurrentOK, OneSidecar
  <1> QED BY <1>1, ShellInductive, PTL

\* await_serve_ready, in the supervisor and in main: after the boot wait, the published
\* port is not that of a sidecar that is gone.
THEOREM PortIsCurrent == ShellSpec => []PortTruth
  <1>1. ShellInv => PortTruth
    <2> SUFFICES ASSUME ShellInv, boot = "done", sup \in {"spawned", "readying", "watching"}
                 PROVE  port \in {0, held}
      BY DEF PortTruth
    <2>1. Current = held /\ held # 0
      BY DEF ShellInv, HandsOK, Current
    <2> QED BY <2>1 DEF ShellInv, PortsOK
  <1> QED BY <1>1, ShellInductive, PTL

\* shutdown_sidecar: it kills the sidecar that lives, and none comes after it, but for
\* one whose spawn the supervisor was about to make or to publish.
THEOREM ShutdownLeavesNone == ShellSpec => []ShutdownEndsIt
  <1>1. ShellInv => ShutdownEndsIt
    BY DEF ShellInv, ClosingOK, ShutdownEndsIt
  <1> QED BY <1>1, ShellInductive, PTL

\* heartbeat_says_stuck: a heartbeat that makes the watchdog kill a living sidecar is of
\* that sidecar, and of a turn that has not ended or whose heartbeat could not be removed.
THEOREM SparesTheIdle == ShellSpec => KillsOnlyStuck
  <1>1. ShellInv /\ [ShellNext]_shellVars
          => [sup = "watching" /\ sup' = "killing" /\ Alive(held) =>
                turns # {} \/ (stray /\ beatOf = held)]_shellVars
    <2> SUFFICES ASSUME ShellInv, [ShellNext]_shellVars,
                        sup = "watching", sup' = "killing", Alive(held)
                 PROVE  turns # {} \/ (stray /\ beatOf = held)
      OBVIOUS
    <2> USE DEF ShellInv
    <2>1. WatchdogKills
      <3>1. ~Others
        BY OthersFates DEF supervisor
      <3>2. Supervise
        BY <3>1 DEF ShellNext, Others
      <3> QED BY <3>2 DEF Supervise, SupTop, SupReaps, WatchdogReaps, SupBacksOff, SupSpawns,
           SupSpawnFails, SupStoresPid, SupPolls, SupPollsInVain
    <2>2. beat = "stale" /\ beatOf >= since
      BY <2>1 DEF WatchdogKills, SaysStuck
    <2>3. Current = held /\ held # 0 /\ held \in Pids
      BY DEF Current, HandsOK, ShellTypeOK
    <2>4. since = held
      BY <2>3 DEF CurrentOK
    <2>5. beatOf # 0 /\ beatOf \in Pids /\ beatOf \in Nat /\ held \in Nat
      BY <2>2, <2>3, <2>4, ShellAssumption DEF ShellTypeOK
    <2>6. beatOf <= held
      BY <2>3, <2>5 DEF BeatOK, CurrentOK
    <2>7. beatOf = held
      BY <2>2, <2>4, <2>5, <2>6
    <2> QED BY <2>2, <2>5, <2>7 DEF BeatOK
  <1> QED BY <1>1, ShellInductive, PTL DEF ShellSpec, KillsOnlyStuck

-----------------------------------------------------------------------------
(* The journal of update notices (UpdateNotice).                            *)

Instance == [at : {"off", "running", "temp", "remove", "rename", "prune"}, ver : Versions \cup {0},
             notice : Notices \cup {NoNotice}, target : 0..1, next : States]

\* A notice in an instance's hands is claimed, was not handed out, and is in no other's.
Held ==
  /\ \A n \in Notices : shown[n] = 0 \/ (shown[n] = 1 /\ n \in claims)
  /\ \A i \in Instances : inst[i].notice # NoNotice =>
       inst[i].notice \in claims /\ shown[inst[i].notice] = 0
  /\ \A i, j \in Instances : i # j /\ inst[i].notice # NoNotice => inst[i].notice # inst[j].notice

\* An instance alone commits a newer state beside the current one, which it only lets go
\* of a notice that is claimed or by another version.
Beside(i) ==
  inst[i].at \in {"temp", "remove", "rename"} =>
    /\ inst[i].next.kind = "valid"
    /\ Readable =>
         /\ inst[i].target # Best /\ slots[Best].gen < inst[i].next.gen
         /\ \/ inst[i].next.last # slots[Best].last
            \/ slots[Best].pending \in claims \union {NoNotice}
Alone ==
  ~spoilt =>
    /\ \A i, j \in Instances : inst[i].at # "off" /\ inst[j].at # "off" => i = j
    /\ \A i \in Instances : Beside(i)

-----------------------------------------------------------------------------
\* The slot of the highest generation, for any two slots.
BestIn(sl) ==
  CHOOSE s \in 0..1 :
    /\ sl[s].kind = "valid"
    /\ \A t \in 0..1 : sl[t].kind = "valid" =>
         \/ sl[t].gen < sl[s].gen
         \/ sl[t].gen = sl[s].gen /\ s <= t

LEMMA BestIsIn == Best = BestIn(slots) /\ Best' = BestIn(slots')
  BY DEF Best, BestIn, Valid

LEMMA StateParts ==
  ASSUME NEW st \in States, st.kind = "valid"
  PROVE  /\ st.gen \in Nat /\ st.gen \in 1..(MaxGeneration - 1)
         /\ st.last \in Versions /\ st.pending \in Notices \cup {NoNotice}
  BY NoticeAssumption DEF States, Missing, Malformed

LEMMA BestExists ==
  ASSUME NEW sl \in [0..1 -> States], NEW r \in 0..1, sl[r].kind = "valid"
  PROVE  BestIn(sl) \in 0..1 /\ sl[BestIn(sl)].kind = "valid"
  <1>0. ASSUME NEW s \in 0..1, sl[s].kind = "valid" PROVE sl[s].gen \in Nat
    BY <1>0, StateParts
  <1>1. \E s \in 0..1 :
          /\ sl[s].kind = "valid"
          /\ \A t \in 0..1 : sl[t].kind = "valid" =>
               \/ sl[t].gen < sl[s].gen
               \/ sl[t].gen = sl[s].gen /\ s <= t
    <2>1. 0..1 = {0, 1}
      OBVIOUS
    <2>2. CASE sl[0].kind = "valid" /\ (sl[1].kind = "valid" => sl[1].gen <= sl[0].gen)
      BY <1>0, <2>1, <2>2
    <2>3. CASE sl[1].kind = "valid" /\ ~(sl[0].kind = "valid" /\ sl[1].gen <= sl[0].gen)
      BY <1>0, <2>1, <2>3
    <2>4. sl[0].kind = "valid" \/ sl[1].kind = "valid"
      BY <2>1
    <2> QED BY <2>2, <2>3, <2>4
  <1> QED BY <1>1 DEF BestIn

\* A newer state, or the only one, is the best one.
LEMMA BestIsTheNewer ==
  ASSUME NEW sl \in [0..1 -> States], NEW r \in 0..1, sl[r].kind = "valid",
         sl[1 - r].kind = "valid" => sl[1 - r].gen < sl[r].gen
  PROVE  BestIn(sl) = r
  <1>0. ASSUME NEW s \in 0..1, sl[s].kind = "valid" PROVE sl[s].gen \in Nat
    BY <1>0, StateParts
  <1>1. 1 - r \in 0..1 /\ \A t \in 0..1 : t = r \/ t = 1 - r
    OBVIOUS
  <1> DEFINE P(s) == /\ sl[s].kind = "valid"
                     /\ \A t \in 0..1 : sl[t].kind = "valid" =>
                          \/ sl[t].gen < sl[s].gen
                          \/ sl[t].gen = sl[s].gen /\ s <= t
  <1>2. P(r)
    BY <1>0, <1>1
  <1>3. ASSUME NEW s \in 0..1, P(s) PROVE s = r
    BY <1>0, <1>1, <1>3
  <1>4. BestIn(sl) = CHOOSE s \in 0..1 : P(s)
    BY DEF BestIn
  <1> HIDE DEF P
  <1> QED BY <1>2, <1>3, <1>4

LEMMA BestIsValid ==
  ASSUME TypeOK, Readable
  PROVE  Best \in 0..1 /\ Valid(Best) /\ slots[Best] \in States
  BY BestExists, BestIsIn DEF TypeOK, Readable, Valid

-----------------------------------------------------------------------------
LEMMA InitInv == Init => TypeOK /\ Held /\ Alone
  <1> SUFFICES ASSUME Init PROVE TypeOK /\ Held /\ Alone
    OBVIOUS
  <1>1. Missing \in States
    BY DEF States
  <1>2. Off.at = "off" /\ Off.notice = NoNotice /\ Off \in Instance
    BY <1>1 DEF Off, Instance
  <1>3. TypeOK
    BY <1>1, <1>2 DEF Init, TypeOK, Instance
  <1>4. Held
    BY <1>2 DEF Init, Held
  <1>5. Alone
    BY <1>2 DEF Init, Alone, Beside
  <1> QED BY <1>3, <1>4, <1>5

\* The states a launch or a take is about to commit.
LEMMA NewStates ==
  ASSUME NEW v \in Versions
  PROVE  /\ \A legacy \in BOOLEAN : First(v, legacy) \in States /\ First(v, legacy).kind = "valid"
         /\ \A cur \in States : cur.kind = "valid" /\ ~Exhausted(cur.gen) =>
              /\ Cleared(cur) \in States /\ Cleared(cur).kind = "valid"
              /\ Cleared(cur).gen = cur.gen + 1 /\ Cleared(cur).last = cur.last
              /\ Advanced(cur, v) \in States /\ Advanced(cur, v).kind = "valid"
              /\ Advanced(cur, v).gen = cur.gen + 1 /\ Advanced(cur, v).last = v
  <1> USE NoticeAssumption
  <1>0. ASSUME NEW g \in 1..(MaxGeneration - 1), NEW l \in Versions,
               NEW n \in Notices \cup {NoNotice}
        PROVE  /\ State(g, l, n) \in States /\ State(g, l, n).kind = "valid"
               /\ State(g, l, n).gen = g /\ State(g, l, n).last = l
    BY DEF State, States
  <1>1. ASSUME NEW legacy \in BOOLEAN
        PROVE  First(v, legacy) \in States /\ First(v, legacy).kind = "valid"
    <2>1. 1 \in 1..(MaxGeneration - 1)
      OBVIOUS
    <2>2. [from |-> 0, to |-> v] \in Notices
      BY DEF Notices
    <2> QED BY <1>0, <2>1, <2>2 DEF First
  <1>2. ASSUME NEW cur \in States, cur.kind = "valid", ~Exhausted(cur.gen)
        PROVE  /\ Cleared(cur) \in States /\ Cleared(cur).kind = "valid"
               /\ Cleared(cur).gen = cur.gen + 1 /\ Cleared(cur).last = cur.last
               /\ Advanced(cur, v) \in States /\ Advanced(cur, v).kind = "valid"
               /\ Advanced(cur, v).gen = cur.gen + 1 /\ Advanced(cur, v).last = v
    <2>1. cur.gen \in Nat /\ cur.last \in Versions
      BY <1>2, StateParts
    <2>2. cur.gen + 1 \in 1..(MaxGeneration - 1)
      BY <1>2, <2>1 DEF Exhausted
    <2>3. [from |-> cur.last, to |-> v] \in Notices
      BY <2>1 DEF Notices
    <2>4. Cleared(cur) = State(cur.gen + 1, cur.last, NoNotice)
      BY DEF Cleared
    <2>5. PICK n \in Notices \cup {NoNotice} : Advanced(cur, v) = State(cur.gen + 1, v, n)
      BY <2>3 DEF Advanced
    <2>6. Cleared(cur) \in States /\ Cleared(cur).kind = "valid"
          /\ Cleared(cur).gen = cur.gen + 1 /\ Cleared(cur).last = cur.last
      <3>1. NoNotice \in Notices \cup {NoNotice}
        OBVIOUS
      <3> HIDE DEF NoNotice
      <3> QED BY ONLY <1>0, <2>1, <2>2, <2>4, <3>1
    <2>7. Advanced(cur, v) \in States /\ Advanced(cur, v).kind = "valid"
          /\ Advanced(cur, v).gen = cur.gen + 1 /\ Advanced(cur, v).last = v
      BY <1>0, <2>2, <2>5
    <2> QED BY <2>6, <2>7
  <1> QED BY <1>1, <1>2

-----------------------------------------------------------------------------
\* An instance that runs has no notice in its hands.
LEMMA RunningInstance ==
  ASSUME NEW v \in Versions \cup {0}
  PROVE  Running(v) \in Instance /\ Running(v).at = "running" /\ Running(v).notice = NoNotice
  <1>1. Off \in Instance /\ Off.notice = NoNotice
    BY DEF Off, Instance, States
  <1>2. Running(v) = [Off EXCEPT !.at = "running", !.ver = v]
    BY DEF Running
  <1> HIDE DEF Off
  <1>3. Running(v) \in Instance
    BY <1>1, <1>2 DEF Instance
  <1>4. Running(v).at = "running" /\ Running(v).notice = Off.notice
    BY <1>1, <1>2 DEF Instance
  <1> QED BY <1>1, <1>3, <1>4

\* An instance that runs, or writes a state for one of the slots.
LEMMA NewInstances ==
  ASSUME NEW v \in Versions
  PROVE  /\ Running(v) \in Instance /\ Running(v).at = "running" /\ Running(v).notice = NoNotice
         /\ \A n \in Notices \cup {NoNotice}, s \in 0..1, st \in States :
              /\ Writing(v, n, s, st) \in Instance /\ Writing(v, n, s, st).at = "temp"
              /\ Writing(v, n, s, st).notice = n /\ Writing(v, n, s, st).target = s
              /\ Writing(v, n, s, st).next = st
  <1>0. Missing \in States /\ v \in Versions \cup {0}
    BY DEF States
  <1>2. Running(v) \in Instance /\ Running(v).at = "running" /\ Running(v).notice = NoNotice
    BY RunningInstance
  <1>3. ASSUME NEW n \in Notices \cup {NoNotice}, NEW s \in 0..1, NEW st \in States
        PROVE  /\ Writing(v, n, s, st) \in Instance /\ Writing(v, n, s, st).at = "temp"
               /\ Writing(v, n, s, st).notice = n /\ Writing(v, n, s, st).target = s
               /\ Writing(v, n, s, st).next = st
    BY <1>0 DEF Writing, Instance
  <1> QED BY <1>2, <1>3

\* What a launch makes of an instance: it is running, or writes a state that goes beside
\* the current one.
LEMMA Launched ==
  ASSUME TypeOK, NEW i \in Instances, NEW v \in Versions, Launch(i, v)
  PROVE  \E r \in Instance :
           /\ inst' = [inst EXCEPT ![i] = r] /\ r.notice = NoNotice /\ r.at \in {"running", "temp"}
           /\ r.at = "temp" => /\ r.next.kind = "valid"
                               /\ Readable => /\ r.target # Best /\ slots[Best].gen < r.next.gen
                                              /\ \/ r.next.last # slots[Best].last
                                                 \/ slots[Best].pending \in claims \union {NoNotice}
  <1> DEFINE cur == slots[Best]
  <1>1. PICK legacy \in BOOLEAN :
          inst' = [inst EXCEPT ![i] =
            IF ~Readable THEN Writing(v, NoNotice, 0, First(v, legacy))
            ELSE IF NothingToPrepare(cur, v) \/ Exhausted(cur.gen) THEN Running(v)
            ELSE Writing(v, NoNotice, Inactive(Best),
                         IF cur.last = v THEN Cleared(cur) ELSE Advanced(cur, v))]
    BY DEF Launch
  <1>2. CASE ~Readable
    <2> DEFINE r == Writing(v, NoNotice, 0, First(v, legacy))
    <2>1. inst' = [inst EXCEPT ![i] = r]
      BY <1>1, <1>2
    <2>2. r \in Instance /\ r.notice = NoNotice /\ r.at = "temp" /\ r.next = First(v, legacy)
      BY NewInstances, NewStates
    <2>3. r.next.kind = "valid"
      BY <2>2, NewStates
    <2> HIDE DEF r
    <2> QED BY <1>2, <2>1, <2>2, <2>3
  <1>3. CASE Readable /\ (NothingToPrepare(cur, v) \/ Exhausted(cur.gen))
    BY <1>1, <1>3, NewInstances
  <1>4. CASE Readable /\ ~NothingToPrepare(cur, v) /\ ~Exhausted(cur.gen)
    <2> DEFINE st == IF cur.last = v THEN Cleared(cur) ELSE Advanced(cur, v)
               r == Writing(v, NoNotice, Inactive(Best), st)
    <2>1. cur \in States /\ cur.kind = "valid" /\ Best \in 0..1 /\ cur.gen \in Nat
      BY <1>4, BestIsValid, StateParts DEF Valid
    <2>2. /\ st \in States /\ st.kind = "valid" /\ st.gen = cur.gen + 1
          /\ st.last # cur.last \/ cur.pending \in claims \union {NoNotice}
      BY <1>4, <2>1, NewStates DEF NothingToPrepare
    <2>3. Inactive(Best) \in 0..1 /\ Inactive(Best) # Best
      BY <2>1 DEF Inactive
    <2>4. inst' = [inst EXCEPT ![i] = r]
      BY <1>1, <1>4
    <2> HIDE DEF st
    <2>5. r \in Instance /\ r.notice = NoNotice /\ r.at = "temp" /\ r.next = st
          /\ r.target = Inactive(Best)
      BY <2>2, <2>3, NewInstances
    <2> HIDE DEF r
    <2>6. cur.gen < r.next.gen
      BY <2>1, <2>2, <2>5
    <2> QED BY <2>2, <2>3, <2>4, <2>5, <2>6
  <1> QED BY <1>2, <1>3, <1>4

\* What a take makes of an instance: it stays as it is, or writes the cleared state.
LEMMA Taken ==
  ASSUME TypeOK, NEW i \in Instances, Take(i)
  PROVE  /\ slots[Best].pending \in Notices /\ slots[Best].pending \notin claims
         /\ claims' = claims \union {slots[Best].pending}
         /\ \/ UNCHANGED inst
            \/ \E r \in Instance :
                 /\ inst' = [inst EXCEPT ![i] = r] /\ r.at = "temp" /\ r.notice = slots[Best].pending
                 /\ r.next.kind = "valid" /\ r.target # Best /\ slots[Best].gen < r.next.gen
  <1> DEFINE cur == slots[Best]
             v == inst[i].ver
             r == Writing(v, cur.pending, Inactive(Best), Cleared(cur))
  <1>1. /\ cur.pending # NoNotice /\ cur.pending.to = v /\ cur.pending \notin claims /\ Readable
        /\ claims' = claims \cup {cur.pending}
        /\ inst' = [inst EXCEPT ![i] = IF Exhausted(cur.gen) THEN inst[i] ELSE r]
    BY DEF Take
  <1>2. cur \in States /\ cur.kind = "valid" /\ Best \in 0..1 /\ cur.gen \in Nat
    BY <1>1, BestIsValid, StateParts DEF Valid
  <1>3. cur.pending \in Notices
    BY <1>1, <1>2, StateParts
  <1>4. v \in Versions
    BY <1>1, <1>3 DEF Notices
  <1>5. CASE Exhausted(cur.gen)
    <2>1. inst' = inst
      BY <1>1, <1>5 DEF TypeOK
    <2> QED BY <1>1, <1>3, <2>1
  <1>6. CASE ~Exhausted(cur.gen)
    <2>1. Inactive(Best) \in 0..1 /\ Inactive(Best) # Best
      BY <1>2 DEF Inactive
    <2>2. Cleared(cur) \in States /\ Cleared(cur).kind = "valid" /\ Cleared(cur).gen = cur.gen + 1
      BY <1>2, <1>4, <1>6, NewStates
    <2>3. inst' = [inst EXCEPT ![i] = r]
      BY <1>1, <1>6
    <2> HIDE DEF v
    <2>4. r \in Instance /\ r.at = "temp" /\ r.notice = cur.pending
          /\ r.next = Cleared(cur) /\ r.target = Inactive(Best)
      BY <1>3, <1>4, <2>1, <2>2, NewInstances
    <2>5. cur.gen < r.next.gen
      BY <1>2, <2>2, <2>4
    <2> HIDE DEF r
    <2> QED BY <1>1, <1>3, <2>1, <2>2, <2>3, <2>4, <2>5
  <1> QED BY <1>5, <1>6

\* The later steps of a commit, and a stop, move one instance on.
Moved(i, at) == inst' = [inst EXCEPT ![i] = [inst[i] EXCEPT !.at = at]]
Reset(i) == \E r \in Instance : /\ inst' = [inst EXCEPT ![i] = r]
                                /\ r.at \in {"off", "running"} /\ r.notice = NoNotice

LEMMA CommitMoves ==
  ASSUME TypeOK, NEW i \in Instances
  PROVE  /\ CommitTemp(i) => Moved(i, "remove")
         /\ CommitRemove(i) => Moved(i, "rename")
         /\ CommitRename(i) => Moved(i, "prune")
         /\ CommitPrune(i) \/ CommitFails(i) \/ Stop(i) => Reset(i)
  <1>1. inst[i] \in Instance
    BY DEF TypeOK, Instance
  <1>2. Off \in Instance /\ Off.at = "off" /\ Off.notice = NoNotice
    BY DEF Off, Instance, States
  <1>3. Running(inst[i].ver) \in Instance /\ Running(inst[i].ver).at = "running"
        /\ Running(inst[i].ver).notice = NoNotice
    <2>1. inst[i].ver \in Versions \cup {0}
      BY <1>1 DEF Instance
    <2> QED BY <2>1, RunningInstance
  <1>4. CommitTemp(i) => Moved(i, "remove")
    BY <1>1 DEF CommitTemp, Moved, Instance
  <1>5. CommitRemove(i) => Moved(i, "rename")
    BY <1>1 DEF CommitRemove, Moved, Instance
  <1>6. CommitRename(i) => Moved(i, "prune")
    BY <1>1 DEF CommitRename, Moved, Instance
  <1>7. CommitPrune(i) \/ CommitFails(i) => Reset(i)
    BY <1>3 DEF CommitPrune, CommitFails, Reset
  <1>8. Stop(i) => Reset(i)
    BY <1>2 DEF Stop, Reset
  <1> QED BY <1>4, <1>5, <1>6, <1>7, <1>8

-----------------------------------------------------------------------------
LEMMA MovedType ==
  ASSUME TypeOK, NEW i \in Instances,
         \/ \E at \in {"remove", "rename", "prune"} : Moved(i, at)
         \/ Reset(i)
  PROVE  inst' \in [Instances -> Instance]
  <1>1. inst \in [Instances -> Instance]
    BY DEF TypeOK, Instance
  <1>2. ASSUME NEW at \in {"remove", "rename", "prune"}, Moved(i, at)
        PROVE  inst' \in [Instances -> Instance]
    <2>1. [inst[i] EXCEPT !.at = at] \in Instance
      BY <1>1 DEF Instance
    <2> QED BY <1>1, <1>2, <2>1 DEF Moved
  <1>3. ASSUME Reset(i) PROVE inst' \in [Instances -> Instance]
    BY <1>1, <1>3 DEF Reset
  <1> QED BY <1>2, <1>3

LEMMA NextType == ASSUME TypeOK, Held, [Next]_vars PROVE TypeOK'
  <1>0. TypeOK <=> /\ slots \in [0..1 -> States] /\ claims \subseteq Notices /\ temps \subseteq Instances
                   /\ inst \in [Instances -> Instance] /\ shown \in [Notices -> Nat]
                   /\ spoilt \in BOOLEAN
    BY DEF TypeOK, Instance
  <1>00. TypeOK' <=> /\ slots' \in [0..1 -> States] /\ claims' \subseteq Notices
                     /\ temps' \subseteq Instances /\ inst' \in [Instances -> Instance]
                     /\ shown' \in [Notices -> Nat] /\ spoilt' \in BOOLEAN
    BY DEF TypeOK, Instance
  <1>1. ASSUME NEW i \in Instances, NEW v \in Versions, Launch(i, v) PROVE TypeOK'
    <2>1. inst' \in [Instances -> Instance]
      BY <1>0, <1>1, Launched
    <2>2. spoilt' \in BOOLEAN /\ UNCHANGED <<slots, claims, temps, shown>>
      BY <1>0, <1>1 DEF Launch
    <2> QED BY <1>0, <1>00, <2>1, <2>2
  <1>2. ASSUME NEW i \in Instances, Take(i) PROVE TypeOK'
    <2>1. inst' \in [Instances -> Instance] /\ claims' \subseteq Notices
      BY <1>0, <1>2, Taken
    <2>2. UNCHANGED <<slots, temps, shown, spoilt>>
      BY <1>2 DEF Take
    <2> QED BY <1>0, <1>00, <2>1, <2>2
  <1>3. ASSUME NEW i \in Instances, Commit(i) \/ Stop(i) PROVE TypeOK'
    <2>1. inst[i] \in Instance
      BY <1>0
    <2>2. inst' \in [Instances -> Instance]
      BY <1>3, CommitMoves, MovedType DEF Commit
    <2>3. slots' \in [0..1 -> States]
      <3>1. inst[i].target \in 0..1 /\ inst[i].next \in States /\ Missing \in States
        BY <2>1 DEF Instance, States
      <3>2. \/ UNCHANGED slots
            \/ slots' = [slots EXCEPT ![inst[i].target] = Missing]
            \/ slots' = [slots EXCEPT ![inst[i].target] = inst[i].next]
        BY <1>3 DEF Commit, Stop, CommitTemp, CommitRemove, CommitRename, CommitPrune, CommitFails
      <3> QED BY <1>0, <3>1, <3>2
    <2>4. temps' \subseteq Instances /\ UNCHANGED <<claims, spoilt>>
      BY <1>0, <1>3 DEF Commit, Stop, CommitTemp, CommitRemove, CommitRename, CommitPrune, CommitFails
    <2>5. shown' \in [Notices -> Nat]
      <3>1. \/ UNCHANGED shown
            \/ shown' = [shown EXCEPT ![inst[i].notice] = @ + 1] /\ inst[i].notice # NoNotice
        BY <1>3 DEF Commit, Stop, CommitTemp, CommitRemove, CommitRename, CommitPrune, CommitFails
      <3>2. inst[i].notice # NoNotice => inst[i].notice \in Notices
        BY <1>0 DEF Held
      <3> QED BY <1>0, <3>1, <3>2
    <2> QED BY <1>0, <1>00, <2>2, <2>3, <2>4, <2>5
  <1>4. ASSUME NEW s \in 0..1, Damage(s) PROVE TypeOK'
    <2>1. slots' \in [0..1 -> States]
      BY <1>0, <1>4 DEF Damage, States
    <2> QED BY <1>0, <1>00, <1>4, <2>1 DEF Damage
  <1>5. CASE UNCHANGED vars
    BY <1>0, <1>00, <1>5 DEF vars
  <1> QED BY <1>1, <1>2, <1>3, <1>4, <1>5 DEF Next

-----------------------------------------------------------------------------
\* The claim decides who hands a notice out: creating the claim file fails if it exists.
LEMMA NextHeld == ASSUME TypeOK, Held, [Next]_vars PROVE Held'
  <1>0. inst \in [Instances -> Instance] /\ shown \in [Notices -> Nat] /\ claims \subseteq Notices
    BY DEF TypeOK, Instance
  <1>r. ASSUME NEW i \in Instances, NEW r \in Instance, inst' = [inst EXCEPT ![i] = r],
               r.notice \in {NoNotice, inst[i].notice}, UNCHANGED <<claims, shown>>
        PROVE  Held'
    <2>1. \A j \in Instances : inst'[j].notice \in {NoNotice, inst[j].notice}
      BY <1>0, <1>r
    <2> QED BY <1>r, <2>1 DEF Held
  <1>1. ASSUME NEW i \in Instances, NEW v \in Versions, Launch(i, v) PROVE Held'
    BY <1>1, <1>r, Launched DEF Launch
  <1>2. ASSUME NEW i \in Instances, Take(i) PROVE Held'
    <2> DEFINE n == slots[Best].pending
    <2>1. n \in Notices /\ n \notin claims /\ claims' = claims \union {n} /\ UNCHANGED shown
      BY <1>2, Taken DEF Take
    <2>2. shown[n] = 0 /\ \A j \in Instances : inst[j].notice # NoNotice => inst[j].notice # n
      BY <2>1 DEF Held
    <2>3. \A j \in Instances : inst'[j] = inst[j] \/ (j = i /\ inst'[j].notice = n)
      BY <1>0, <1>2, Taken
    <2>4. \A m \in Notices : shown'[m] = 0 \/ (shown'[m] = 1 /\ m \in claims')
      BY <2>1 DEF Held
    <2>5. \A j \in Instances : inst'[j].notice # NoNotice =>
            inst'[j].notice \in claims' /\ shown'[inst'[j].notice] = 0
      BY <2>1, <2>2, <2>3 DEF Held
    <2>6. \A j, k \in Instances : j # k /\ inst'[j].notice # NoNotice => inst'[j].notice # inst'[k].notice
      BY <2>1, <2>2, <2>3 DEF Held
    <2> QED BY <2>4, <2>5, <2>6 DEF Held
  <1>3. ASSUME NEW i \in Instances, CommitTemp(i) \/ CommitRemove(i) \/ CommitRename(i) PROVE Held'
    <2>1. PICK at \in {"remove", "rename", "prune"} : Moved(i, at)
      BY <1>3, CommitMoves
    <2>2. inst[i] \in Instance
      BY <1>0
    <2>3. [inst[i] EXCEPT !.at = at] \in Instance
          /\ [inst[i] EXCEPT !.at = at].notice = inst[i].notice
      BY <2>2 DEF Instance
    <2>4. UNCHANGED <<claims, shown>>
      BY <1>3 DEF CommitTemp, CommitRemove, CommitRename
    <2> QED BY <1>r, <2>1, <2>3, <2>4 DEF Moved
  <1>4. ASSUME NEW i \in Instances, CommitFails(i) \/ Stop(i) PROVE Held'
    <2>1. Reset(i)
      BY <1>4, CommitMoves
    <2> QED BY <1>4, <1>r, <2>1 DEF Reset, CommitFails, Stop
  <1>5. ASSUME NEW i \in Instances, CommitPrune(i) PROVE Held'
    <2>1. PICK r \in Instance : inst' = [inst EXCEPT ![i] = r] /\ r.notice = NoNotice
      BY <1>5, CommitMoves DEF Reset
    <2>2. CASE inst[i].notice = NoNotice
      BY <1>5, <1>r, <2>1, <2>2 DEF CommitPrune
    <2>3. CASE inst[i].notice # NoNotice
      <3>1. PICK n \in Notices : n = inst[i].notice /\ n \in claims /\ shown[n] = 0
        BY <1>0, <2>3 DEF Held
      <3>2. shown' = [shown EXCEPT ![n] = @ + 1] /\ UNCHANGED claims
        BY <1>5, <2>3, <3>1 DEF CommitPrune
      <3>3. shown'[n] = 1 /\ \A m \in Notices : m # n => shown'[m] = shown[m]
        BY <1>0, <3>1, <3>2
      <3>4. \A j \in Instances : inst'[j].notice # NoNotice => inst'[j] = inst[j] /\ inst[j].notice # n
        BY <1>0, <2>1, <2>3, <3>1 DEF Held
      <3>5. \A m \in Notices : shown'[m] = 0 \/ (shown'[m] = 1 /\ m \in claims')
        BY <3>1, <3>2, <3>3 DEF Held
      <3>6. \A j \in Instances : inst'[j].notice # NoNotice =>
              inst'[j].notice \in claims' /\ shown'[inst'[j].notice] = 0
        BY <1>0, <3>2, <3>3, <3>4 DEF Held
      <3>7. \A j, k \in Instances : j # k /\ inst'[j].notice # NoNotice => inst'[j].notice # inst'[k].notice
        <4>1. ASSUME NEW j \in Instances, NEW k \in Instances, j # k, inst'[j].notice # NoNotice,
                     inst'[j].notice = inst'[k].notice
              PROVE  FALSE
          <5>1. inst'[j] = inst[j] /\ inst'[k] = inst[k]
            BY <3>4, <4>1
          <5> QED BY <4>1, <5>1 DEF Held
        <4> QED BY <4>1
      <3> QED BY <3>5, <3>6, <3>7 DEF Held
    <2> QED BY <2>2, <2>3
  <1>6. ASSUME NEW s \in 0..1, Damage(s) PROVE Held'
    BY <1>6 DEF Damage, Held
  <1>7. CASE UNCHANGED vars
    BY <1>7 DEF vars, Held
  <1> QED BY <1>1, <1>2, <1>3, <1>4, <1>5, <1>6, <1>7 DEF Next, Commit

-----------------------------------------------------------------------------
\* Removing the slot beside the current one leaves the current one.
LEMMA RemoveKeepsBest ==
  ASSUME TypeOK, NEW i \in Instances, Beside(i), CommitRemove(i)
  PROVE  /\ Readable => Readable' /\ Best' = Best /\ slots'[Best] = slots[Best]
         /\ Readable' => Readable
  <1> DEFINE t == inst[i].target
  <1>1. /\ slots' = [slots EXCEPT ![t] = Missing] /\ t \in 0..1
        /\ slots \in [0..1 -> States] /\ Missing.kind # "valid" /\ Missing \in States
    BY DEF CommitRemove, TypeOK, Missing, States
  <1>2. Readable' => Readable
    BY <1>1 DEF Readable, Valid
  <1>3. ASSUME Readable PROVE Readable' /\ Best' = Best /\ slots'[Best] = slots[Best]
    <2>1. t # Best
      BY <1>3 DEF Beside, CommitRemove
    <2>2. PICK b \in 0..1 : b = Best /\ slots[b].kind = "valid"
      BY <1>3, BestIsValid DEF Valid
    <2>3. slots' \in [0..1 -> States] /\ slots'[b] = slots[b] /\ 1 - b = t
      BY <1>1, <2>1, <2>2
    <2>4. slots'[1 - b].kind # "valid"
      BY <1>1, <2>3
    <2>5. BestIn(slots') = b
      BY <2>2, <2>3, <2>4, BestIsTheNewer
    <2>6. Readable'
      BY <2>2, <2>3 DEF Readable, Valid
    <2> QED BY <2>2, <2>3, <2>5, <2>6, BestIsIn
  <1> QED BY <1>2, <1>3

\* The state a commit renames into place is the current one from then on.
LEMMA RenameMakesBest ==
  ASSUME TypeOK, NEW i \in Instances, Beside(i), CommitRename(i)
  PROVE  Readable' /\ slots'[Best'] = inst[i].next
  <1>1. PICK t \in 0..1 : t = inst[i].target
    BY DEF TypeOK
  <1>2. /\ slots' = [slots EXCEPT ![t] = inst[i].next] /\ slots \in [0..1 -> States]
        /\ inst[i].next \in States /\ inst[i].next.kind = "valid"
    BY <1>1 DEF CommitRename, TypeOK, Beside
  <1>3. slots' \in [0..1 -> States] /\ slots'[t] = inst[i].next /\ 1 - t \in 0..1
        /\ slots'[1 - t] = slots[1 - t]
    BY <1>2
  <1>4. ASSUME slots'[1 - t].kind = "valid" PROVE slots'[1 - t].gen < slots'[t].gen
    <2>1. Readable
      BY <1>3, <1>4 DEF Readable, Valid
    <2>2. t # Best /\ slots[Best].gen < inst[i].next.gen
      BY <1>1, <2>1 DEF Beside, CommitRename
    <2>3. Best \in 0..1
      BY <2>1, BestIsValid
    <2>4. Best = 1 - t
      BY <2>2, <2>3
    <2> QED BY <1>3, <2>2, <2>4
  <1>5. BestIn(slots') = t
    BY <1>2, <1>3, <1>4, BestIsTheNewer
  <1>6. Readable'
    BY <1>2, <1>3 DEF Readable, Valid
  <1> QED BY <1>3, <1>5, <1>6, BestIsIn

LEMMA NextAlone == ASSUME TypeOK, Alone, [Next]_vars PROVE Alone'
  <1> SUFFICES ASSUME ~spoilt' PROVE Alone'
    BY DEF Alone
  <1>0. inst \in [Instances -> Instance] /\ ~spoilt
    BY DEF TypeOK, Instance, Next, Launch, Take, Commit, Stop, Damage, CommitTemp, CommitRemove,
       CommitRename, CommitPrune, CommitFails, vars
  <1>a. ASSUME NEW i \in Instances, NEW r, inst' = [inst EXCEPT ![i] = r],
               \A j \in Instances : j # i => inst[j].at = "off",
               Beside(i)'
        PROVE  Alone'
    <2>1. \A j \in Instances : j # i => inst'[j].at = "off"
      BY <1>0, <1>a
    <2>2. \A j \in Instances : Beside(j)'
      BY <1>a, <2>1 DEF Beside
    <2> QED BY <2>1, <2>2 DEF Alone
  <1>b. ASSUME NEW i \in Instances, inst[i].at # "off"
        PROVE  Beside(i) /\ \A j \in Instances : j # i => inst[j].at = "off"
    BY <1>0, <1>b DEF Alone
  <1>c. UNCHANGED slots => Best' = Best /\ Readable' = Readable
    BY BestIsIn DEF Readable, Valid
  <1>1. ASSUME NEW i \in Instances, NEW v \in Versions, Launch(i, v) PROVE Alone'
    <2>1. PICK r \in Instance :
           /\ inst' = [inst EXCEPT ![i] = r] /\ r.notice = NoNotice /\ r.at \in {"running", "temp"}
           /\ r.at = "temp" => /\ r.next.kind = "valid"
                               /\ Readable => /\ r.target # Best /\ slots[Best].gen < r.next.gen
                                              /\ \/ r.next.last # slots[Best].last
                                                 \/ slots[Best].pending \in claims \union {NoNotice}
      BY <1>1, Launched
    <2>2. UNCHANGED <<slots, claims>> /\ \A j \in Instances : j # i => inst[j].at = "off"
      BY <1>1 DEF Launch
    <2>3. inst'[i] = r
      BY <1>0, <2>1
    <2>4. Beside(i)'
      BY <1>c, <2>1, <2>2, <2>3 DEF Beside
    <2> QED BY <1>a, <2>1, <2>2, <2>4
  <1>2. ASSUME NEW i \in Instances, Take(i) PROVE Alone'
    <2>1. inst[i].at # "off" /\ UNCHANGED slots /\ claims \subseteq claims'
          /\ slots[Best].pending \in claims'
      BY <1>2, Taken DEF Take
    <2>2. CASE UNCHANGED inst
      <3>1. inst[i].at = "running"
        BY <1>2 DEF Take
      <3>2. Beside(i)'
        BY <2>2, <3>1 DEF Beside
      <3>3. inst' = [inst EXCEPT ![i] = inst[i]]
        BY <1>0, <2>2
      <3> QED BY <1>a, <1>b, <2>1, <3>2, <3>3
    <2>3. ASSUME NEW r \in Instance,
                 /\ inst' = [inst EXCEPT ![i] = r] /\ r.at = "temp" /\ r.notice = slots[Best].pending
                 /\ r.next.kind = "valid" /\ r.target # Best /\ slots[Best].gen < r.next.gen
          PROVE  Alone'
      <3>1. inst'[i] = r
        BY <1>0, <2>3
      <3>2. Beside(i)'
        BY <1>c, <2>1, <2>3, <3>1 DEF Beside
      <3> QED BY <1>a, <1>b, <2>1, <2>3, <3>2
    <2> QED BY <1>2, <2>2, <2>3, Taken
  <1>3. ASSUME NEW i \in Instances, CommitTemp(i) PROVE Alone'
    <2>1. inst[i].at # "off" /\ inst[i].at = "temp" /\ UNCHANGED <<slots, claims>>
      BY <1>3 DEF CommitTemp
    <2>2. inst'[i] = [inst[i] EXCEPT !.at = "remove"] /\ inst[i] \in Instance
      BY <1>0, <1>3, CommitMoves DEF Moved
    <2>3. inst'[i].next = inst[i].next /\ inst'[i].target = inst[i].target
      BY <2>2 DEF Instance
    <2>4. Beside(i)'
      BY <1>b, <1>c, <2>1, <2>3 DEF Beside
    <2> QED BY <1>3, <1>a, <1>b, <2>1, <2>4, CommitMoves DEF Moved
  <1>4. ASSUME NEW i \in Instances, CommitRemove(i) PROVE Alone'
    <2>1. inst[i].at # "off" /\ inst[i].at = "remove" /\ UNCHANGED claims
      BY <1>4 DEF CommitRemove
    <2>2. inst'[i] = [inst[i] EXCEPT !.at = "rename"] /\ inst[i] \in Instance
      BY <1>0, <1>4, CommitMoves DEF Moved
    <2>3. inst'[i].next = inst[i].next /\ inst'[i].target = inst[i].target
      BY <2>2 DEF Instance
    <2>4. Beside(i)'
      BY <1>4, <1>b, <2>1, <2>3, RemoveKeepsBest DEF Beside
    <2> QED BY <1>4, <1>a, <1>b, <2>1, <2>4, CommitMoves DEF Moved
  <1>5. ASSUME NEW i \in Instances, CommitRename(i) PROVE Alone'
    <2>1. inst[i].at # "off"
      BY <1>5 DEF CommitRename
    <2>2. inst'[i] = [inst[i] EXCEPT !.at = "prune"] /\ inst[i] \in Instance
      BY <1>0, <1>5, CommitMoves DEF Moved
    <2>3. inst'[i].at = "prune"
      BY <2>2 DEF Instance
    <2>4. Beside(i)'
      BY <2>3 DEF Beside
    <2> QED BY <1>5, <1>a, <1>b, <2>1, <2>4, CommitMoves DEF Moved
  <1>6. ASSUME NEW i \in Instances, CommitPrune(i) \/ CommitFails(i) \/ Stop(i) PROVE Alone'
    <2>1. inst[i].at # "off"
      BY <1>6 DEF CommitPrune, CommitFails, Stop
    <2>2. PICK r \in Instance : inst' = [inst EXCEPT ![i] = r] /\ r.at \in {"off", "running"}
      BY <1>6, CommitMoves DEF Reset
    <2>3. Beside(i)'
      BY <1>0, <2>2 DEF Beside
    <2> QED BY <1>a, <1>b, <2>1, <2>2, <2>3
  <1>7. ASSUME NEW s \in 0..1, Damage(s) PROVE Alone'
    BY <1>7 DEF Damage
  <1>8. CASE UNCHANGED vars
    <2>1. UNCHANGED <<slots, claims, inst, spoilt>>
      BY <1>8 DEF vars
    <2>2. \A i \in Instances : Beside(i)'
      BY <1>0, <1>c, <2>1 DEF Beside, Alone
    <2> QED BY <1>0, <2>1, <2>2 DEF Alone
  <1> QED BY <1>1, <1>2, <1>3, <1>4, <1>5, <1>6, <1>7, <1>8 DEF Next, Commit

LEMMA Inductive == Spec => [](TypeOK /\ Held /\ Alone)
  <1>1. TypeOK /\ Held /\ Alone /\ [Next]_vars => (TypeOK /\ Held /\ Alone)'
    BY NextType, NextHeld, NextAlone
  <1> QED BY <1>1, InitInv, PTL DEF Spec

\* The journal and the instances keep their shape; generations never reach the largest.
THEOREM TypeCorrect == Spec => []TypeOK
  BY Inductive, PTL

\* take: the claim file lets one instance hand a notice out, once.
THEOREM HandedOutOnce == Spec => []ShownOnce
  <1>1. Held => ShownOnce
    BY DEF Held, ShownOnce
  <1> QED BY <1>1, Inductive, PTL

-----------------------------------------------------------------------------
\* What a step of an instance alone does to the current state.
LEMMA JournalStep ==
  ASSUME TypeOK, Alone, [Next]_vars, ~spoilt', Readable
  PROVE  /\ Readable'
         /\ slots[Best].pending # NoNotice =>
              \/ slots'[Best'].pending = slots[Best].pending
              \/ slots[Best].pending \in claims
              \/ slots'[Best'].last # slots[Best].last
  <1>1. CASE UNCHANGED slots
    <2>1. Best' = Best /\ Readable'
      BY <1>1, BestIsIn DEF Readable, Valid
    <2> QED BY <1>1, <2>1
  <1>2. ASSUME NEW i \in Instances, CommitRemove(i) \/ CommitRename(i)
        PROVE  Beside(i) /\ inst[i].at \in {"remove", "rename"}
    BY <1>2 DEF CommitRemove, CommitRename, Alone
  <1>3. ASSUME NEW i \in Instances, CommitRemove(i)
        PROVE  Readable' /\ slots'[Best'].pending = slots[Best].pending
    BY <1>2, <1>3, RemoveKeepsBest
  <1>4. ASSUME NEW i \in Instances, CommitRename(i)
        PROVE  /\ Readable'
               /\ slots[Best].pending # NoNotice =>
                    slots[Best].pending \in claims \/ slots'[Best'].last # slots[Best].last
    <2>1. /\ inst[i].next.last # slots[Best].last \/ slots[Best].pending \in claims \union {NoNotice}
          /\ Readable' /\ slots'[Best'] = inst[i].next
      BY <1>2, <1>4, RenameMakesBest DEF Beside
    <2> QED BY <2>1
  <1>5. \/ UNCHANGED slots
        \/ \E i \in Instances : CommitRemove(i) \/ CommitRename(i)
    BY DEF Next, Launch, Take, Commit, Stop, Damage, CommitTemp, CommitPrune, CommitFails, vars
  <1> QED BY <1>1, <1>3, <1>4, <1>5

\* commit_state: wherever an instance stops in it, a state stays readable.
THEOREM JournalNeverLost == Spec => JournalSurvives
  <1>1. TypeOK /\ Alone /\ [Next]_vars => [~spoilt' /\ Readable => Readable']_vars
    BY JournalStep
  <1> QED BY <1>1, Inductive, PTL DEF Spec, JournalSurvives

\* prepare and take: a notice that is due goes by a claim or by another version only.
THEOREM DueNotLost == Spec => DueStaysDue
  <1>1. TypeOK /\ Alone /\ [Next]_vars =>
          [~spoilt' /\ Readable /\ slots[Best].pending # NoNotice =>
             \/ slots'[Best'].pending = slots[Best].pending
             \/ slots[Best].pending \in claims
             \/ slots'[Best'].last # slots[Best].last]_vars
    BY JournalStep
  <1> QED BY <1>1, Inductive, PTL DEF Spec, DueStaysDue
=============================================================================
