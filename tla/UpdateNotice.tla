---------------------------- MODULE UpdateNotice ----------------------------
(***************************************************************************)
(* The journal behind the "updated" notice: tauri/update_notice.rs.        *)
(*                                                                         *)
(* Two slots hold the last launched version and the notice that is due.  A *)
(* commit writes the slot that is not current: a temporary file, the slot   *)
(* removed, the file renamed onto it, temporary files pruned.  A launch     *)
(* prepares the journal; the window takes the notice, for good, by creating *)
(* its claim file.  An instance of the application may die or be refused by *)
(* the disk at each of these steps, a slot may be damaged, and nothing      *)
(* keeps a second instance from running beside the first.                  *)
(*                                                                         *)
(* A notice is its pair of versions; the fresh files are synced before they *)
(* are renamed, so a slot holds a whole state or none.                     *)
(***************************************************************************)
EXTENDS Naturals, FiniteSets

CONSTANTS
  Instances,        \* instances of the application that may run at a time
  Versions,         \* versions installed, in any order
  Bridge,           \* LEGACY_BRIDGE_VERSION
  MaxGeneration     \* u64::MAX

ASSUME NoticeAssumption ==
  /\ Versions \subseteq Nat \ {0}
  /\ Bridge \in Nat \ {0} /\ MaxGeneration \in Nat /\ MaxGeneration > 1

VARIABLES
  slots,            \* update-state.0.json and update-state.1.json
  claims,           \* the claim files
  temps,            \* instances with a temporary file on the disk
  inst,             \* each instance: its version and the step it is at
  shown,            \* history: how often each notice was handed to a window
  spoilt            \* history: instances have overlapped, or a slot was damaged

vars == <<slots, claims, temps, inst, shown, spoilt>>

NoNotice == [from |-> 0, to |-> 0]
Notices == [from : Versions \cup {0}, to : Versions]
Missing == [kind |-> "missing", gen |-> 0, last |-> 0, pending |-> NoNotice]
Malformed == [Missing EXCEPT !.kind = "malformed"]
State(gen, last, pending) == [kind |-> "valid", gen |-> gen, last |-> last, pending |-> pending]

(* An instance: its step, its version, the notice it is about to hand out,   *)
(* and the slot and state of its commit.                                   *)
Off == [at |-> "off", ver |-> 0, notice |-> NoNotice, target |-> 0, next |-> Missing]

Init ==
  /\ slots = [s \in 0..1 |-> Missing]
  /\ claims = {} /\ temps = {}
  /\ inst = [i \in Instances |-> Off]
  /\ shown = [n \in Notices |-> 0]
  /\ spoilt = FALSE

-----------------------------------------------------------------------------
(* read_state: the valid slot of the highest generation, the first on a tie. *)
Valid(s) == slots[s].kind = "valid"
Readable == \E s \in 0..1 : Valid(s)
Best ==
  CHOOSE s \in 0..1 :
    /\ Valid(s)
    /\ \A t \in 0..1 : Valid(t) =>
         \/ slots[t].gen < slots[s].gen
         \/ slots[t].gen = slots[s].gen /\ s <= t

(* next_generation: the largest value is never used.                        *)
Exhausted(gen) == gen + 1 >= MaxGeneration

(* The state that a launch of version v leaves behind, from the one it reads.    *)
First(v, legacy) ==
  State(1, v, IF slots = [s \in 0..1 |-> Missing] /\ v = Bridge /\ legacy
                THEN [from |-> 0, to |-> v] ELSE NoNotice)

Cleared(cur) == State(cur.gen + 1, cur.last, NoNotice)

Advanced(cur, v) ==
  State(cur.gen + 1, v, IF v > cur.last THEN [from |-> cur.last, to |-> v] ELSE NoNotice)

\* A mutant: what is due is dropped at the next launch.
NothingToPrepareSoon(cur, v) == cur.last = v /\ cur.pending = NoNotice
NothingToPrepare(cur, v) ==
  cur.last = v /\ (cur.pending = NoNotice \/ cur.pending \notin claims)

\* A mutant: the commit goes to the slot in use.
InactiveIsActive(s) == s
Inactive(s) == 1 - s

Writing(v, notice, target, next) ==
  [at |-> "temp", ver |-> v, notice |-> notice, target |-> target, next |-> next]
Running(v) == [Off EXCEPT !.at = "running", !.ver = v]

(* prepare_inner up to the commit; a failure is only logged.                *)
Launch(i, v) ==
  /\ inst[i].at = "off"
  /\ \E legacy \in BOOLEAN :
       LET cur == slots[Best] IN
       inst' = [inst EXCEPT ![i] =
         IF ~Readable THEN Writing(v, NoNotice, 0, First(v, legacy))
         ELSE IF NothingToPrepare(cur, v) \/ Exhausted(cur.gen) THEN Running(v)
         ELSE Writing(v, NoNotice, Inactive(Best),
                      IF cur.last = v THEN Cleared(cur) ELSE Advanced(cur, v))]
  /\ spoilt' = (spoilt \/ \E j \in Instances \ {i} : inst[j].at # "off")
  /\ UNCHANGED <<slots, claims, temps, shown>>

\* A mutant: a claim that exists already is no obstacle.
TakeAgain(i) ==
  /\ inst[i].at = "running" /\ Readable
  /\ LET cur == slots[Best] IN
     /\ cur.pending # NoNotice /\ cur.pending.to = inst[i].ver
     /\ claims' = claims \cup {cur.pending}
     /\ inst' = [inst EXCEPT ![i] =
          IF Exhausted(cur.gen) THEN @
          ELSE Writing(@.ver, cur.pending, Inactive(Best), Cleared(cur))]
  /\ UNCHANGED <<slots, temps, shown, spoilt>>
(* take_inner up to the commit: creating the claim decides.                 *)
Take(i) ==
  /\ inst[i].at = "running" /\ Readable
  /\ LET cur == slots[Best] IN
     /\ cur.pending # NoNotice /\ cur.pending.to = inst[i].ver
     /\ cur.pending \notin claims
     /\ claims' = claims \cup {cur.pending}
     /\ inst' = [inst EXCEPT ![i] =
          IF Exhausted(cur.gen) THEN @
          ELSE Writing(@.ver, cur.pending, Inactive(Best), Cleared(cur))]
  /\ UNCHANGED <<slots, temps, shown, spoilt>>

-----------------------------------------------------------------------------
(* commit_state; after the commit of a take the window gets its notice.     *)

CommitTemp(i) ==
  /\ inst[i].at = "temp"
  /\ temps' = temps \cup {i}
  /\ inst' = [inst EXCEPT ![i].at = "remove"]
  /\ UNCHANGED <<slots, claims, shown, spoilt>>

CommitRemove(i) ==
  /\ inst[i].at = "remove"
  /\ slots' = [slots EXCEPT ![inst[i].target] = Missing]
  /\ inst' = [inst EXCEPT ![i].at = "rename"]
  /\ UNCHANGED <<claims, temps, shown, spoilt>>

CommitRename(i) ==
  /\ inst[i].at = "rename" /\ i \in temps
  /\ slots' = [slots EXCEPT ![inst[i].target] = inst[i].next]
  /\ temps' = temps \ {i}
  /\ inst' = [inst EXCEPT ![i].at = "prune"]
  /\ UNCHANGED <<claims, shown, spoilt>>

(* Every temporary file goes, those of other instances too.                 *)
CommitPrune(i) ==
  /\ inst[i].at = "prune"
  /\ temps' = {}
  /\ shown' = IF inst[i].notice # NoNotice
                THEN [shown EXCEPT ![inst[i].notice] = @ + 1] ELSE shown
  /\ inst' = [inst EXCEPT ![i] = Running(@.ver)]
  /\ UNCHANGED <<slots, claims, spoilt>>

(* A step of the commit is refused, or its temporary file has gone.         *)
CommitFails(i) ==
  /\ inst[i].at \in {"temp", "remove", "rename", "prune"}
  /\ inst' = [inst EXCEPT ![i] = Running(@.ver)]
  /\ UNCHANGED <<slots, claims, temps, shown, spoilt>>

(* The instance quits or dies, wherever it is.                              *)
Stop(i) ==
  /\ inst[i].at # "off"
  /\ inst' = [inst EXCEPT ![i] = Off]
  /\ UNCHANGED <<slots, claims, temps, shown, spoilt>>

Damage(s) ==
  /\ slots[s] # Missing
  /\ slots' = [slots EXCEPT ![s] = Malformed]
  /\ spoilt' = TRUE
  /\ UNCHANGED <<claims, temps, inst, shown>>

Commit(i) ==
  CommitTemp(i) \/ CommitRemove(i) \/ CommitRename(i) \/ CommitPrune(i) \/ CommitFails(i)

Next ==
  \/ \E i \in Instances :
       (\E v \in Versions : Launch(i, v)) \/ Take(i) \/ Commit(i) \/ Stop(i)
  \/ \E s \in 0..1 : Damage(s)

Spec == Init /\ [][Next]_vars

-----------------------------------------------------------------------------
States == {Missing, Malformed} \cup
          [kind : {"valid"}, gen : 1..(MaxGeneration - 1), last : Versions,
           pending : Notices \cup {NoNotice}]

TypeOK ==
  /\ slots \in [0..1 -> States]
  /\ claims \subseteq Notices
  /\ temps \subseteq Instances
  /\ inst \in [Instances ->
       [at : {"off", "running", "temp", "remove", "rename", "prune"}, ver : Versions \cup {0},
        notice : Notices \cup {NoNotice}, target : 0..1, next : States]]
  /\ shown \in [Notices -> Nat]
  /\ spoilt \in BOOLEAN

(* However often the window asks, whatever dies and however many instances  *)
(* overlap, a notice is handed out at most once.                           *)
ShownOnce == \A n \in Notices : shown[n] <= 1

(* One instance at a time never loses the journal, at whatever step of a    *)
(* commit it stops: a state once written can be read ever after.           *)
JournalSurvives == [][~spoilt' /\ Readable => Readable']_vars

(* One instance at a time never lets a notice that is due get lost: it goes *)
(* only when it has been claimed or another version has been launched.     *)
DueStaysDue ==
  [][~spoilt' /\ Readable /\ slots[Best].pending # NoNotice =>
       \/ slots'[Best'].pending = slots[Best].pending
       \/ slots[Best].pending \in claims
       \/ slots'[Best'].last # slots[Best].last]_vars
=============================================================================
