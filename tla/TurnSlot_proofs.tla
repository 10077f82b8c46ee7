-------------------------- MODULE TurnSlot_proofs --------------------------
(***************************************************************************)
(* The slot and the session's signal belong to a live turn, and the late    *)
(* teardown of another turn touches neither: for any number of turns and of *)
(* requests whose body is being read.                                       *)
(*                                                                          *)
(* And of what runs in the slot (AgentLoop), for any number of turns, steps  *)
(* and calls: transcripts and the history stay paired, no run is forgotten. *)
(***************************************************************************)
EXTENDS TurnSlot, AgentLoop, SequenceTheorems, WellFoundedInduction, TLAPS

IInv == TypeOK /\ HolderIsLive

\* Wiring a turn's signal (Claim) keeps types and makes the turn a live holder.
LEMMA ClaimKeeps ==
  ASSUME IInv, NEW t \in Turns, Claim(t), bodies' \in 0..MaxBodies
  PROVE  IInv'
<1>1. t # NoTurn BY TurnSlotAssumption
<1>2. turn' \in [Turns -> TurnState]
  BY DEF IInv, TypeOK, Claim, TurnState, Tool
<1>3. \A u \in Turns : turn'[u].at = "idle" => turn'[u].tool = "none"
  BY DEF IInv, TypeOK, Claim, TurnState
<1>4. client' \in Client
  BY DEF IInv, TypeOK, Claim, Client, Signal
<1>5. currentTurn' \in Signal /\ sessionSignal' \in Signal
  BY DEF Claim, Signal
<1>6. HolderIsLive'
  BY DEF IInv, TypeOK, Claim, HolderIsLive
<1> QED BY <1>2, <1>3, <1>4, <1>5, <1>6 DEF IInv, TypeOK

\* Aborting the holder changes no turn's place.
LEMMA AbortKeepsPlaces ==
  ASSUME IInv
  PROVE  /\ AbortHolder \in [Turns -> TurnState]
         /\ \A t \in Turns : /\ AbortHolder[t].at = turn[t].at
                             /\ AbortHolder[t].tool = turn[t].tool
  BY DEF IInv, TypeOK, AbortHolder, TurnState, Signal

\* No turn runs at the start.
LEMMA Initially == Init => IInv
  BY TurnSlotAssumption DEF Init, IInv, TypeOK, HolderIsLive, TurnState, Tool, Client, Signal

\* Every step keeps the invariant.
LEMMA Inductive == IInv /\ [Next]_vars => IInv'
<1> SUFFICES ASSUME IInv, [Next]_vars PROVE IInv' OBVIOUS
<1> USE TurnSlotAssumption
<1>1. ASSUME NEW t \in Turns, ClaimFree(t) PROVE IInv'
  <2>1. bodies' \in 0..MaxBodies BY <1>1 DEF IInv, TypeOK, ClaimFree
  <2> QED BY <1>1, <2>1, ClaimKeeps DEF ClaimFree
<1>2. ASSUME NEW t \in Turns, BodyRead(t) PROVE IInv'
  <2>1. bodies' \in 0..MaxBodies BY <1>2 DEF IInv, TypeOK, BodyRead
  <2>2. CASE Claim(t) BY <2>1, <2>2, ClaimKeeps
  <2>3. CASE UNCHANGED <<turn, currentTurn, sessionSignal, client>>
    BY <2>1, <2>3 DEF IInv, TypeOK, HolderIsLive
  <2> QED BY <1>2, <2>2, <2>3 DEF BodyRead
<1>3. ASSUME NEW t \in Turns, SelfAbort(t) PROVE IInv'
  BY <1>3 DEF IInv, TypeOK, HolderIsLive, SelfAbort, TurnState, Signal
<1>4. ASSUME NEW t \in Turns, Finish(t) PROVE IInv'
  <2>1. /\ turn' \in [Turns -> TurnState]
        /\ \A u \in Turns : turn'[u].at = "idle" => turn'[u].tool = "none"
    BY <1>4 DEF IInv, TypeOK, Finish, TurnState
  <2>2. client' \in Client /\ currentTurn' \in Signal /\ sessionSignal' \in Signal
    BY <1>4 DEF IInv, TypeOK, Finish, ReleaseOwned, Client, Signal
  <2>3. HolderIsLive'
    BY <1>4 DEF IInv, TypeOK, HolderIsLive, Finish, ReleaseOwned, TurnState, Signal
  <2> QED BY <1>4, <2>1, <2>2, <2>3 DEF IInv, TypeOK, Finish
<1>5. ASSUME NEW t \in Turns, NeedClient(t) PROVE IInv'
  <2>1. client' \in Client BY <1>5 DEF IInv, TypeOK, NeedClient, Boot, Client
  <2> QED BY <1>5, <2>1 DEF IInv, TypeOK, HolderIsLive, NeedClient, TurnState, Tool, Signal
<1>6. ASSUME NEW t \in Turns, StartClick(t) PROVE IInv'
  BY <1>6 DEF IInv, TypeOK, HolderIsLive, StartClick, TurnState, Tool, Signal
<1>7. ASSUME NEW t \in Turns, MouseEvent(t) PROVE IInv'
  BY <1>7 DEF IInv, TypeOK, HolderIsLive, MouseEvent, NextStage, TurnState, Tool, Signal
<1>8. CASE TurnRequest
  BY <1>8, AbortKeepsPlaces DEF IInv, TypeOK, HolderIsLive, TurnRequest, Signal
<1>9. CASE ForceAbort
  BY <1>9, AbortKeepsPlaces DEF IInv, TypeOK, HolderIsLive, ForceAbort, Signal
<1>10. CASE SignalAbort
  BY <1>10, AbortKeepsPlaces DEF IInv, TypeOK, HolderIsLive, SignalAbort, Signal
<1>11. CASE RouteNeedsClient
  BY <1>11 DEF IInv, TypeOK, HolderIsLive, RouteNeedsClient, Boot, Client
<1>12. CASE Inherit
  BY <1>12 DEF IInv, TypeOK, HolderIsLive, Inherit, Client
<1>13. CASE BootFails
  BY <1>13 DEF IInv, TypeOK, HolderIsLive, BootFails, BootReturns, Client, TurnState, Tool, Signal
<1>14. CASE StealthInjected
  BY <1>14 DEF IInv, TypeOK, HolderIsLive, StealthInjected, Client
<1>15. CASE OverlayInstalled
  BY <1>15 DEF IInv, TypeOK, HolderIsLive, OverlayInstalled, BootReturns, Client, TurnState,
               Tool, Signal
<1>16. CASE ClientLost
  BY <1>16 DEF IInv, TypeOK, HolderIsLive, ClientLost, Client, TurnState, Tool, Signal
<1>17. CASE UNCHANGED vars
  BY <1>17 DEF IInv, TypeOK, HolderIsLive, vars
<1> QED BY <1>1, <1>2, <1>3, <1>4, <1>5, <1>6, <1>7, <1>8, <1>9, <1>10, <1>11, <1>12, <1>13,
           <1>14, <1>15, <1>16, <1>17 DEF Next

\* Types and the holder's liveness hold in every reachable state.
THEOREM Invariance == Spec => []IInv
  BY Initially, Inductive, PTL DEF Spec

\* Every variable of the slot and of the client keeps its type.
THEOREM TypeCorrect == Spec => []TypeOK
<1>1. IInv => TypeOK BY DEF IInv
<1> QED BY <1>1, Invariance, PTL

\* The slot is never held by a turn that ended, and an abort of the holder reaches the
\* session's signal.
THEOREM SlotHeldByLiveTurn == Spec => []HolderIsLive
<1>1. IInv => HolderIsLive BY DEF IInv
<1> QED BY <1>1, Invariance, PTL

\* Only a turn's own teardown takes it out of its loop.
LEMMA OnlyFinishEnds ==
  ASSUME IInv, Next, NEW t \in Turns, turn[t].at = "loop", turn'[t].at = "idle"
  PROVE  Finish(t)
<1>1. ASSUME NEW u \in Turns, Finish(u) PROVE u = t
  BY <1>1 DEF Finish, IInv, TypeOK, TurnState
<1>2. ASSUME NEW u \in Turns PROVE ~ClaimFree(u) /\ ~BodyRead(u)
  BY <1>2 DEF ClaimFree, BodyRead, Claim, IInv, TypeOK, TurnState
<1>3. ASSUME NEW u \in Turns PROVE ~SelfAbort(u) /\ ~NeedClient(u) /\ ~StartClick(u) /\ ~MouseEvent(u)
  BY <1>3 DEF SelfAbort, NeedClient, StartClick, MouseEvent, IInv, TypeOK, TurnState
<1>4. ~TurnRequest /\ ~ForceAbort /\ ~SignalAbort
  BY AbortKeepsPlaces DEF TurnRequest, ForceAbort, SignalAbort
<1>5. ~RouteNeedsClient /\ ~Inherit /\ ~StealthInjected
  BY DEF RouteNeedsClient, Inherit, StealthInjected
<1>6. ~BootFails /\ ~OverlayInstalled /\ ~ClientLost
  BY DEF BootFails, OverlayInstalled, BootReturns, ClientLost, IInv, TypeOK, TurnState
<1> QED BY <1>1, <1>2, <1>3, <1>4, <1>5, <1>6 DEF Next

\* The late teardown of a turn that lost the slot leaves the slot and the session's signal
\* to the turn that has them now.
THEOREM TeardownHarmless == Spec => LateTeardownHarmless
<1>1. ASSUME IInv, IInv', [Next]_vars
      PROVE  [\A t \in Turns :
                turn[t].at = "loop" /\ turn'[t].at = "idle" /\ currentTurn # t
                  => /\ currentTurn' = currentTurn
                     /\ currentTurn # NoTurn => sessionSignal' = sessionSignal]_vars
  <2> SUFFICES ASSUME Next, NEW t \in Turns, turn[t].at = "loop", turn'[t].at = "idle",
                      currentTurn # t
               PROVE  /\ currentTurn' = currentTurn
                      /\ currentTurn # NoTurn => sessionSignal' = sessionSignal
    BY <1>1
  <2>1. Finish(t) BY <1>1, OnlyFinishEnds
  <2> QED BY <1>1, <2>1 DEF Finish, ReleaseOwned, IInv, HolderIsLive
<1> QED BY <1>1, Invariance, PTL DEF Spec, LateTeardownHarmless

-----------------------------------------------------------------------------
(* The loop of a turn.                                                       *)

\* The results q brings.
Answers(q) == [i \in DOMAIN q |-> Result(q[i])]

\* A transcript in which every call stands before its result, and every result is that of
\* one call: the calls that have one are its ids.
Ids(s) == {c \in Nat : Result(c) \in ToSet(s)}
Good(s) ==
  /\ s \in Seq(Msg)
  /\ \A i \in DOMAIN s : s[i].role = "tool" => \E c \in Nat : s[i] = Result(c)
  /\ Matched(s) /\ Unique(s)

\* The calls a turn works on or has results of; each belongs to one answer.
Got(x, i) == ToSet(x.records[i].results)
Carries(x) == ToSet(x.todo) \cup UNION {Got(x, i) : i \in DOMAIN x.records}
Apart(x) ==
  /\ IsInjective(x.todo)
  /\ \A i \in DOMAIN x.records : IsInjective(x.records[i].results) /\ Got(x, i) \cap ToSet(x.todo) = {}
  /\ \A i, j \in DOMAIN x.records : i # j => Got(x, i) \cap Got(x, j) = {}

\* What holds of a turn by itself: it runs tools when it has some to run; and once they have
\* returned its transcript is paired, unless it was aborted while they ran.
TurnOK(x) ==
  /\ x \in LoopState
  /\ x.at = "tool" <=> x.todo # <<>>
  /\ x.at \in {"tool", "step"} => x.records # <<>>
  /\ x.at = "off" => x = IdleLoop
  /\ x.at = "asking" \/ ~x.aborted => Good(x.sent \o Answers(x.todo))
  /\ Apart(x)

SlotOK ==
  /\ loop \in [Loops -> LoopState] /\ calls \in Nat /\ started \in Nat /\ ran \subseteq Nat
  /\ slot \in Loops \cup {NoLoop} /\ (slot # NoLoop => loop[slot].at # "off")
TurnsOK == \A t \in Loops : TurnOK(loop[t])

\* A call belongs to one turn or to the history, which is paired.
SharedOK ==
  /\ Good(messages)
  /\ \A t \in Loops : Carries(loop[t]) \cap Ids(messages) = {}
  /\ \A t, u \in Loops : t # u => Carries(loop[t]) \cap Carries(loop[u]) = {}

\* No call to come is known anywhere.
FreshOK ==
  /\ Ids(messages) \subseteq 0..calls
  /\ \A t \in Loops : Carries(loop[t]) \subseteq 0..calls /\ Ids(loop[t].sent) \subseteq 0..calls

\* A tool that ran is in the history, or an operator's turn will take it there.
CarriedBy(x, c) == \/ x.at = "tool" /\ c = Head(x.todo)
                   \/ \E i \in DOMAIN x.records : c \in Got(x, i)
RanOK ==
  \A c \in ran : InHistory(c) \/ \E t \in Loops : ~loop[t].tick /\ CarriedBy(loop[t], c)

LoopInv == SlotOK /\ TurnsOK /\ SharedOK /\ FreshOK /\ RanOK

-----------------------------------------------------------------------------
(* Flattened sequences.                                                      *)

\* A number with a property has a least one.
LEMMA LeastNat ==
  ASSUME NEW S, S \subseteq Nat, S # {}
  PROVE  \E n \in S : \A m \in S : n <= m
<1> DEFINE R == OpToRel(<, Nat)
<1>1. IsWellFoundedOn(R, Nat)
  BY NatLessThanWellFounded
<1>2. \A x, y \in Nat : x < y => <<x, y>> \in R
  BY DEF OpToRel
<1> HIDE DEF R
<1>3. PICK x \in S : \A y \in S : ~ (<<y, x>> \in R)
  BY <1>1, WFMin
<1>4. ASSUME NEW y \in S PROVE x <= y
  <2>1. x \in Nat /\ y \in Nat /\ ~ (<<y, x>> \in R)
    BY <1>3
  <2> QED BY <2>1, <1>2
<1> QED BY <1>4

\* What FlattenSeq builds up: f[i] joins the first i members of s.
Joins(f, s, n) == f = [i \in 1..n |-> IF i = 1 THEN s[i] ELSE f[i - 1] \o s[i]]

\* There is such a function: the least length without one would not be one.
LEMMA JoinsExist ==
  ASSUME NEW s, NEW n \in Nat
  PROVE  \E f : Joins(f, s, n)
<1> DEFINE Bad == {k \in Nat : ~ \E f : Joins(f, s, k)}
<1>1. SUFFICES ASSUME Bad # {} PROVE FALSE
  OBVIOUS
<1>2. PICK k \in Bad : \A m \in Bad : k <= m
  BY <1>1, LeastNat
<1>3. k # 0
  <2>1. Joins([i \in 1..0 |-> 0], s, 0)
    BY DEF Joins
  <2> QED BY <2>1, <1>2
<1>4. k \in Nat /\ k - 1 \in Nat /\ k - 1 \notin Bad
  BY <1>2, <1>3
<1>5. PICK f : Joins(f, s, k - 1)
  BY <1>4
<1> DEFINE g == [i \in 1..k |-> IF i = k THEN IF k = 1 THEN s[k] ELSE f[k - 1] \o s[k] ELSE f[i]]
<1>6. ASSUME NEW i \in 1..k PROVE g[i] = IF i = 1 THEN s[i] ELSE g[i - 1] \o s[i]
  <2>1. CASE i = k
    BY <2>1, <1>4
  <2>2. CASE i # k
    <3>1. i \in 1..(k - 1) /\ g[i] = f[i]
      BY <2>2, <1>4
    <3>2. i # 1 => i - 1 \in 1..k /\ i - 1 # k /\ g[i - 1] = f[i - 1]
      BY <3>1, <1>4
    <3>3. f[i] = IF i = 1 THEN s[i] ELSE f[i - 1] \o s[i]
      BY <3>1, <1>5 DEF Joins
    <3> QED BY <3>1, <3>2, <3>3
  <2> QED BY <2>1, <2>2
<1>7. Joins(g, s, k)
  <2> DEFINE h == [i \in 1..k |-> IF i = 1 THEN s[i] ELSE g[i - 1] \o s[i]]
  <2>1. \A i \in 1..k : g[i] = h[i]
    BY <1>6
  <2>2. g = h
    <3> HIDE DEF h
    <3>1. h = [i \in 1..k |-> h[i]] /\ g = [i \in 1..k |-> g[i]]
      BY DEF h
    <3> QED BY <3>1, <2>1
  <2> QED BY <2>2 DEF Joins
<1> QED BY <1>2, <1>7

\* FlattenSeq is the last value of such a function.
LEMMA FlattenJoins ==
  ASSUME NEW s, Len(s) \in Nat, Len(s) # 0
  PROVE  \E f : /\ \A i \in 1..Len(s) : f[i] = IF i = 1 THEN s[i] ELSE f[i - 1] \o s[i]
                /\ FlattenSeq(s) = f[Len(s)]
<1>1. \E f : Joins(f, s, Len(s))
  BY JoinsExist
<1>2. \E f : f = [i \in 1..Len(s) |-> IF i = 1 THEN s[i] ELSE f[i - 1] \o s[i]]
  BY <1>1 DEF Joins
<1> DEFINE c == CHOOSE f : f = [i \in 1..Len(s) |-> IF i = 1 THEN s[i] ELSE f[i - 1] \o s[i]]
<1>3. c = [i \in 1..Len(s) |-> IF i = 1 THEN s[i] ELSE c[i - 1] \o s[i]]
  BY <1>2
<1>4. FlattenSeq(s) = c[Len(s)]
  BY DEF FlattenSeq
<1> HIDE DEF c
<1>5. \A i \in 1..Len(s) : c[i] = IF i = 1 THEN s[i] ELSE c[i - 1] \o s[i]
  BY <1>3
<1> QED BY <1>4, <1>5

\* FlattenSeq goes from the front to the back.
LEMMA FlattenAppend ==
  ASSUME NEW S, NEW s \in Seq(Seq(S)), NEW e \in Seq(S)
  PROVE  FlattenSeq(Append(s, e)) = FlattenSeq(s) \o e
<1>1. PICK a : a = Append(s, e)
  OBVIOUS
<1> DEFINE n == Len(s)
<1>2. /\ n \in Nat /\ Len(a) = n + 1
      /\ a[n + 1] = e /\ \A i \in 1..n : s[i] = a[i]
  BY <1>1, AppendProperties
<1>3. PICK g : /\ \A i \in 1..(n + 1) : g[i] = IF i = 1 THEN a[i] ELSE g[i - 1] \o a[i]
               /\ FlattenSeq(a) = g[n + 1]
  <2>1. Len(a) \in Nat /\ Len(a) # 0
    BY <1>2
  <2>2. \E g : /\ \A i \in 1..Len(a) : g[i] = IF i = 1 THEN a[i] ELSE g[i - 1] \o a[i]
               /\ FlattenSeq(a) = g[Len(a)]
    BY <2>1, FlattenJoins
  <2> QED BY <1>2, <2>2
<1>4. FlattenSeq(Append(s, e)) = g[n + 1]
  BY <1>1, <1>3
<1>5. g[n + 1] = IF n = 0 THEN e ELSE g[n] \o e
  <2>1. n + 1 \in 1..(n + 1) /\ (n + 1 = 1 <=> n = 0) /\ n + 1 - 1 = n
    BY <1>2
  <2> QED BY <1>2, <1>3, <2>1
<1>6. CASE n = 0
  <2>1. s = <<>>
    BY <1>6
  <2>2. FlattenSeq(s) = <<>>
    BY <2>1 DEF FlattenSeq
  <2> QED BY <1>4, <1>5, <1>6, <2>2
<1>7. CASE n # 0
  <2>1. PICK f : /\ \A i \in 1..n : f[i] = IF i = 1 THEN s[i] ELSE f[i - 1] \o s[i]
                 /\ FlattenSeq(s) = f[n]
    <3>1. Len(s) \in Nat /\ Len(s) # 0
      BY <1>2, <1>7
    <3> QED BY <3>1, FlattenJoins
  <2> DEFINE Bad == {k \in 1..n : f[k] # g[k]}
  <2>2. Bad = {}
    <3>1. SUFFICES ASSUME Bad # {} PROVE FALSE
      OBVIOUS
    <3>2. Bad \subseteq Nat
      BY <1>2
    <3>3. PICK k \in Bad : \A j \in Bad : k <= j
      <4> HIDE DEF Bad
      <4> QED BY <3>1, <3>2, LeastNat
    <3>4. k \in 1..n /\ k \in 1..(n + 1) /\ f[k] # g[k]
      BY <1>2, <3>3
    <3>5. k # 1 => k - 1 \in 1..n /\ k - 1 \notin Bad
      BY <1>2, <3>3, <3>4
    <3>6. k # 1 => f[k - 1] = g[k - 1]
      BY <3>5
    <3>7. f[k] = IF k = 1 THEN s[k] ELSE f[k - 1] \o s[k]
      BY <2>1, <3>4
    <3>8. g[k] = IF k = 1 THEN a[k] ELSE g[k - 1] \o a[k]
      BY <1>3, <3>4
    <3>9. s[k] = a[k]
      BY <1>2, <3>4
    <3> QED BY <3>4, <3>6, <3>7, <3>8, <3>9
  <2>3. f[n] = g[n]
    BY <1>2, <1>7, <2>2
  <2> QED BY <1>4, <1>5, <1>7, <2>1, <2>3
<1> QED BY <1>6, <1>7

-----------------------------------------------------------------------------
(* Transcripts.                                                              *)

\* The kinds of messages differ, and a result tells its call.
LEMMA Messages ==
  /\ User \in Msg /\ User.role = "user"
  /\ \A q \in Seq(Nat) : Assistant(q) \in Msg /\ Assistant(q).role = "assistant" /\ Assistant(q).calls = q
  /\ \A c \in Nat : Result(c) \in Msg /\ Result(c).role = "tool" /\ Result(c).calls = <<c>>
  /\ \A c, d : Result(c) = Result(d) => c = d
<1>1. \A c, d : Result(c) = Result(d) => c = d
  <2> SUFFICES ASSUME NEW c, NEW d, Result(c) = Result(d) PROVE c = d
    OBVIOUS
  <2>1. Result(c).calls = <<c>> /\ Result(d).calls = <<d>>
    BY DEF Result, Message
  <2> QED BY <2>1
<1> QED BY <1>1 DEF User, Assistant, Result, Message, Msg

\* What stands in a concatenation.
LEMMA Concat ==
  ASSUME NEW S, NEW s \in Seq(S), NEW t \in Seq(S)
  PROVE  /\ s \o t \in Seq(S) /\ Len(s \o t) = Len(s) + Len(t) /\ Len(s) \in Nat /\ Len(t) \in Nat
         /\ DOMAIN (s \o t) = 1..(Len(s) + Len(t)) /\ DOMAIN s = 1..Len(s) /\ DOMAIN t = 1..Len(t)
         /\ \A i \in 1..Len(s) : (s \o t)[i] = s[i]
         /\ \A i \in 1..Len(t) : (s \o t)[Len(s) + i] = t[i]
         /\ ToSet(s \o t) = ToSet(s) \cup ToSet(t)
<1>1. /\ s \o t \in Seq(S) /\ Len(s \o t) = Len(s) + Len(t) /\ Len(s) \in Nat /\ Len(t) \in Nat
      /\ DOMAIN (s \o t) = 1..(Len(s) + Len(t)) /\ DOMAIN s = 1..Len(s) /\ DOMAIN t = 1..Len(t)
  OBVIOUS
<1>2. \A i \in 1..Len(s) : (s \o t)[i] = s[i] /\ i \in 1..(Len(s) + Len(t))
  BY <1>1
<1>3. \A i \in 1..Len(t) : (s \o t)[Len(s) + i] = t[i] /\ Len(s) + i \in 1..(Len(s) + Len(t))
  BY <1>1
<1>4. \A i \in 1..(Len(s) + Len(t)) :
        i \in 1..Len(s) \/ \E k \in 1..Len(t) : i = Len(s) + k
  <2> SUFFICES ASSUME NEW i \in 1..(Len(s) + Len(t)), i \notin 1..Len(s)
               PROVE  \E k \in 1..Len(t) : i = Len(s) + k
    OBVIOUS
  <2>1. i - Len(s) \in 1..Len(t) /\ i = Len(s) + (i - Len(s))
    BY <1>1
  <2> QED BY <2>1
<1>5. ToSet(s \o t) \subseteq ToSet(s) \cup ToSet(t)
  <2> SUFFICES ASSUME NEW d \in ToSet(s \o t) PROVE d \in ToSet(s) \/ d \in ToSet(t)
    OBVIOUS
  <2>1. PICK i \in 1..(Len(s) + Len(t)) : d = (s \o t)[i]
    BY <1>1 DEF ToSet
  <2>2. CASE i \in 1..Len(s)
    BY <1>1, <1>2, <2>1, <2>2 DEF ToSet
  <2>3. CASE \E k \in 1..Len(t) : i = Len(s) + k
    <3>1. PICK k \in 1..Len(t) : d = t[k]
      BY <1>3, <2>1, <2>3
    <3> QED BY <1>1, <3>1 DEF ToSet
  <2> QED BY <1>4, <2>2, <2>3
<1>6. ToSet(s) \subseteq ToSet(s \o t) /\ ToSet(t) \subseteq ToSet(s \o t)
  BY <1>1, <1>2, <1>3 DEF ToSet
<1> QED BY <1>1, <1>2, <1>3, <1>5, <1>6

\* Paired transcripts that share no call make one.
LEMMA GoodConcat ==
  ASSUME NEW s, NEW t, Good(s), Good(t), Ids(s) \cap Ids(t) = {}
  PROVE  /\ Good(s \o t) /\ Ids(s \o t) = Ids(s) \cup Ids(t)
         /\ ToSet(s \o t) = ToSet(s) \cup ToSet(t)
<1> DEFINE n == Len(s)
           m == Len(t)
           u == s \o t
<1>1. s \in Seq(Msg) /\ t \in Seq(Msg) /\ Matched(s) /\ Matched(t) /\ Unique(s) /\ Unique(t)
  BY DEF Good
<1>2. /\ u \in Seq(Msg) /\ n \in Nat /\ m \in Nat /\ Len(u) = n + m
      /\ DOMAIN u = 1..(n + m) /\ DOMAIN s = 1..n /\ DOMAIN t = 1..m
      /\ \A i \in 1..n : u[i] = s[i]
      /\ \A i \in 1..m : u[n + i] = t[i]
      /\ ToSet(u) = ToSet(s) \cup ToSet(t)
  BY <1>1, Concat
<1> HIDE DEF n, m, u
<1>3. \A i \in 1..(n + m) : i \in 1..n \/ \E k \in 1..m : i = n + k
  <2> SUFFICES ASSUME NEW i \in 1..(n + m), i \notin 1..n
               PROVE  \E k \in 1..m : i = n + k
    OBVIOUS
  <2>1. i - n \in 1..m /\ i = n + (i - n)
    BY <1>2
  <2> QED BY <2>1
<1>4. /\ \A i \in 1..n : s[i] \in Msg /\ s[i].calls \in Seq(Nat)
      /\ \A i \in 1..m : t[i] \in Msg /\ t[i].calls \in Seq(Nat)
  <2>1. /\ \A i \in 1..n : s[i] \in Msg
        /\ \A i \in 1..m : t[i] \in Msg
    BY <1>1 DEF n, m
  <2>2. \A x \in Msg : x.calls \in Seq(Nat)
    BY DEF Msg
  <2> QED BY <2>1, <2>2
<1>5. Ids(u) = Ids(s) \cup Ids(t)
  BY <1>2 DEF Ids
<1>6. \A i \in DOMAIN u : u[i].role = "tool" => \E c \in Nat : u[i] = Result(c)
  <2>1. /\ \A i \in 1..n : s[i].role = "tool" => \E c \in Nat : s[i] = Result(c)
        /\ \A i \in 1..m : t[i].role = "tool" => \E c \in Nat : t[i] = Result(c)
    BY <1>2 DEF Good
  <2> SUFFICES ASSUME NEW i \in 1..(n + m), u[i].role = "tool" PROVE \E c \in Nat : u[i] = Result(c)
    BY <1>2
  <2>2. CASE i \in 1..n
    BY <1>2, <2>1, <2>2
  <2>3. ASSUME NEW k \in 1..m, i = n + k PROVE \E c \in Nat : u[i] = Result(c)
    BY <1>2, <2>1, <2>3
  <2> QED BY <1>3, <2>2, <2>3
<1>7. ASSUME NEW i \in DOMAIN u, u[i].role = "assistant", NEW k \in DOMAIN u[i].calls
      PROVE  i + k <= Len(u) /\ u[i + k].role = "tool" /\ u[i + k].calls = <<u[i].calls[k]>>
  <2>1. CASE i \in 1..n
    <3>1. u[i] = s[i] /\ k \in Nat
      BY <1>2, <1>4, <2>1
    <3>2. i + k <= n /\ s[i + k].role = "tool" /\ s[i + k].calls = <<s[i].calls[k]>>
      BY <1>1, <1>2, <1>7, <2>1, <3>1 DEF Matched, n
    <3>3. i + k \in 1..n /\ i + k <= n + m
      BY <1>2, <2>1, <3>1, <3>2
    <3> QED BY <1>2, <3>1, <3>2, <3>3
  <2>2. ASSUME NEW j \in 1..m, i = n + j
        PROVE  i + k <= Len(u) /\ u[i + k].role = "tool" /\ u[i + k].calls = <<u[i].calls[k]>>
    <3>1. u[i] = t[j] /\ k \in Nat
      BY <1>2, <1>4, <2>2
    <3>2. j + k <= m /\ t[j + k].role = "tool" /\ t[j + k].calls = <<t[j].calls[k]>>
      <4>1. j \in DOMAIN t /\ t[j].role = "assistant" /\ k \in DOMAIN t[j].calls
        BY <1>2, <1>7, <2>2, <3>1
      <4> QED BY <1>1, <4>1 DEF Matched, m
    <3>3. j + k \in 1..m /\ i + k = n + (j + k) /\ i + k <= n + m
      BY <1>2, <2>2, <3>1, <3>2
    <3>4. u[i + k] = t[j + k]
      BY <1>2, <3>3
    <3> QED BY <1>2, <3>1, <3>2, <3>3, <3>4
  <2> QED BY <1>2, <1>3, <2>1, <2>2
<1>8. ASSUME NEW i \in DOMAIN u, u[i].role = "tool"
      PROVE  \E j \in 1..(i - 1) : u[j].role = "assistant" /\ i - j \in DOMAIN u[j].calls
  <2>1. CASE i \in 1..n
    <3>1. PICK j \in 1..(i - 1) : s[j].role = "assistant" /\ i - j \in DOMAIN s[j].calls
      BY <1>1, <1>2, <1>8, <2>1 DEF Matched
    <3>2. j \in 1..n
      BY <1>2, <2>1
    <3> QED BY <1>2, <3>1, <3>2
  <2>2. ASSUME NEW k \in 1..m, i = n + k
        PROVE  \E j \in 1..(i - 1) : u[j].role = "assistant" /\ i - j \in DOMAIN u[j].calls
    <3>1. PICK j \in 1..(k - 1) : t[j].role = "assistant" /\ k - j \in DOMAIN t[j].calls
      BY <1>1, <1>2, <1>8, <2>2 DEF Matched
    <3>2. j \in 1..m /\ n + j \in 1..(i - 1) /\ i - (n + j) = k - j
      BY <1>2, <2>2
    <3>3. u[n + j] = t[j]
      BY <1>2, <3>2
    <3> QED BY <3>1, <3>2, <3>3
  <2> QED BY <1>2, <1>3, <2>1, <2>2
<1>9. Matched(u)
  BY <1>7, <1>8 DEF Matched
<1>10. \A i \in 1..n, j \in 1..m : s[i].role = "tool" => s[i] # t[j]
  <2> SUFFICES ASSUME NEW i \in 1..n, NEW j \in 1..m, s[i].role = "tool", s[i] = t[j]
               PROVE  FALSE
    OBVIOUS
  <2>1. PICK c \in Nat : s[i] = Result(c)
    BY <1>2 DEF Good
  <2>2. Result(c) \in ToSet(s) /\ Result(c) \in ToSet(t)
    <3>1. DOMAIN s = 1..n /\ DOMAIN t = 1..m
      BY <1>2
    <3> QED BY <2>1, <3>1 DEF ToSet
  <2>3. c \in Ids(s) /\ c \in Ids(t)
    BY <2>2 DEF Ids
  <2> QED BY <2>3
<1>11. Unique(u)
  <2> SUFFICES ASSUME NEW i \in DOMAIN u, NEW j \in DOMAIN u, u[i].role = "tool", u[i] = u[j]
               PROVE  i = j
    BY DEF Unique
  <2>1. CASE i \in 1..n /\ j \in 1..n
    <3>1. u[i] = s[i] /\ u[j] = s[j] /\ DOMAIN s = 1..n
      BY <1>2, <2>1
    <3>2. Unique(s)
      BY <1>1 DEF Good
    <3> QED BY <2>1, <3>1, <3>2 DEF Unique
  <2>2. ASSUME NEW k \in 1..m, i = n + k, j \in 1..n PROVE i = j
    <3>1. u[i] = t[k] /\ u[j] = s[j]
      BY <1>2, <2>2
    <3> QED BY <1>10, <2>2, <3>1
  <2>3. ASSUME NEW k \in 1..m, j = n + k, i \in 1..n PROVE i = j
    <3>1. u[j] = t[k] /\ u[i] = s[i]
      BY <1>2, <2>3
    <3> QED BY <1>10, <2>3, <3>1
  <2>4. ASSUME NEW k \in 1..m, NEW l \in 1..m, i = n + k, j = n + l PROVE i = j
    <3>1. t[k].role = "tool" /\ t[k] = t[l]
      BY <1>2, <2>4
    <3>2. k = l
      BY <1>1, <1>2, <3>1 DEF Unique
    <3> QED BY <2>4, <3>2
  <2> QED BY <1>2, <1>3, <2>1, <2>2, <2>3, <2>4
<1> QED BY <1>2, <1>5, <1>6, <1>9, <1>11 DEF Good, u

\* One result for each call, in their order.
LEMMA AnswersAre ==
  ASSUME NEW q \in Seq(Nat)
  PROVE  /\ Answers(q) \in Seq(Msg) /\ Len(Answers(q)) = Len(q)
         /\ DOMAIN Answers(q) = 1..Len(q) /\ DOMAIN q = 1..Len(q) /\ Len(q) \in Nat
         /\ \A i \in 1..Len(q) : Answers(q)[i] = Result(q[i]) /\ q[i] \in Nat
         /\ Ids(Answers(q)) = ToSet(q)
<1>1. /\ DOMAIN q = 1..Len(q) /\ Len(q) \in Nat
      /\ \A i \in 1..Len(q) : q[i] \in Nat
  OBVIOUS
<1>2. \A i \in 1..Len(q) : Result(q[i]) \in Msg
  BY <1>1, Messages
<1>3. Answers(q) = [i \in 1..Len(q) |-> Result(q[i])]
  BY <1>1 DEF Answers
<1>4. /\ Answers(q) \in Seq(Msg) /\ Len(Answers(q)) = Len(q) /\ DOMAIN Answers(q) = 1..Len(q)
      /\ \A i \in 1..Len(q) : Answers(q)[i] = Result(q[i])
  BY <1>1, <1>2, <1>3
<1>5. \A c \in Nat : c \in Ids(Answers(q)) <=> \E i \in 1..Len(q) : Result(c) = Result(q[i])
  BY <1>4 DEF Ids, ToSet
<1>6. \A c \in Nat : c \in Ids(Answers(q)) <=> c \in ToSet(q)
  BY <1>1, <1>5, Messages DEF ToSet
<1>7. Ids(Answers(q)) \subseteq Nat /\ ToSet(q) \subseteq Nat
  BY <1>1 DEF Ids, ToSet
<1> QED BY <1>1, <1>4, <1>6, <1>7

\* A word that calls nothing.
LEMMA GoodWord ==
  ASSUME NEW w \in Msg, w.role # "tool", w.calls = <<>>
  PROVE  Good(<<w>>) /\ Ids(<<w>>) = {} /\ ToSet(<<w>>) = {w}
<1>1. /\ <<w>> \in Seq(Msg) /\ DOMAIN <<w>> = 1..1 /\ Len(<<w>>) = 1
      /\ \A i \in 1..1 : <<w>>[i] = w
  OBVIOUS
<1>2. ToSet(<<w>>) = {w}
  BY <1>1 DEF ToSet
<1>3. Ids(<<w>>) = {}
  BY <1>2, Messages DEF Ids
<1>4. DOMAIN w.calls = {}
  OBVIOUS
<1> QED BY <1>1, <1>2, <1>3, <1>4 DEF Good, Matched, Unique

\* The empty transcript.
LEMMA GoodEmpty == Good(<<>>) /\ Ids(<<>>) = {} /\ ToSet(<<>>) = {}
<1>1. <<>> \in Seq(Msg) /\ DOMAIN <<>> = {}
  OBVIOUS
<1>2. ToSet(<<>>) = {}
  BY <1>1 DEF ToSet
<1> QED BY <1>1, <1>2 DEF Good, Matched, Unique, Ids

\* An answer with what its calls bring.
LEMMA GoodBlock ==
  ASSUME NEW q \in Seq(Nat), IsInjective(q)
  PROVE  /\ Good(<<Assistant(q)>> \o Answers(q))
         /\ Ids(<<Assistant(q)>> \o Answers(q)) = ToSet(q)
         /\ \A c \in ToSet(q) : Result(c) \in ToSet(<<Assistant(q)>> \o Answers(q))
<1> DEFINE n == Len(q)
           b == <<Assistant(q)>> \o Answers(q)
<1>1. /\ Answers(q) \in Seq(Msg) /\ Len(Answers(q)) = n
      /\ DOMAIN q = 1..n /\ n \in Nat
      /\ \A i \in 1..n : Answers(q)[i] = Result(q[i]) /\ q[i] \in Nat
      /\ Ids(Answers(q)) = ToSet(q)
  BY AnswersAre
<1>2. <<Assistant(q)>> \in Seq(Msg) /\ Len(<<Assistant(q)>>) = 1 /\ <<Assistant(q)>>[1] = Assistant(q)
      /\ ToSet(<<Assistant(q)>>) = {Assistant(q)}
  BY Messages DEF ToSet
<1> HIDE DEF n
<1>3. /\ b \in Seq(Msg) /\ Len(b) = 1 + n /\ DOMAIN b = 1..(1 + n)
      /\ b[1] = Assistant(q)
      /\ \A i \in 1..n : b[1 + i] = Result(q[i]) /\ q[i] \in Nat
      /\ ToSet(b) = {Assistant(q)} \cup ToSet(Answers(q))
  <2>1. PICK s, t : s = <<Assistant(q)>> /\ t = Answers(q)
    OBVIOUS
  <2>2. b = s \o t /\ s \in Seq(Msg) /\ t \in Seq(Msg) /\ Len(s) = 1 /\ Len(t) = n
    BY <1>1, <1>2, <2>1
  <2>3. /\ s \o t \in Seq(Msg) /\ Len(s \o t) = Len(s) + Len(t)
        /\ DOMAIN (s \o t) = 1..(Len(s) + Len(t))
        /\ \A i \in 1..Len(s) : (s \o t)[i] = s[i]
        /\ \A i \in 1..Len(t) : (s \o t)[Len(s) + i] = t[i]
        /\ ToSet(s \o t) = ToSet(s) \cup ToSet(t)
    <3>1. s \in Seq(Msg) /\ t \in Seq(Msg)
      BY <2>2
    <3> QED BY <3>1, Concat
  <2> HIDE DEF b
  <2>4. 1 \in 1..1 /\ s[1] = Assistant(q)
    BY <1>2, <2>1
  <2>5. b[1] = Assistant(q)
    BY <2>2, <2>3, <2>4
  <2>6. \A i \in 1..n : b[1 + i] = Result(q[i]) /\ q[i] \in Nat
    BY <1>1, <2>1, <2>2, <2>3
  <2> QED BY <1>2, <2>1, <2>2, <2>3, <2>5, <2>6
<1> HIDE DEF b
<1>4. \A i \in 1..(1 + n) : i = 1 \/ \E k \in 1..n : i = 1 + k
  <2> SUFFICES ASSUME NEW i \in 1..(1 + n), i # 1 PROVE \E k \in 1..n : i = 1 + k
    OBVIOUS
  <2>1. i - 1 \in 1..n /\ i = 1 + (i - 1)
    BY <1>1
  <2> QED BY <2>1
<1>5. Ids(b) = ToSet(q)
  <2>1. \A c \in Nat : Result(c) # Assistant(q)
    BY Messages
  <2>2. \A c \in Nat : Result(c) \in ToSet(b) <=> Result(c) \in ToSet(Answers(q))
    BY <1>3, <2>1
  <2> QED BY <1>1, <2>2 DEF Ids
<1>6. \A i \in 1..n : b[1 + i].role = "tool" /\ b[1 + i].calls = <<q[i]>>
  BY <1>3, Messages
<1>7. ASSUME NEW i \in DOMAIN b, b[i].role = "assistant" PROVE i = 1
  BY <1>3, <1>4, <1>6, <1>7
<1>8. ASSUME NEW i \in DOMAIN b, b[i].role = "tool" PROVE \E k \in 1..n : i = 1 + k
  <2>1. i # 1
    BY <1>3, <1>8, Messages
  <2> QED BY <1>3, <1>4, <2>1
<1>9. Matched(b)
  <2>1. ASSUME NEW i \in DOMAIN b, b[i].role = "assistant", NEW k \in DOMAIN b[i].calls
        PROVE  i + k <= Len(b) /\ b[i + k].role = "tool" /\ b[i + k].calls = <<b[i].calls[k]>>
    <3>1. i = 1 /\ b[i].calls = q
      BY <1>3, <1>7, <2>1, Messages
    <3>2. k \in 1..n
      BY <1>1, <2>1, <3>1
    <3> QED BY <1>1, <1>3, <1>6, <3>1, <3>2
  <2>2. ASSUME NEW i \in DOMAIN b, b[i].role = "tool"
        PROVE  \E j \in 1..(i - 1) : b[j].role = "assistant" /\ i - j \in DOMAIN b[j].calls
    <3>1. PICK k \in 1..n : i = 1 + k
      BY <1>8, <2>2
    <3>2. 1 \in 1..(i - 1) /\ i - 1 = k
      BY <1>1, <3>1
    <3>3. b[1].role = "assistant" /\ b[1].calls = q
      BY <1>3, Messages
    <3> QED BY <1>1, <3>2, <3>3
  <2> QED BY <2>1, <2>2 DEF Matched
<1>10. Unique(b)
  <2> SUFFICES ASSUME NEW i \in DOMAIN b, NEW j \in DOMAIN b, b[i].role = "tool", b[i] = b[j]
               PROVE  i = j
    BY DEF Unique
  <2>1. PICK k \in 1..n : i = 1 + k
    BY <1>8
  <2>2. PICK l \in 1..n : j = 1 + l
    BY <1>8
  <2>3. q[k] = q[l]
    BY <1>3, <2>1, <2>2, Messages
  <2>4. k = l
    BY <1>1, <2>3 DEF IsInjective
  <2> QED BY <2>1, <2>2, <2>4
<1>11. \A i \in DOMAIN b : b[i].role = "tool" => \E c \in Nat : b[i] = Result(c)
  BY <1>3, <1>8
<1>12. \A c \in ToSet(q) : Result(c) \in ToSet(b)
  BY <1>5 DEF Ids
<1> QED BY <1>3, <1>5, <1>9, <1>10, <1>11, <1>12 DEF Good, b

\* Paired parts that share no call, joined.
Parts(s) ==
  /\ s \in Seq(Seq(Msg))
  /\ \A i \in DOMAIN s : Good(s[i])
  /\ \A i, j \in DOMAIN s : i # j => Ids(s[i]) \cap Ids(s[j]) = {}
Joined(s) ==
  /\ Good(FlattenSeq(s))
  /\ \A m : m \in ToSet(FlattenSeq(s)) <=> \E i \in DOMAIN s : m \in ToSet(s[i])

\* No part at all.
LEMMA JoinedEmpty ==
  ASSUME NEW s, s = <<>>
  PROVE  Joined(s)
<1>1. FlattenSeq(s) = <<>>
  BY DEF FlattenSeq
<1>2. DOMAIN s = {}
  OBVIOUS
<1> QED BY <1>1, <1>2, GoodEmpty DEF Joined

\* One part more.
LEMMA JoinedAppend ==
  ASSUME NEW r \in Seq(Seq(Msg)), NEW e \in Seq(Msg), Joined(r), Parts(Append(r, e))
  PROVE  Joined(Append(r, e))
<1> DEFINE s == Append(r, e)
           n == Len(r)
           h == FlattenSeq(r)
<1>1. /\ n \in Nat /\ DOMAIN r = 1..n /\ DOMAIN s = 1..(n + 1)
      /\ s[n + 1] = e /\ \A i \in 1..n : s[i] = r[i]
  OBVIOUS
<1>2. FlattenSeq(s) = h \o e
  BY FlattenAppend
<1> HIDE DEF s, n, h
<1>3. Good(h) /\ \A m : m \in ToSet(h) <=> \E i \in 1..n : m \in ToSet(r[i])
  BY <1>1 DEF Joined, h
<1>4. /\ \A i \in DOMAIN s : Good(s[i])
      /\ \A i, j \in DOMAIN s : i # j => Ids(s[i]) \cap Ids(s[j]) = {}
  BY DEF Parts, s
<1>5. n + 1 \in DOMAIN s /\ Good(e)
  <2>1. n + 1 \in DOMAIN s
    BY <1>1
  <2> QED BY <1>4, <1>1, <2>1
<1>6. Ids(h) \cap Ids(e) = {}
  <2> SUFFICES ASSUME NEW c \in Ids(h), c \in Ids(e) PROVE FALSE
    OBVIOUS
  <2>1. c \in Nat /\ Result(c) \in ToSet(h)
    BY DEF Ids
  <2>2. PICK i \in 1..n : Result(c) \in ToSet(r[i])
    BY <1>3, <2>1
  <2>3. i \in DOMAIN s /\ i # n + 1 /\ s[i] = r[i]
    BY <1>1
  <2>4. Ids(s[i]) \cap Ids(s[n + 1]) = {}
    BY <1>4, <1>5, <2>3
  <2>5. c \in Ids(s[i])
    BY <2>1, <2>2, <2>3 DEF Ids
  <2> QED BY <1>1, <2>4, <2>5
<1>7. Good(h \o e) /\ ToSet(h \o e) = ToSet(h) \cup ToSet(e)
  BY <1>3, <1>5, <1>6, GoodConcat
<1>8. ASSUME NEW m
      PROVE  m \in ToSet(h) \cup ToSet(e) <=> \E i \in DOMAIN s : m \in ToSet(s[i])
  <2>1. \A i \in DOMAIN s : i \in 1..n \/ i = n + 1
    BY <1>1
  <2>2. \A i \in 1..n : i \in DOMAIN s /\ s[i] = r[i]
    BY <1>1
  <2>3. CASE m \in ToSet(h)
    BY <1>3, <2>2, <2>3
  <2>4. CASE m \in ToSet(e)
    BY <1>1, <1>5, <2>4
  <2>5. ASSUME NEW i \in DOMAIN s, m \in ToSet(s[i]) PROVE m \in ToSet(h) \cup ToSet(e)
    BY <1>1, <1>3, <2>1, <2>2, <2>5
  <2> QED BY <2>3, <2>4, <2>5
<1> QED BY <1>2, <1>3, <1>7, <1>8 DEF Joined, s

\* Any number of parts: the shortest counterexample would have a shorter one.
LEMMA GoodFlatten ==
  ASSUME NEW s, Parts(s)
  PROVE  Joined(s)
<1> DEFINE Bad == {n \in Nat : \E x : Parts(x) /\ Len(x) = n /\ ~Joined(x)}
<1>1. SUFFICES Bad = {}
  BY DEF Parts
<1>2. SUFFICES ASSUME Bad # {} PROVE FALSE
  OBVIOUS
<1>3. PICK k \in Bad : \A m \in Bad : k <= m
  BY <1>2, LeastNat
<1>4. PICK x : Parts(x) /\ Len(x) = k /\ ~Joined(x)
  BY <1>3
<1>5. x \in Seq(Seq(Msg))
  BY <1>4 DEF Parts
<1>6. CASE x = <<>>
  BY <1>4, <1>6, JoinedEmpty
<1>7. CASE x # <<>>
  <2>1. PICK r \in Seq(Seq(Msg)), e \in Seq(Msg) : x = Append(r, e)
    BY <1>5, <1>7, SequenceEmptyOrAppend
  <2>2. /\ Len(r) \in Nat /\ k = Len(r) + 1
        /\ \A i \in DOMAIN r : i \in DOMAIN x /\ x[i] = r[i]
    BY <1>4, <2>1
  <2>3. Parts(r)
    BY <1>4, <2>1, <2>2 DEF Parts
  <2>4. Len(r) \notin Bad
    BY <1>3, <2>2
  <2>5. Joined(r)
    BY <2>2, <2>3, <2>4
  <2>6. Parts(Append(r, e))
    BY <1>4, <2>1
  <2>7. Joined(Append(r, e))
    BY <2>5, <2>6, JoinedAppend
  <2> QED BY <1>4, <2>1, <2>7
<1> QED BY <1>6, <1>7

-----------------------------------------------------------------------------
(* What a turn leaves.                                                       *)

\* The message stands for call c.
Remembers(m, c) == (m.role = "tool" /\ m.calls = <<c>>) \/ c \in m.instead

\* InHistory, message by message.
LEMMA HistoryRemembers ==
  ASSUME Good(messages)
  PROVE  \A c : InHistory(c) <=> \E m \in ToSet(messages) : Remembers(m, c)
BY DEF InHistory, Remembers, ToSet

\* A record is kept as its final text, or as the calls that have results.
LEMMA GoodProjected ==
  ASSUME NEW r \in PhaseRecord, IsInjective(r.results)
  PROVE  /\ Good(Projected(r)) /\ Ids(Projected(r)) \subseteq ToSet(r.results)
         /\ \A c \in ToSet(r.results) : \E m \in ToSet(Projected(r)) : Remembers(m, c)
<1>1. r.results \in Seq(Nat) /\ ToSet(r.results) \subseteq Nat
  <2>1. r.results \in Seq(Nat)
    BY DEF PhaseRecord
  <2> QED BY <2>1 DEF ToSet
<1>2. CASE r.final /\ Spoken(r.text)
  <2> DEFINE w == [Assistant(<<>>) EXCEPT !.instead = ToSet(r.results)]
  <2>1. w \in Msg /\ w.role = "assistant" /\ w.calls = <<>> /\ w.instead = ToSet(r.results)
    <3>1. PICK b : b = ToSet(r.results)
      OBVIOUS
    <3>2. w = [role |-> "assistant", calls |-> <<>>, instead |-> b]
      BY <3>1 DEF Assistant, Message
    <3>3. <<>> \in Seq(Nat) /\ b \in SUBSET Nat
      BY <1>1, <3>1
    <3> HIDE DEF w
    <3> QED BY <3>1, <3>2, <3>3 DEF Msg
  <2>2. Projected(r) = <<w>>
    BY <1>2 DEF Projected, FinalText
  <2> HIDE DEF w
  <2>3. Good(<<w>>) /\ Ids(<<w>>) = {} /\ ToSet(<<w>>) = {w}
    BY <2>1, GoodWord
  <2> QED BY <2>1, <2>2, <2>3 DEF Remembers
<1>3. CASE ~(r.final /\ Spoken(r.text)) /\ r.results = <<>>
  <2>1. Projected(r) = <<>>
    BY <1>3 DEF Projected
  <2>2. ToSet(r.results) = {}
    BY <1>3, GoodEmpty
  <2> QED BY <2>1, <2>2, GoodEmpty
<1>4. CASE ~(r.final /\ Spoken(r.text)) /\ r.results # <<>>
  <2>1. Projected(r) = <<Assistant(r.results)>> \o Answers(r.results)
    BY <1>4 DEF Projected, Results, Answers
  <2>2. /\ Good(Projected(r)) /\ Ids(Projected(r)) = ToSet(r.results)
        /\ \A c \in ToSet(r.results) : Result(c) \in ToSet(Projected(r))
    BY <1>1, <2>1, GoodBlock
  <2>3. \A c \in ToSet(r.results) : Remembers(Result(c), c)
    BY <1>1, Messages DEF Remembers
  <2> QED BY <2>2, <2>3
<1> QED BY <1>2, <1>3, <1>4

\* The transcript a turn writes back is paired, and has all the calls with results.
LEMMA GoodHistory ==
  ASSUME NEW x \in LoopState, Apart(x)
  PROVE  /\ Good(History(x)) /\ Ids(History(x)) \subseteq Carries(x)
         /\ \A i \in DOMAIN x.records : \A c \in Got(x, i) :
              \E m \in ToSet(History(x)) : Remembers(m, c)
<1> DEFINE n == Len(x.records)
           p == [i \in 1..n |-> Projected(x.records[i])]
<1>1. n \in Nat /\ DOMAIN x.records = 1..n /\ \A i \in 1..n : x.records[i] \in PhaseRecord
  <2>1. x.records \in Seq(PhaseRecord)
    BY DEF LoopState
  <2> QED BY <2>1
<1>2. /\ \A i \in 1..n : IsInjective(x.records[i].results) /\ Got(x, i) = ToSet(x.records[i].results)
      /\ \A i, j \in 1..n : i # j => Got(x, i) \cap Got(x, j) = {}
  BY <1>1 DEF Apart, Got
<1> HIDE DEF n
<1>3. \A i \in 1..n : /\ Good(p[i]) /\ Ids(p[i]) \subseteq Got(x, i)
                      /\ \A c \in Got(x, i) : \E m \in ToSet(p[i]) : Remembers(m, c)
  <2> SUFFICES ASSUME NEW i \in 1..n
               PROVE  /\ Good(p[i]) /\ Ids(p[i]) \subseteq Got(x, i)
                      /\ \A c \in Got(x, i) : \E m \in ToSet(p[i]) : Remembers(m, c)
    OBVIOUS
  <2>1. PICK r : r = x.records[i]
    OBVIOUS
  <2>2. r \in PhaseRecord /\ IsInjective(r.results) /\ Got(x, i) = ToSet(r.results) /\ p[i] = Projected(r)
    BY <1>1, <1>2, <2>1
  <2> HIDE DEF p
  <2> QED BY <2>2, GoodProjected
<1>4. DOMAIN p = 1..n /\ History(x) = FlattenSeq(p)
  BY DEF History, n
<1>5. Parts(p)
  <2>1. \A i \in 1..n : p[i] \in Seq(Msg)
    BY <1>3 DEF Good
  <2>2. p \in Seq(Seq(Msg))
    BY <1>1, <2>1
  <2> HIDE DEF p
  <2>3. \A i, j \in 1..n : i # j => Ids(p[i]) \cap Ids(p[j]) = {}
    BY <1>2, <1>3
  <2> QED BY <1>3, <1>4, <2>2, <2>3 DEF Parts
<1> HIDE DEF p
<1>6. Good(FlattenSeq(p)) /\ \A m : m \in ToSet(FlattenSeq(p)) <=> \E i \in 1..n : m \in ToSet(p[i])
  BY <1>4, <1>5, GoodFlatten DEF Joined
<1>7. Ids(History(x)) \subseteq Carries(x)
  <2> SUFFICES ASSUME NEW c \in Ids(History(x)) PROVE c \in Carries(x)
    OBVIOUS
  <2>1. c \in Nat /\ Result(c) \in ToSet(FlattenSeq(p))
    BY <1>4 DEF Ids
  <2>2. PICK i \in 1..n : Result(c) \in ToSet(p[i])
    BY <1>6, <2>1
  <2>3. c \in Got(x, i)
    BY <1>3, <2>1, <2>2 DEF Ids
  <2> QED BY <1>1, <2>3 DEF Carries, n
<1>8. \A i \in 1..n : \A c \in Got(x, i) : \E m \in ToSet(History(x)) : Remembers(m, c)
  BY <1>3, <1>4, <1>6
<1> QED BY <1>1, <1>4, <1>6, <1>7, <1>8

-----------------------------------------------------------------------------
(* Steps.                                                                    *)

\* Calls are new, or go from a turn to the history.
LEMMA CallsMove ==
  ASSUME SharedOK, FreshOK, NEW t \in Loops, calls \in Nat, calls' \in Nat, calls <= calls',
         Good(messages'), \A u \in Loops : TurnOK(loop'[u]),
         \A u \in Loops \ {t} : Carries(loop'[u]) = Carries(loop[u]) /\ loop'[u].sent = loop[u].sent,
         Ids(loop'[t].sent) \subseteq 0..calls',
         \A c \in Carries(loop'[t]) : c \in Carries(loop[t]) \/ c \in (calls + 1)..calls',
         \A c \in Ids(messages') :
           c \in Ids(messages) \/ (c \in Carries(loop[t]) /\ c \notin Carries(loop'[t]))
  PROVE  TurnsOK' /\ SharedOK' /\ FreshOK'
<1>1. /\ \A c \in 0..calls : c \in 0..calls' /\ c \notin (calls + 1)..calls'
      /\ \A c \in (calls + 1)..calls' : c \in 0..calls'
  OBVIOUS
<1>2. /\ \A u \in Loops : \A c \in Carries(loop[u]) : c \in 0..calls /\ c \notin Ids(messages)
      /\ \A c \in Ids(messages) : c \in 0..calls
      /\ \A u \in Loops : \A c \in Ids(loop[u].sent) : c \in 0..calls
      /\ \A u, v \in Loops : u # v => Carries(loop[u]) \cap Carries(loop[v]) = {}
  BY DEF SharedOK, FreshOK
<1>3. TurnsOK'
  BY DEF TurnsOK
<1>4. \A u \in Loops : \A c \in Carries(loop'[u]) : c \notin Ids(messages')
  <2> SUFFICES ASSUME NEW u \in Loops, NEW c \in Carries(loop'[u]), c \in Ids(messages') PROVE FALSE
    OBVIOUS
  <2>1. CASE u = t
    BY <1>1, <1>2, <2>1
  <2>2. CASE u # t
    BY <1>2, <2>2
  <2> QED BY <2>1, <2>2
<1>5. \A u \in Loops \ {t} : \A c \in Carries(loop'[t]) : c \notin Carries(loop'[u])
  BY <1>1, <1>2
<1>6. \A u, v \in Loops : u # v => Carries(loop'[u]) \cap Carries(loop'[v]) = {}
  <2> SUFFICES ASSUME NEW u \in Loops, NEW v \in Loops, u # v, NEW c \in Carries(loop'[u]),
                      c \in Carries(loop'[v])
               PROVE  FALSE
    OBVIOUS
  <2>1. CASE u = t
    BY <1>5, <2>1
  <2>2. CASE v = t
    BY <1>5, <2>2
  <2>3. CASE u # t /\ v # t
    BY <1>2, <2>3
  <2> QED BY <2>1, <2>2, <2>3
<1>7. SharedOK'
  BY <1>4, <1>6 DEF SharedOK
<1>8. Ids(messages') \subseteq 0..calls'
  BY <1>1, <1>2
<1>9. \A u \in Loops : Carries(loop'[u]) \subseteq 0..calls' /\ Ids(loop'[u].sent) \subseteq 0..calls'
  <2> SUFFICES ASSUME NEW u \in Loops
               PROVE  Carries(loop'[u]) \subseteq 0..calls' /\ Ids(loop'[u].sent) \subseteq 0..calls'
    OBVIOUS
  <2>1. CASE u = t
    BY <1>1, <1>2, <2>1
  <2>2. CASE u # t
    BY <1>1, <1>2, <2>2
  <2> QED BY <2>1, <2>2
<1> QED BY <1>3, <1>7, <1>8, <1>9 DEF FreshOK

\* A turn that does not run carries nothing.
LEMMA NotOff ==
  /\ IdleLoop \in LoopState /\ TurnOK(IdleLoop) /\ Carries(IdleLoop) = {} /\ Ids(IdleLoop.sent) = {}
  /\ \A c : ~CarriedBy(IdleLoop, c)
<1>1. <<>> \in Seq(Msg) /\ <<>> \in Seq(PhaseRecord) /\ <<>> \in Seq(Nat)
  OBVIOUS
<1>2. IdleLoop \in LoopState
  BY <1>1 DEF IdleLoop, LoopState
<1>3. DOMAIN IdleLoop.records = {} /\ IdleLoop.todo = <<>> /\ IdleLoop.sent = <<>>
  BY DEF IdleLoop
<1>4. ToSet(<<>>) = {} /\ DOMAIN <<>> = {}
  BY GoodEmpty
<1>5. IdleLoop.sent \o Answers(IdleLoop.todo) = <<>>
  BY <1>3 DEF Answers
<1>6. Apart(IdleLoop)
  BY <1>3, <1>4 DEF Apart, IsInjective
<1>7. TurnOK(IdleLoop)
  BY <1>2, <1>5, <1>6, GoodEmpty DEF TurnOK, IdleLoop
<1>8. Carries(IdleLoop) = {}
  BY <1>3, <1>4 DEF Carries
<1> QED BY <1>2, <1>3, <1>7, <1>8, GoodEmpty DEF CarriedBy, IdleLoop

\* The transcript of a turn that has no tool to run.
LEMMA NothingToDo ==
  ASSUME NEW x \in LoopState, x.todo = <<>>
  PROVE  x.sent \o Answers(x.todo) = x.sent /\ x.sent \in Seq(Msg) /\ ToSet(x.todo) = {}
<1>1. x.sent \in Seq(Msg)
  BY DEF LoopState
<1>2. Answers(x.todo) = <<>>
  BY DEF Answers
<1> QED BY <1>1, <1>2, GoodEmpty

\* The end of a turn, with the records it has.
LEMMA EndKeeps ==
  ASSUME LoopInv, NEW t \in Loops, loop[t].todo = <<>>, NEW x \in LoopState,
         x.tick = loop[t].tick, x.todo = <<>>, DOMAIN x.records = DOMAIN loop[t].records,
         \A i \in DOMAIN x.records : x.records[i].results = loop[t].records[i].results,
         End(t, x)
  PROVE  LoopInv'
<1>1. /\ loop \in [Loops -> LoopState] /\ TurnOK(loop[t]) /\ Good(messages) /\ Apart(loop[t])
      /\ \A u \in Loops : TurnOK(loop[u])
      /\ calls \in Nat
  BY DEF LoopInv, SlotOK, TurnsOK, SharedOK, TurnOK
<1>2. \A i \in DOMAIN x.records : Got(x, i) = Got(loop[t], i)
  BY DEF Got
<1>3. Apart(x) /\ Carries(x) = Carries(loop[t])
  BY <1>1, <1>2 DEF Apart, Carries
<1>4. /\ Good(History(x)) /\ Ids(History(x)) \subseteq Carries(x)
      /\ \A i \in DOMAIN x.records : \A c \in Got(x, i) :
           \E m \in ToSet(History(x)) : Remembers(m, c)
  BY <1>3, GoodHistory
<1>5. Ids(messages) \cap Ids(History(x)) = {}
  BY <1>3, <1>4 DEF LoopInv, SharedOK
<1>6. /\ Good(messages') /\ ToSet(messages) \subseteq ToSet(messages')
      /\ Ids(messages') \subseteq Ids(messages) \cup Carries(loop[t])
      /\ ~x.tick => ToSet(History(x)) \subseteq ToSet(messages')
  <2>1. CASE x.tick
    BY <1>1, <2>1 DEF End, WriteBack
  <2>2. CASE ~x.tick
    <3>1. messages' = messages \o History(x)
      BY <2>2 DEF End, WriteBack
    <3>2. /\ Good(messages') /\ Ids(messages') = Ids(messages) \cup Ids(History(x))
          /\ ToSet(messages') = ToSet(messages) \cup ToSet(History(x))
      BY <1>1, <1>4, <1>5, <3>1, GoodConcat
    <3> QED BY <1>3, <1>4, <3>2
  <2> QED BY <2>1, <2>2
<1>7. /\ loop' \in [Loops -> LoopState] /\ loop'[t] = IdleLoop
      /\ \A u \in Loops \ {t} : loop'[u] = loop[u]
      /\ calls' = calls /\ ran' = ran /\ started' = started
      /\ slot' = IF slot = t THEN NoLoop ELSE slot
  BY <1>1, NotOff DEF End
<1>8. SlotOK'
  <2>1. loop'[slot'].at # "off" \/ slot' = NoLoop
    BY <1>7 DEF LoopInv, SlotOK
  <2> QED BY <1>7, <2>1 DEF LoopInv, SlotOK
<1>9. TurnsOK' /\ SharedOK' /\ FreshOK'
  <2>1. \A u \in Loops : TurnOK(loop'[u])
    BY <1>1, <1>7, NotOff
  <2>2. Carries(loop'[t]) = {} /\ Ids(loop'[t].sent) \subseteq 0..calls'
    BY <1>7, NotOff
  <2>3. calls' \in Nat /\ calls <= calls'
    BY <1>1, <1>7
  <2> QED BY <1>1, <1>6, <1>7, <2>1, <2>2, <2>3, CallsMove DEF LoopInv
<1>10. RanOK'
  <2>1. \A c : InHistory(c) => InHistory(c)'
    <3>1. \A c : InHistory(c)' <=> \E m \in ToSet(messages') : Remembers(m, c)
      BY DEF InHistory, Remembers, ToSet
    <3> QED BY <1>1, <1>6, <3>1, HistoryRemembers
  <2>2. \A c : ~loop[t].tick /\ CarriedBy(loop[t], c) => InHistory(c)'
    <3> SUFFICES ASSUME NEW c, ~loop[t].tick, CarriedBy(loop[t], c) PROVE InHistory(c)'
      OBVIOUS
    <3>1. loop[t].at # "tool"
      BY <1>1 DEF TurnOK
    <3>2. PICK i \in DOMAIN x.records : c \in Got(x, i)
      BY <1>2, <3>1 DEF CarriedBy
    <3>3. PICK m \in ToSet(messages') : Remembers(m, c)
      BY <1>4, <1>6, <3>2
    <3> QED BY <3>3 DEF InHistory, Remembers, ToSet
  <2> SUFFICES ASSUME NEW c \in ran
               PROVE  InHistory(c)' \/ \E u \in Loops : ~loop'[u].tick /\ CarriedBy(loop'[u], c)
    BY <1>7 DEF RanOK
  <2>3. CASE InHistory(c)
    BY <2>1, <2>3
  <2>4. ASSUME NEW u \in Loops, ~loop[u].tick, CarriedBy(loop[u], c)
        PROVE  InHistory(c)' \/ \E v \in Loops : ~loop'[v].tick /\ CarriedBy(loop'[v], c)
    BY <1>7, <2>2, <2>4
  <2> QED BY <2>3, <2>4 DEF LoopInv, RanOK
<1> QED BY <1>8, <1>9, <1>10 DEF LoopInv

\* A turn goes on, and keeps what it carries.
LEMMA TurnKeeps ==
  ASSUME LoopInv, NEW t \in Loops, loop[t].at # "off", NEW y,
         loop' = [loop EXCEPT ![t] = y], TurnOK(y), y.at # "off", y.tick = loop[t].tick,
         messages' = messages, calls' \in Nat, calls <= calls', started' \in Nat,
         slot' \in {slot, NoLoop},
         \A c \in Carries(y) : c \in Carries(loop[t]) \/ c \in (calls + 1)..calls',
         Ids(y.sent) \subseteq 0..calls',
         \A c : CarriedBy(loop[t], c) => CarriedBy(y, c),
         \A c \in ran' : c \in Nat /\ (c \in ran \/ (~y.tick /\ CarriedBy(y, c)))
  PROVE  LoopInv'
<1>1. loop \in [Loops -> LoopState] /\ y \in LoopState /\ Good(messages) /\ calls \in Nat
  BY DEF LoopInv, SlotOK, SharedOK, TurnOK
<1>2. /\ loop' \in [Loops -> LoopState] /\ loop'[t] = y
      /\ \A u \in Loops \ {t} : loop'[u] = loop[u]
  BY <1>1
<1>3. SlotOK'
  <2>1. slot' # NoLoop => loop'[slot'].at # "off"
    BY <1>2 DEF LoopInv, SlotOK
  <2>2. slot' \in Loops \cup {NoLoop}
    BY DEF LoopInv, SlotOK
  <2> QED BY <1>2, <2>1, <2>2 DEF SlotOK
<1>4. TurnsOK' /\ SharedOK' /\ FreshOK'
  <2>1. \A u \in Loops : TurnOK(loop'[u])
    BY <1>2 DEF LoopInv, TurnsOK
  <2>2. \A c \in Ids(messages') : c \in Ids(messages)
    OBVIOUS
  <2>3. \A u \in Loops \ {t} : Carries(loop'[u]) = Carries(loop[u]) /\ loop'[u].sent = loop[u].sent
    BY <1>2
  <2> QED BY <1>1, <1>2, <2>1, <2>2, <2>3, CallsMove DEF LoopInv
<1>5. RanOK'
  <2> SUFFICES ASSUME NEW c \in ran'
               PROVE  InHistory(c)' \/ \E u \in Loops : ~loop'[u].tick /\ CarriedBy(loop'[u], c)
    BY DEF RanOK
  <2>1. CASE InHistory(c)
    BY <2>1 DEF InHistory
  <2>2. ASSUME NEW u \in Loops, ~loop[u].tick, CarriedBy(loop[u], c)
        PROVE  \E v \in Loops : ~loop'[v].tick /\ CarriedBy(loop'[v], c)
    BY <1>2, <2>2
  <2>3. CASE ~y.tick /\ CarriedBy(y, c)
    BY <1>2, <2>3
  <2> QED BY <2>1, <2>2, <2>3 DEF LoopInv, RanOK
<1> QED BY <1>3, <1>4, <1>5 DEF LoopInv

\* The next round of a turn, or its end.
LEMMA AgainKeeps ==
  ASSUME LoopInv, NEW t \in Loops, loop[t].todo = <<>>, loop[t].at # "off", NEW x \in LoopState,
         x.tick = loop[t].tick, x.todo = <<>>, x.records = loop[t].records,
         Good(x.sent), Ids(x.sent) \subseteq 0..calls, Again(t, x)
  PROVE  LoopInv'
<1>1. CASE x.aborted \/ x.count >= StepCap(x)
  BY <1>1, EndKeeps DEF Again
<1>2. CASE ~(x.aborted \/ x.count >= StepCap(x))
  <2> DEFINE y == [x EXCEPT !.at = "asking", !.idle = 0]
  <2>1. /\ y \in LoopState /\ y.at = "asking" /\ y.todo = <<>> /\ y.records = x.records
        /\ y.sent = x.sent /\ y.tick = x.tick
    BY DEF LoopState
  <2>2. loop' = [loop EXCEPT ![t] = y] /\ UNCHANGED <<messages, slot, calls, ran, started>>
    BY <1>2 DEF Again
  <2> HIDE DEF y
  <2>3. TurnOK(loop[t]) /\ Apart(loop[t])
    BY DEF LoopInv, TurnsOK, TurnOK
  <2>4. /\ Apart(y) /\ Carries(y) = Carries(loop[t])
        /\ \A c : CarriedBy(loop[t], c) => CarriedBy(y, c)
    <3>1. \A i : Got(y, i) = Got(loop[t], i)
      BY <2>1 DEF Got
    <3>2. loop[t].at # "tool"
      BY <2>3 DEF TurnOK
    <3> QED BY <2>1, <2>3, <3>1, <3>2 DEF Apart, Carries, CarriedBy
  <2>5. TurnOK(y)
    BY <2>1, <2>4, NothingToDo DEF TurnOK
  <2>6. calls' \in Nat /\ calls <= calls' /\ started' \in Nat /\ slot' = slot /\ messages' = messages
        /\ calls' = calls
    BY <2>2 DEF LoopInv, SlotOK
  <2>7. \A c \in ran' : c \in Nat /\ c \in ran
    BY <2>2 DEF LoopInv, SlotOK
  <2>8. Ids(y.sent) \subseteq 0..calls'
    BY <2>1, <2>6
  <2> QED BY <2>1, <2>2, <2>4, <2>5, <2>6, <2>7, <2>8, TurnKeeps
<1> QED BY <1>1, <1>2

\* What LoopInv says of a turn that waits for the model or for onStepFinish.
LEMMA Waiting ==
  ASSUME LoopInv, NEW t \in Loops, loop[t].at \in {"asking", "step"}
  PROVE  /\ loop[t] \in LoopState /\ loop[t].todo = <<>> /\ Ids(loop[t].sent) \subseteq 0..calls
         /\ loop[t].at = "asking" \/ ~loop[t].aborted => Good(loop[t].sent)
         /\ loop[t].at = "step" => loop[t].records # <<>>
<1>1. TurnOK(loop[t])
  BY DEF LoopInv, TurnsOK
<1>2. loop[t] \in LoopState /\ loop[t].todo = <<>>
  BY <1>1 DEF TurnOK
<1> QED BY <1>1, <1>2, NothingToDo DEF TurnOK, LoopInv, FreshOK

\* A word of the operator, or of a nudge, at the end of a transcript.
LEMMA AppendWord ==
  ASSUME NEW s, Good(s), NEW w \in Msg, w.role # "tool", w.calls = <<>>
  PROVE  /\ Good(Append(s, w)) /\ Ids(Append(s, w)) = Ids(s)
         /\ ToSet(s) \subseteq ToSet(Append(s, w))
<1>1. Append(s, w) = s \o <<w>>
  BY DEF Good
<1>2. Good(<<w>>) /\ Ids(<<w>>) = {}
  BY GoodWord
<1>3. /\ Good(s \o <<w>>) /\ Ids(s \o <<w>>) = Ids(s) \cup Ids(<<w>>)
      /\ ToSet(s \o <<w>>) = ToSet(s) \cup ToSet(<<w>>)
  BY <1>2, GoodConcat
<1> QED BY <1>1, <1>2, <1>3

\* The turn ends without an answer.
LEMMA NoAnswerKeeps ==
  ASSUME LoopInv, NEW t \in Loops, NoAnswer(t)
  PROVE  LoopInv'
BY Waiting, EndKeeps DEF NoAnswer

\* onStepFinish throws.
LEMMA StepFailsKeeps ==
  ASSUME LoopInv, NEW t \in Loops, StepFails(t)
  PROVE  LoopInv'
BY Waiting, EndKeeps DEF StepFails

\* The turn ends, goes on or is nudged.
LEMMA StepFinishedKeeps ==
  ASSUME LoopInv, NEW t \in Loops, StepFinished(t)
  PROVE  LoopInv'
<1> DEFINE x == loop[t]
           n == Len(x.records)
<1>1. /\ x \in LoopState /\ x.todo = <<>> /\ Ids(x.sent) \subseteq 0..calls
      /\ ~x.aborted => Good(x.sent)
      /\ x.at = "step" /\ x.records # <<>>
  BY Waiting DEF StepFinished
<1>2. x.records \in Seq(PhaseRecord) /\ n \in Nat /\ DOMAIN x.records = 1..n /\ n \in 1..n
  BY <1>1 DEF LoopState
<1>3. CASE End(t, x)
  BY <1>1, <1>3, EndKeeps
<1>4. CASE ~x.aborted /\ Again(t, x)
  BY <1>1, <1>4, AgainKeeps
<1>5. CASE ~x.aborted /\ Again(t, Nudged(x))
  <2>1. PICK y : y = Nudged(x)
    OBVIOUS
  <2>2. Append(x.sent, User) \in Seq(Msg)
    BY <1>1, Messages DEF LoopState
  <2>3. /\ y \in LoopState /\ y.tick = x.tick /\ y.todo = x.todo /\ y.records = x.records
        /\ y.sent = Append(x.sent, User)
    BY <1>1, <2>1, <2>2 DEF LoopState, Nudged
  <2>4. User.calls = <<>>
    BY DEF User, Message
  <2>5. Good(y.sent) /\ Ids(y.sent) \subseteq 0..calls
    BY <1>1, <1>5, <2>3, <2>4, Messages, AppendWord
  <2>6. Again(t, y)
    BY <1>5, <2>1
  <2> QED BY <1>1, <2>3, <2>5, <2>6, AgainKeeps
<1>6. CASE End(t, Final(x))
  <2>1. PICK y : y = Final(x)
    OBVIOUS
  <2>2. PICK r : r = [x.records EXCEPT ![n].final = TRUE]
    OBVIOUS
  <2>3. /\ r \in Seq(PhaseRecord) /\ DOMAIN r = DOMAIN x.records
        /\ \A i \in DOMAIN r : r[i].results = x.records[i].results
    <3>1. PICK f : f = [x.records[n] EXCEPT !.final = TRUE]
      OBVIOUS
    <3>2. x.records[n] \in PhaseRecord
      BY <1>2
    <3>3. f \in PhaseRecord /\ f.results = x.records[n].results
      BY <3>1, <3>2 DEF PhaseRecord
    <3>4. r = [x.records EXCEPT ![n] = f]
      BY <2>2, <3>1
    <3> QED BY <1>2, <3>3, <3>4
  <2>4. y = [x EXCEPT !.records = r]
    BY <2>1, <2>2 DEF Final
  <2>5. y \in LoopState /\ y.tick = x.tick /\ y.todo = x.todo /\ y.records = r
    BY <1>1, <2>3, <2>4 DEF LoopState
  <2>6. End(t, y)
    BY <1>6, <2>1
  <2> QED BY <1>1, <2>3, <2>5, <2>6, EndKeeps
<1> QED BY <1>1, <1>3, <1>4, <1>5, <1>6 DEF StepFinished

\* Telling a turn to stop changes nothing else of it.
LEMMA Told ==
  ASSUME NEW x, TurnOK(x), x.at # "off", NEW b \in BOOLEAN, NEW y,
         y = [x EXCEPT !.aborted = @ \/ b]
  PROVE  /\ y \in LoopState /\ TurnOK(y) /\ Carries(y) = Carries(x) /\ y.sent = x.sent
         /\ y.tick = x.tick /\ y.at = x.at /\ \A c : CarriedBy(y, c) <=> CarriedBy(x, c)
<1>1. x \in LoopState
  BY DEF TurnOK
<1>2. x.aborted \in BOOLEAN
  BY <1>1 DEF LoopState
<1>3. (x.aborted \/ b) \in BOOLEAN
  OBVIOUS
<1>4. /\ y \in LoopState /\ y.at = x.at /\ y.todo = x.todo /\ y.records = x.records /\ y.sent = x.sent
      /\ y.tick = x.tick
  BY <1>1, <1>3 DEF LoopState
<1>5. ~y.aborted => ~x.aborted
  <2>1. y.aborted = (x.aborted \/ b)
    BY <1>1 DEF LoopState
  <2> QED BY <2>1
<1>6. \A i : Got(y, i) = Got(x, i)
  BY <1>4 DEF Got
<1>7. Apart(y) /\ Carries(y) = Carries(x) /\ \A c : CarriedBy(y, c) <=> CarriedBy(x, c)
  BY <1>4, <1>6 DEF TurnOK, Apart, Carries, CarriedBy
<1> QED BY <1>4, <1>5, <1>7 DEF TurnOK

\* A turn starts; f is loop with the turn before it told to stop, or not.
LEMMA StartKeeps ==
  ASSUME LoopInv, NEW t \in Loops, NEW isTick \in BOOLEAN, Start(t, isTick),
         NEW f \in [Loops -> LoopState], loop' = [f EXCEPT ![t] = Begun(isTick)],
         \A u \in Loops :
           /\ TurnOK(f[u]) /\ Carries(f[u]) = Carries(loop[u]) /\ f[u].sent = loop[u].sent
           /\ f[u].tick = loop[u].tick /\ \A c : CarriedBy(f[u], c) <=> CarriedBy(loop[u], c)
  PROVE  LoopInv'
<1> DEFINE y == Begun(isTick)
<1>1. /\ Good(messages) /\ Ids(messages) \subseteq 0..calls /\ calls \in Nat
      /\ loop[t] = IdleLoop /\ t # NoLoop
  BY AgentLoopAssumption DEF LoopInv, SlotOK, SharedOK, FreshOK, TurnsOK, TurnOK, Start, Loops, NoLoop
<1>2. User.calls = <<>> /\ User.role # "tool" /\ User \in Msg
  BY Messages DEF User, Message
<1>3. /\ Good(messages') /\ Ids(messages') = Ids(messages) /\ ToSet(messages) \subseteq ToSet(messages')
  BY <1>1, <1>2, AppendWord DEF Start
<1>4. PICK s : s = IF isTick THEN <<User>> ELSE messages'
  OBVIOUS
<1>5. Good(s) /\ Ids(s) \subseteq 0..calls /\ s \in Seq(Msg)
  <2>1. Good(<<User>>) /\ Ids(<<User>>) = {}
    BY <1>2, GoodWord
  <2>2. Good(s) /\ Ids(s) \subseteq 0..calls
    BY <1>1, <1>3, <1>4, <2>1
  <2> QED BY <2>2 DEF Good
<1>6. y = [IdleLoop EXCEPT !.at = "asking", !.tick = isTick, !.sent = s]
  BY <1>4 DEF Begun
<1>7. /\ y \in LoopState /\ y.at = "asking" /\ y.todo = <<>> /\ y.records = <<>> /\ y.sent = s
  <2>1. IdleLoop \in LoopState /\ IdleLoop.todo = <<>> /\ IdleLoop.records = <<>>
    BY NotOff DEF IdleLoop
  <2> QED BY <1>5, <1>6, <2>1 DEF LoopState
<1> HIDE DEF y
<1>8. Apart(y) /\ Carries(y) = {}
  <2>1. Apart(IdleLoop) /\ Carries(IdleLoop) = {} /\ IdleLoop.todo = <<>> /\ IdleLoop.records = <<>>
    BY NotOff DEF TurnOK, IdleLoop
  <2>2. \A i : Got(y, i) = Got(IdleLoop, i)
    BY <1>7, <2>1 DEF Got
  <2> QED BY <1>7, <2>1, <2>2 DEF Apart, Carries
<1>9. TurnOK(y)
  BY <1>5, <1>7, <1>8, NothingToDo DEF TurnOK
<1>10. /\ loop' \in [Loops -> LoopState] /\ loop'[t] = y
       /\ \A u \in Loops \ {t} : loop'[u] = f[u]
  BY <1>7 DEF y
<1>11. calls' = calls /\ ran' = ran /\ started' \in Nat /\ slot' = t
  BY DEF Start, LoopInv, SlotOK
<1>12. SlotOK'
  BY <1>7, <1>10, <1>11 DEF LoopInv, SlotOK
<1>13. TurnsOK' /\ SharedOK' /\ FreshOK'
  <2>1. \A u \in Loops : TurnOK(loop'[u])
    BY <1>9, <1>10
  <2>2. \A u \in Loops \ {t} : Carries(loop'[u]) = Carries(loop[u]) /\ loop'[u].sent = loop[u].sent
    BY <1>10
  <2>3. Ids(loop'[t].sent) \subseteq 0..calls' /\ Carries(loop'[t]) = {}
    BY <1>5, <1>7, <1>8, <1>10, <1>11
  <2>4. calls' \in Nat /\ calls <= calls'
    BY <1>1, <1>11
  <2> QED BY <1>1, <1>3, <2>1, <2>2, <2>3, <2>4, CallsMove DEF LoopInv
<1>14. RanOK'
  <2> SUFFICES ASSUME NEW c \in ran
               PROVE  InHistory(c)' \/ \E u \in Loops : ~loop'[u].tick /\ CarriedBy(loop'[u], c)
    BY <1>11 DEF RanOK
  <2>1. CASE InHistory(c)
    <3>1. PICK m \in ToSet(messages') : Remembers(m, c)
      BY <1>1, <1>3, <2>1, HistoryRemembers
    <3> QED BY <3>1 DEF InHistory, Remembers, ToSet
  <2>2. ASSUME NEW u \in Loops, ~loop[u].tick, CarriedBy(loop[u], c)
        PROVE  \E v \in Loops : ~loop'[v].tick /\ CarriedBy(loop'[v], c)
    <3>1. u # t
      BY <1>1, <2>2, NotOff
    <3> QED BY <1>10, <2>2, <3>1
  <2> QED BY <2>1, <2>2 DEF LoopInv, RanOK
<1> QED BY <1>12, <1>13, <1>14 DEF LoopInv

\* A turn starts on a free slot.
LEMMA StartFreeKeeps ==
  ASSUME LoopInv, NEW t \in Loops, StartFree(t)
  PROVE  LoopInv'
<1>1. PICK isTick \in BOOLEAN : Start(t, isTick) /\ loop' = [loop EXCEPT ![t] = Begun(isTick)]
  BY DEF StartFree
<1>2. loop \in [Loops -> LoopState] /\ \A u \in Loops : TurnOK(loop[u])
  BY DEF LoopInv, SlotOK, TurnsOK
<1> QED BY <1>1, <1>2, StartKeeps

\* An operator turn takes the slot of another.
LEMMA TakeOverKeeps ==
  ASSUME LoopInv, NEW t \in Loops, TakeOver(t)
  PROVE  LoopInv'
<1>1. PICK told \in BOOLEAN :
        loop' = [loop EXCEPT ![slot].aborted = @ \/ told, ![t] = Begun(FALSE)]
  BY DEF TakeOver
<1>2. /\ loop \in [Loops -> LoopState] /\ \A u \in Loops : TurnOK(loop[u])
      /\ slot \in Loops /\ loop[slot].at # "off"
  BY DEF LoopInv, SlotOK, TurnsOK, TakeOver
<1>3. PICK y : y = [loop[slot] EXCEPT !.aborted = @ \/ told]
  OBVIOUS
<1>4. /\ y \in LoopState /\ TurnOK(y) /\ Carries(y) = Carries(loop[slot]) /\ y.sent = loop[slot].sent
      /\ y.tick = loop[slot].tick /\ \A c : CarriedBy(y, c) <=> CarriedBy(loop[slot], c)
  BY <1>2, <1>3, Told
<1>5. PICK f : f = [loop EXCEPT ![slot] = y]
  OBVIOUS
<1>6. f \in [Loops -> LoopState] /\ f[slot] = y /\ \A u \in Loops \ {slot} : f[u] = loop[u]
  BY <1>2, <1>4, <1>5
<1>7. loop' = [f EXCEPT ![t] = Begun(FALSE)]
  BY <1>1, <1>3, <1>5
<1>8. \A u \in Loops :
        /\ TurnOK(f[u]) /\ Carries(f[u]) = Carries(loop[u]) /\ f[u].sent = loop[u].sent
        /\ f[u].tick = loop[u].tick /\ \A c : CarriedBy(f[u], c) <=> CarriedBy(loop[u], c)
  BY <1>2, <1>4, <1>6
<1>9. Start(t, FALSE)
  BY DEF TakeOver
<1> QED BY <1>6, <1>7, <1>8, <1>9, StartKeeps

\* A turn is told to stop.
LEMMA AbortTurnKeeps ==
  ASSUME LoopInv, NEW t \in Loops, AbortTurn(t)
  PROVE  LoopInv'
<1>1. TurnOK(loop[t]) /\ loop[t].at # "off" /\ loop[t] \in LoopState /\ loop \in [Loops -> LoopState]
  BY DEF LoopInv, SlotOK, TurnsOK, TurnOK, AbortTurn
<1>2. PICK y : y = [loop[t] EXCEPT !.aborted = TRUE]
  OBVIOUS
<1>3. y = [loop[t] EXCEPT !.aborted = @ \/ TRUE]
  BY <1>2
<1>4. /\ TurnOK(y) /\ Carries(y) = Carries(loop[t]) /\ y.sent = loop[t].sent
      /\ y.tick = loop[t].tick /\ y.at = loop[t].at
      /\ \A c : CarriedBy(y, c) <=> CarriedBy(loop[t], c)
  <2>1. PICK x : x = loop[t]
    OBVIOUS
  <2>2. TurnOK(x) /\ x.at # "off" /\ y = [x EXCEPT !.aborted = @ \/ TRUE]
    BY <1>1, <1>3, <2>1
  <2>3. /\ TurnOK(y) /\ Carries(y) = Carries(x) /\ y.sent = x.sent /\ y.tick = x.tick
        /\ y.at = x.at /\ \A c : CarriedBy(y, c) <=> CarriedBy(x, c)
    BY <2>2, Told
  <2> QED BY <2>1, <2>3
<1>5. loop' = [loop EXCEPT ![t] = y]
  BY <1>2 DEF AbortTurn
<1>6. /\ calls' = calls /\ calls' \in Nat /\ calls <= calls' /\ started' \in Nat /\ messages' = messages
      /\ slot' \in {slot, NoLoop} /\ \A c \in ran' : c \in Nat /\ c \in ran
  BY DEF AbortTurn, LoopInv, SlotOK
<1>7. Ids(y.sent) \subseteq 0..calls'
  BY <1>4, <1>6 DEF LoopInv, FreshOK
<1> QED BY <1>1, <1>4, <1>5, <1>6, <1>7, TurnKeeps

\* The stream was silent and is asked for again.
LEMMA IdleKeeps ==
  ASSUME LoopInv, NEW t \in Loops, Idle(t)
  PROVE  LoopInv'
<1>1. TurnOK(loop[t]) /\ loop[t].at = "asking" /\ loop[t] \in LoopState
  BY DEF LoopInv, TurnsOK, TurnOK, Idle
<1>2. PICK y : y = [loop[t] EXCEPT !.idle = @ + 1]
  OBVIOUS
<1>3. /\ y \in LoopState /\ y.at = loop[t].at /\ y.todo = loop[t].todo /\ y.records = loop[t].records
      /\ y.sent = loop[t].sent /\ y.tick = loop[t].tick /\ y.aborted = loop[t].aborted
  <2>1. loop[t].idle + 1 \in Nat
    BY <1>1 DEF LoopState
  <2> QED BY <1>1, <1>2, <2>1 DEF LoopState
<1>4. \A i : Got(y, i) = Got(loop[t], i)
  BY <1>3 DEF Got
<1>5. /\ Apart(y) /\ Carries(y) = Carries(loop[t])
      /\ \A c : CarriedBy(loop[t], c) => CarriedBy(y, c)
  BY <1>1, <1>3, <1>4 DEF TurnOK, Apart, Carries, CarriedBy
<1>6. TurnOK(y)
  BY <1>1, <1>3, <1>5 DEF TurnOK
<1>7. loop' = [loop EXCEPT ![t] = y]
  BY <1>2 DEF Idle
<1>8. /\ calls' = calls /\ calls' \in Nat /\ calls <= calls' /\ started' \in Nat /\ messages' = messages
      /\ slot' \in {slot, NoLoop} /\ \A c \in ran' : c \in Nat /\ c \in ran
  BY DEF Idle, LoopInv, SlotOK
<1>9. Ids(y.sent) \subseteq 0..calls'
  BY <1>3, <1>8 DEF LoopInv, FreshOK
<1> QED BY <1>1, <1>3, <1>5, <1>6, <1>7, <1>8, <1>9, TurnKeeps

\* Calls of a new answer are numbered from the next one on.
LEMMA CallsAreNew ==
  ASSUME calls \in Nat, NEW n \in Nat
  PROVE  /\ NewCalls(n) \in Seq(Nat) /\ IsInjective(NewCalls(n)) /\ Len(NewCalls(n)) = n
         /\ ToSet(NewCalls(n)) = (calls + 1)..(calls + n)
         /\ n # 0 => Head(NewCalls(n)) = calls + 1
<1> DEFINE q == NewCalls(n)
<1>1. q = [i \in 1..n |-> calls + i]
  BY DEF NewCalls
<1>2. q \in Seq(Nat) /\ Len(q) = n /\ DOMAIN q = 1..n /\ \A i \in 1..n : q[i] = calls + i
  BY <1>1
<1> HIDE DEF q
<1>3. IsInjective(q)
  BY <1>2 DEF IsInjective
<1>4. \A c : c \in ToSet(q) <=> \E i \in 1..n : c = calls + i
  BY <1>2 DEF ToSet
<1>5. \A c \in (calls + 1)..(calls + n) : c - calls \in 1..n /\ c = calls + (c - calls)
  OBVIOUS
<1>6. \A i \in 1..n : calls + i \in (calls + 1)..(calls + n)
  OBVIOUS
<1>7. ToSet(q) = (calls + 1)..(calls + n)
  <2>1. ASSUME NEW c \in ToSet(q) PROVE c \in (calls + 1)..(calls + n)
    <3>1. PICK i \in 1..n : c = calls + i
      BY <1>4
    <3> QED BY <1>6, <3>1
  <2>2. ASSUME NEW c \in (calls + 1)..(calls + n) PROVE c \in ToSet(q)
    <3>1. c - calls \in 1..n /\ c = calls + (c - calls)
      BY <1>5
    <3> QED BY <1>4, <3>1
  <2> QED BY <2>1, <2>2
<1>8. n # 0 => Head(q) = calls + 1
  <2>1. n # 0 => 1 \in 1..n
    OBVIOUS
  <2>2. n # 0 => Head(q) = q[1]
    BY <1>2
  <2> QED BY <1>2, <2>1, <2>2
<1> QED BY <1>2, <1>3, <1>7, <1>8 DEF q

\* One more message.
LEMMA AppendTo ==
  ASSUME NEW s \in Seq(Msg), NEW m \in Msg
  PROVE  /\ Append(s, m) = s \o <<m>> /\ Append(s, m) \in Seq(Msg) /\ <<m>> \in Seq(Msg)
         /\ \A d : d \in ToSet(Append(s, m)) <=> d \in ToSet(s) \/ d = m
<1>1. Append(s, m) = s \o <<m>> /\ Append(s, m) \in Seq(Msg)
  OBVIOUS
<1>2. <<m>> \in Seq(Msg)
  OBVIOUS
<1>3. ToSet(s \o <<m>>) = ToSet(s) \cup ToSet(<<m>>)
  <2>1. PICK w : w = <<m>>
    OBVIOUS
  <2>2. w \in Seq(Msg)
    BY <1>2, <2>1
  <2>3. ToSet(s \o w) = ToSet(s) \cup ToSet(w)
    BY <2>2, Concat
  <2> QED BY <2>1, <2>3
<1>4. ToSet(<<m>>) = {m}
  BY DEF ToSet
<1> QED BY <1>1, <1>2, <1>3, <1>4

\* Three transcripts in a row.
LEMMA Rows ==
  ASSUME NEW s \in Seq(Msg), NEW t \in Seq(Msg), NEW u \in Seq(Msg)
  PROVE  s \o (t \o u) = (s \o t) \o u
<1> QED BY ConcatAssociative, SMTT(30)

\* An answer whose calls are known nowhere joins a turn.
LEMMA Answered ==
  ASSUME NEW x, TurnOK(x), x.at = "asking", ~x.aborted,
         NEW q \in Seq(Nat), IsInjective(q), ToSet(q) \cap Carries(x) = {}, ToSet(q) \cap Ids(x.sent) = {},
         NEW r \in PhaseRecord, r.results = <<>>, NEW y \in LoopState,
         y.sent = Append(x.sent, Assistant(q)), y.records = Append(x.records, r), y.todo = q,
         y.at \in {"step", "tool"}, y.at = "tool" <=> q # <<>>, y.tick = x.tick
  PROVE  /\ TurnOK(y)
         /\ Carries(y) \subseteq Carries(x) \cup ToSet(q) /\ Ids(y.sent) \subseteq Ids(x.sent)
         /\ \A c : CarriedBy(x, c) => CarriedBy(y, c)
<1>1. x \in LoopState /\ x.todo = <<>> /\ Good(x.sent) /\ Apart(x)
  BY NothingToDo DEF TurnOK
<1> DEFINE n == Len(x.records)
           rs == Append(x.records, r)
           s == Append(x.sent, Assistant(q))
<1>2. /\ n \in Nat /\ DOMAIN x.records = 1..n /\ rs \in Seq(PhaseRecord) /\ DOMAIN rs = 1..(n + 1)
      /\ rs[n + 1] = r /\ \A i \in 1..n : rs[i] = x.records[i]
  <2>1. x.records \in Seq(PhaseRecord)
    BY <1>1 DEF LoopState
  <2> QED BY <2>1
<1>3. s \in Seq(Msg)
  BY <1>1, Messages DEF LoopState
<1>4. y.sent = s /\ y.records = rs
  BY DEF s, rs
<1> HIDE DEF n, rs, s
<1>5. /\ \A i \in 1..n : Got(y, i) = Got(x, i) /\ y.records[i] = x.records[i]
      /\ Got(y, n + 1) = {} /\ y.records[n + 1].results = <<>>
      /\ DOMAIN y.records = 1..(n + 1)
  BY <1>2, <1>4, GoodEmpty DEF Got
<1>6. \A i \in 1..(n + 1) : i \in 1..n \/ i = n + 1
  BY <1>2
<1>7. \A i \in 1..n : i \in 1..(n + 1)
  BY <1>2
<1>8. /\ \A i \in 1..n : IsInjective(x.records[i].results) /\ Got(x, i) \subseteq Carries(x)
      /\ \A i, j \in 1..n : i # j => Got(x, i) \cap Got(x, j) = {}
  BY <1>1, <1>2 DEF Apart, Carries
<1>9. IsInjective(<<>>)
  BY DEF IsInjective
<1>10. Apart(y)
  <2>1. ASSUME NEW i \in 1..(n + 1)
        PROVE  IsInjective(y.records[i].results) /\ Got(y, i) \cap ToSet(q) = {}
    <3>1. CASE i \in 1..n
      <4>1. y.records[i] = x.records[i] /\ Got(y, i) = Got(x, i)
        BY <1>5, <3>1
      <4>2. IsInjective(x.records[i].results) /\ Got(x, i) \subseteq Carries(x)
        BY <1>8, <3>1
      <4> QED BY <4>1, <4>2
    <3>2. CASE i = n + 1
      BY <1>5, <1>9, <3>2
    <3> QED BY <1>6, <3>1, <3>2
  <2>2. ASSUME NEW i \in 1..(n + 1), NEW j \in 1..(n + 1), i # j
        PROVE  Got(y, i) \cap Got(y, j) = {}
    <3>1. CASE i = n + 1 \/ j = n + 1
      BY <1>5, <3>1
    <3>2. CASE i \in 1..n /\ j \in 1..n
      <4>1. Got(y, i) = Got(x, i) /\ Got(y, j) = Got(x, j)
        BY <1>5, <3>2
      <4>2. Got(x, i) \cap Got(x, j) = {}
        BY <1>8, <2>2, <3>2
      <4> QED BY <4>1, <4>2
    <3> QED BY <1>6, <3>1, <3>2
  <2>3. DOMAIN y.records = 1..(n + 1)
    BY <1>5
  <2> QED BY <2>1, <2>2, <2>3 DEF Apart
<1>11. Carries(y) \subseteq Carries(x) \cup ToSet(q)
  <2> SUFFICES ASSUME NEW c \in Carries(y), c \notin ToSet(q) PROVE c \in Carries(x)
    OBVIOUS
  <2>1. PICK i \in DOMAIN y.records : c \in Got(y, i)
    BY DEF Carries
  <2>2. i \in 1..(n + 1)
    BY <1>5
  <2>3. i # n + 1
    BY <1>5, <2>1
  <2>4. i \in 1..n
    BY <1>6, <2>2, <2>3
  <2>5. c \in Got(x, i)
    BY <1>5, <2>1, <2>4
  <2> QED BY <1>8, <2>4, <2>5
<1>12. \A c : CarriedBy(x, c) => CarriedBy(y, c)
  BY <1>2, <1>5, <1>7 DEF CarriedBy
<1>13. Ids(y.sent) \subseteq Ids(x.sent)
  <2>1. x.sent \in Seq(Msg) /\ Assistant(q) \in Msg
    BY <1>1, Messages DEF LoopState
  <2>2. \A d : d \in ToSet(s) <=> d \in ToSet(x.sent) \/ d = Assistant(q)
    BY <2>1, AppendTo DEF s
  <2>3. \A c \in Nat : Result(c) # Assistant(q)
    BY Messages
  <2> QED BY <1>4, <2>2, <2>3 DEF Ids
<1>14. Good(y.sent \o Answers(y.todo))
  <2>1. /\ Good(<<Assistant(q)>> \o Answers(q))
        /\ Ids(<<Assistant(q)>> \o Answers(q)) = ToSet(q)
    BY GoodBlock
  <2>2. Good(x.sent \o (<<Assistant(q)>> \o Answers(q)))
    BY <1>1, <2>1, GoodConcat
  <2>3. x.sent \in Seq(Msg)
    BY <1>1 DEF LoopState
  <2>4. Assistant(q) \in Msg
    BY Messages
  <2>5. <<Assistant(q)>> \in Seq(Msg) /\ s = x.sent \o <<Assistant(q)>>
    BY <2>3, <2>4, AppendTo DEF s
  <2>6. Answers(q) \in Seq(Msg)
    BY AnswersAre
  <2>7. x.sent \o (<<Assistant(q)>> \o Answers(q)) = (x.sent \o <<Assistant(q)>>) \o Answers(q)
    <3>1. PICK v, w : v = <<Assistant(q)>> /\ w = Answers(q)
      OBVIOUS
    <3>2. v \in Seq(Msg) /\ w \in Seq(Msg)
      BY <2>5, <2>6, <3>1
    <3>3. x.sent \o (v \o w) = (x.sent \o v) \o w
      BY <2>3, <3>2, Rows
    <3> QED BY <3>1, <3>3
  <2> QED BY <1>4, <2>2, <2>5, <2>7
<1>15. y.records # <<>>
  BY <1>2, <1>4
<1>16. TurnOK(y)
  BY <1>4, <1>10, <1>14, <1>15 DEF TurnOK
<1> QED BY <1>4, <1>11, <1>12, <1>13, <1>16

\* The model answers.
LEMMA AnswerKeeps ==
  ASSUME LoopInv, NEW t \in Loops, Answer(t)
  PROVE  LoopInv'
<1>1. PICK n \in 0..2, text \in Text, more \in BOOLEAN :
        /\ calls' = calls + n
        /\ IF n = 0 /\ text = "none" THEN EmptyAnswer(t)
           ELSE /\ loop' = [loop EXCEPT ![t] = [Asked(loop[t], NewCalls(n), text, more) EXCEPT
                                                  !.at = IF n = 0 THEN "step" ELSE "tool",
                                                  !.todo = NewCalls(n)]]
                /\ ran' = IF n = 0 \/ Asked(loop[t], NewCalls(n), text, more).tick
                          THEN ran ELSE ran \cup {calls + 1}
                /\ UNCHANGED <<messages, slot, started>>
  BY ZenonT(30) DEF Answer
<1>2. loop[t].at = "asking" /\ ~loop[t].aborted /\ TurnOK(loop[t])
  BY DEF LoopInv, TurnsOK, Answer
<1>3. /\ loop[t] \in LoopState /\ loop[t].todo = <<>> /\ Ids(loop[t].sent) \subseteq 0..calls
      /\ Good(loop[t].sent)
  BY <1>2, Waiting
<1>4. /\ calls \in Nat /\ n \in Nat /\ ran \subseteq Nat /\ started \in Nat
      /\ Carries(loop[t]) \subseteq 0..calls
  BY DEF LoopInv, SlotOK, FreshOK
<1>5. CASE n = 0 /\ text = "none"
  <2>1. PICK x : x = [loop[t] EXCEPT !.count = @ + 1]
    OBVIOUS
  <2>2. loop[t].count + 1 \in Nat
    BY <1>3 DEF LoopState
  <2>3. /\ x \in LoopState /\ x.tick = loop[t].tick /\ x.todo = <<>>
        /\ x.records = loop[t].records /\ x.sent = loop[t].sent
    BY <1>3, <2>1, <2>2 DEF LoopState
  <2>4. Again(t, x)
    BY <1>1, <1>5, <2>1 DEF EmptyAnswer
  <2> QED BY <1>2, <1>3, <2>3, <2>4, AgainKeeps
<1>6. CASE ~(n = 0 /\ text = "none")
  <2>1. PICK q : q = NewCalls(n)
    OBVIOUS
  <2>2. /\ q \in Seq(Nat) /\ IsInjective(q) /\ Len(q) = n /\ ToSet(q) = (calls + 1)..(calls + n)
        /\ n # 0 => Head(q) = calls + 1
    BY <1>4, <2>1, CallsAreNew
  <2>3. n = 0 <=> q = <<>>
    BY <2>2
  <2>4. \A c \in (calls + 1)..(calls + n) : c \notin 0..calls /\ c \in 0..(calls + n)
    BY <1>4
  <2>5. ToSet(q) \cap Carries(loop[t]) = {} /\ ToSet(q) \cap Ids(loop[t].sent) = {}
    BY <1>3, <1>4, <2>2, <2>4
  <2>6. PICK y : y = [Asked(loop[t], q, text, more) EXCEPT
                        !.at = IF q = <<>> THEN "step" ELSE "tool", !.todo = q]
    OBVIOUS
  <2>7. /\ TurnOK(y) /\ y.at \in {"step", "tool"} /\ y.tick = loop[t].tick /\ y.todo = q
        /\ Carries(y) \subseteq Carries(loop[t]) \cup ToSet(q) /\ Ids(y.sent) \subseteq Ids(loop[t].sent)
        /\ \A c : CarriedBy(loop[t], c) => CarriedBy(y, c)
    <3>1. PICK x : x = loop[t]
      OBVIOUS
    <3>2. /\ TurnOK(x) /\ x.at = "asking" /\ ~x.aborted
          /\ ToSet(q) \cap Carries(x) = {} /\ ToSet(q) \cap Ids(x.sent) = {}
      BY <1>2, <2>5, <3>1
    <3>3. PICK r : r = Record(q, text, more)
      OBVIOUS
    <3>4. r \in PhaseRecord /\ r.results = <<>>
      <4>1. <<>> \in Seq(Nat) /\ q \in Seq(Nat)
        BY <2>2
      <4> QED BY <3>3, <4>1 DEF Record, PhaseRecord
    <3>5. x \in LoopState
      BY <3>2 DEF TurnOK
    <3>6. /\ y \in LoopState /\ y.sent = Append(x.sent, Assistant(q)) /\ y.records = Append(x.records, r)
          /\ y.todo = q /\ y.at \in {"step", "tool"} /\ (y.at = "tool" <=> q # <<>>)
          /\ y.tick = x.tick
      <4>1. /\ Append(x.sent, Assistant(q)) \in Seq(Msg) /\ Append(x.records, r) \in Seq(PhaseRecord)
            /\ x.count + 1 \in Nat
        BY <2>2, <3>4, <3>5, Messages DEF LoopState
      <4>2. PICK a : a = IF q = <<>> THEN "step" ELSE "tool"
        OBVIOUS
      <4>3. y = [x EXCEPT !.count = x.count + 1, !.sent = Append(x.sent, Assistant(q)),
                          !.records = Append(x.records, r), !.at = a, !.todo = q]
        BY <2>6, <3>1, <3>3, <3>5, <4>2 DEF Asked, LoopState
      <4>4. a \in {"step", "tool"} /\ (a = "tool" <=> q # <<>>)
        BY <4>2
      <4> QED BY <2>2, <3>5, <4>1, <4>3, <4>4 DEF LoopState
    <3>7. q \in Seq(Nat) /\ IsInjective(q)
      BY <2>2
    <3>8. /\ TurnOK(y)
          /\ Carries(y) \subseteq Carries(x) \cup ToSet(q) /\ Ids(y.sent) \subseteq Ids(x.sent)
          /\ \A c : CarriedBy(x, c) => CarriedBy(y, c)
      BY <3>2, <3>4, <3>6, <3>7, Answered
    <3> QED BY <3>1, <3>6, <3>8
  <2>8. loop' = [loop EXCEPT ![t] = y] /\ messages' = messages /\ slot' = slot /\ started' = started
    BY <1>1, <1>6, <2>1, <2>3, <2>6
  <2>9. /\ calls' = calls + n /\ calls' \in Nat /\ calls <= calls' /\ started' \in Nat
        /\ slot' \in {slot, NoLoop}
    BY <1>1, <1>4, <2>8
  <2>10. \A c \in Carries(y) : c \in Carries(loop[t]) \/ c \in (calls + 1)..calls'
    BY <2>2, <2>7, <2>9
  <2>11. Ids(y.sent) \subseteq 0..calls'
    <3>1. \A c \in 0..calls : c \in 0..calls'
      BY <1>4, <2>9
    <3> QED BY <1>3, <2>7, <3>1
  <2>12. Asked(loop[t], q, text, more).tick = loop[t].tick
    BY <1>3 DEF Asked, LoopState
  <2>13. \A c \in ran' : c \in Nat /\ (c \in ran \/ (~y.tick /\ CarriedBy(y, c)))
    <3> SUFFICES ASSUME NEW c \in ran', c \notin ran
                 PROVE  c \in Nat /\ ~y.tick /\ CarriedBy(y, c)
      BY <1>4
    <3>1. n # 0 /\ ~loop[t].tick /\ c = calls + 1
      BY <1>1, <1>6, <2>1, <2>12
    <3>2. y.at = "tool" /\ c = Head(y.todo)
      BY <2>2, <2>3, <2>7, <3>1 DEF TurnOK
    <3> QED BY <1>4, <2>7, <3>1, <3>2 DEF CarriedBy
  <2> QED BY <1>2, <2>7, <2>8, <2>9, <2>10, <2>11, <2>13, TurnKeeps
<1> QED BY <1>5, <1>6

\* The first of some calls, and the others.
LEMMA FirstAndRest ==
  ASSUME NEW q \in Seq(Nat), q # <<>>, IsInjective(q)
  PROVE  /\ Head(q) \in Nat /\ Head(q) \in ToSet(q) /\ Head(q) \notin ToSet(Tail(q))
         /\ Tail(q) \in Seq(Nat) /\ IsInjective(Tail(q)) /\ ToSet(Tail(q)) \subseteq ToSet(q)
         /\ Answers(q) = <<Result(Head(q))>> \o Answers(Tail(q))
<1>1. PICK n \in Nat : n = Len(q)
  OBVIOUS
<1>2. /\ n >= 1 /\ DOMAIN q = 1..n /\ \A i \in 1..n : q[i] \in Nat
  BY <1>1
<1>3. PICK r : r = Tail(q)
  OBVIOUS
<1>4. /\ Head(q) = q[1] /\ r \in Seq(Nat) /\ Len(r) = n - 1 /\ DOMAIN r = 1..(n - 1)
      /\ \A i \in 1..(n - 1) : r[i] = q[i + 1]
  BY <1>1, <1>2, <1>3
<1>5. 1 \in 1..n /\ \A i \in 1..(n - 1) : i + 1 \in 1..n /\ i + 1 # 1
  BY <1>2
<1>6. \A i, j \in 1..n : q[i] = q[j] => i = j
  BY <1>2 DEF IsInjective
<1>7. \A i, j \in 1..(n - 1) : r[i] = r[j] => i = j
  <2> SUFFICES ASSUME NEW i \in 1..(n - 1), NEW j \in 1..(n - 1), r[i] = r[j] PROVE i = j
    OBVIOUS
  <2>1. i + 1 \in 1..n /\ j + 1 \in 1..n
    BY <1>5
  <2>2. q[i + 1] = q[j + 1]
    BY <1>4
  <2>3. i + 1 = j + 1
    BY <1>6, <2>1, <2>2
  <2> QED BY <2>3
<1>8. IsInjective(r)
  BY <1>4, <1>7 DEF IsInjective
<1>9. /\ \A d : d \in ToSet(q) <=> \E i \in 1..n : d = q[i]
      /\ \A d : d \in ToSet(r) <=> \E i \in 1..(n - 1) : d = r[i]
  BY <1>2, <1>4 DEF ToSet
<1>10. Head(q) \in ToSet(q) /\ Head(q) \notin ToSet(r) /\ ToSet(r) \subseteq ToSet(q)
  <2>1. Head(q) \in ToSet(q)
    BY <1>4, <1>5, <1>9
  <2>2. ASSUME Head(q) \in ToSet(r) PROVE FALSE
    <3>1. PICK i \in 1..(n - 1) : q[1] = r[i]
      BY <1>4, <1>9, <2>2
    <3>2. q[1] = q[i + 1] /\ i + 1 \in 1..n /\ i + 1 # 1
      BY <1>4, <1>5, <3>1
    <3> QED BY <1>5, <1>6, <3>2
  <2>3. ASSUME NEW d \in ToSet(r) PROVE d \in ToSet(q)
    <3>1. PICK i \in 1..(n - 1) : d = r[i]
      BY <1>9
    <3>2. d = q[i + 1] /\ i + 1 \in 1..n
      BY <1>4, <1>5, <3>1
    <3> QED BY <1>9, <3>2
  <2> QED BY <2>1, <2>2, <2>3
<1>11. Answers(q) = <<Result(Head(q))>> \o Answers(r)
  <2>1. /\ Answers(q) \in Seq(Msg) /\ Len(Answers(q)) = n
        /\ \A i \in 1..n : Answers(q)[i] = Result(q[i])
    BY <1>1, AnswersAre
  <2>2. /\ Answers(r) \in Seq(Msg) /\ Len(Answers(r)) = n - 1
        /\ \A i \in 1..(n - 1) : Answers(r)[i] = Result(r[i])
    BY <1>4, AnswersAre
  <2>3. Result(Head(q)) \in Msg
    BY <1>2, <1>4, <1>5, Messages
  <2>4. PICK m : m = <<Result(Head(q))>> \o Answers(r)
    OBVIOUS
  <2>5. PICK w : w = <<Result(Head(q))>>
    OBVIOUS
  <2>6. w \in Seq(Msg) /\ Len(w) = 1 /\ w[1] = Result(Head(q))
    BY <2>3, <2>5
  <2>7. PICK v : v = Answers(r)
    OBVIOUS
  <2>8. /\ m = w \o v /\ v \in Seq(Msg) /\ Len(v) = n - 1
        /\ \A i \in 1..(n - 1) : v[i] = Result(r[i])
    BY <2>2, <2>4, <2>5, <2>7
  <2>9. /\ w \o v \in Seq(Msg) /\ Len(w \o v) = Len(w) + Len(v)
        /\ \A i \in 1..Len(w) : (w \o v)[i] = w[i]
        /\ \A i \in 1..Len(v) : (w \o v)[Len(w) + i] = v[i]
    <3>1. w \in Seq(Msg) /\ v \in Seq(Msg)
      BY <2>6, <2>8
    <3> QED BY <3>1, Concat
  <2>10. m \in Seq(Msg) /\ Len(m) = n /\ m[1] = w[1] /\ \A i \in 1..(n - 1) : m[1 + i] = v[i]
    BY <2>6, <2>8, <2>9
  <2>11. ASSUME NEW i \in 1..n PROVE m[i] = Answers(q)[i]
    <3>1. CASE i = 1
      BY <1>4, <1>5, <2>1, <2>6, <2>10, <3>1
    <3>2. CASE i # 1
      <4>1. i - 1 \in 1..(n - 1) /\ (i - 1) + 1 = i /\ 1 + (i - 1) = i
        BY <1>1, <3>2
      <4>2. m[i] = v[i - 1]
        BY <2>10, <4>1
      <4>3. v[i - 1] = Result(r[i - 1]) /\ r[i - 1] = q[i]
        BY <1>4, <2>8, <4>1
      <4> QED BY <2>1, <4>2, <4>3
    <3> QED BY <3>1, <3>2
  <2> QED BY <2>1, <2>4, <2>10, <2>11
<1> QED BY <1>2, <1>3, <1>4, <1>5, <1>8, <1>10, <1>11

\* One more result.
LEMMA OneMore ==
  ASSUME NEW q \in Seq(Nat), IsInjective(q), NEW c \in Nat, c \notin ToSet(q)
  PROVE  /\ Append(q, c) \in Seq(Nat) /\ IsInjective(Append(q, c))
         /\ \A d : d \in ToSet(Append(q, c)) <=> d \in ToSet(q) \/ d = c
<1>1. PICK n \in Nat : n = Len(q)
  OBVIOUS
<1>2. PICK r : r = Append(q, c)
  OBVIOUS
<1>3. /\ DOMAIN q = 1..n /\ r \in Seq(Nat) /\ DOMAIN r = 1..(n + 1)
      /\ r[n + 1] = c /\ \A i \in 1..n : r[i] = q[i]
  BY <1>1, <1>2
<1>4. \A i \in 1..(n + 1) : i \in 1..n \/ i = n + 1
  OBVIOUS
<1>5. n + 1 \in 1..(n + 1) /\ \A i \in 1..n : i \in 1..(n + 1)
  OBVIOUS
<1>6. \A d : d \in ToSet(q) <=> \E i \in 1..n : d = q[i]
  BY <1>3 DEF ToSet
<1>7. \A d : d \in ToSet(r) <=> \E i \in 1..(n + 1) : d = r[i]
  BY <1>3 DEF ToSet
<1>8. \A d : d \in ToSet(r) <=> d \in ToSet(q) \/ d = c
  BY <1>3, <1>4, <1>5, <1>6, <1>7
<1>9. \A i, j \in 1..n : q[i] = q[j] => i = j
  BY <1>3 DEF IsInjective
<1>10. \A i, j \in 1..(n + 1) : r[i] = r[j] => i = j
  BY <1>3, <1>4, <1>6, <1>9
<1> QED BY <1>2, <1>3, <1>8, <1>10 DEF IsInjective

\* A tool has returned: its call leaves those to do for the results of the last answer.
LEMMA Returned ==
  ASSUME NEW x, TurnOK(x), x.at = "tool",
         NEW rest \in {<<>>, Tail(x.todo)}, ~x.aborted => rest = Tail(x.todo),
         NEW y \in LoopState, y.sent = Append(x.sent, Result(Head(x.todo))), y.todo = rest,
         y.at \in {"step", "tool"}, y.at = "tool" <=> rest # <<>>,
         y.tick = x.tick, y.aborted = x.aborted, DOMAIN y.records = DOMAIN x.records,
         NEW last \in DOMAIN x.records,
         y.records[last].results = Append(x.records[last].results, Head(x.todo)),
         \A i \in DOMAIN x.records \ {last} : y.records[i].results = x.records[i].results
  PROVE  /\ TurnOK(y) /\ Head(x.todo) \in Carries(x)
         /\ Carries(y) \subseteq Carries(x)
         /\ \A c \in Ids(y.sent) : c \in Ids(x.sent) \/ c = Head(x.todo)
         /\ \A c : CarriedBy(x, c) => CarriedBy(y, c)
<1>1. /\ x \in LoopState /\ x.todo \in Seq(Nat) /\ x.todo # <<>> /\ IsInjective(x.todo)
      /\ x.sent \in Seq(Msg) /\ Apart(x)
  BY DEF TurnOK, LoopState, Apart
<1>2. PICK q : q = x.todo
  OBVIOUS
<1>3. /\ Head(q) \in Nat /\ Head(q) \in ToSet(q) /\ Head(q) \notin ToSet(Tail(q))
      /\ Tail(q) \in Seq(Nat) /\ IsInjective(Tail(q)) /\ ToSet(Tail(q)) \subseteq ToSet(q)
      /\ Answers(q) = <<Result(Head(q))>> \o Answers(Tail(q))
  BY <1>1, <1>2, FirstAndRest
<1>4. PICK c : c = Head(q)
  OBVIOUS
<1>5. /\ c \in Nat /\ c \in ToSet(q) /\ c \notin ToSet(rest) /\ ToSet(rest) \subseteq ToSet(q)
      /\ IsInjective(rest) /\ rest \in Seq(Nat)
  <2>1. CASE rest = Tail(q)
    BY <1>3, <1>4, <2>1
  <2>2. CASE rest = <<>>
    <3>1. ToSet(<<>>) = {} /\ <<>> \in Seq(Nat) /\ IsInjective(<<>>)
      BY GoodEmpty DEF IsInjective
    <3> QED BY <1>3, <1>4, <2>2, <3>1
  <2> QED BY <1>2, <2>1, <2>2
<1>6. /\ \A i \in DOMAIN x.records : IsInjective(x.records[i].results) /\ Got(x, i) \cap ToSet(q) = {}
      /\ \A i, j \in DOMAIN x.records : i # j => Got(x, i) \cap Got(x, j) = {}
  BY <1>1, <1>2 DEF Apart
<1>7. x.records[last].results \in Seq(Nat)
  <2>1. x.records \in Seq(PhaseRecord)
    BY <1>1 DEF LoopState
  <2>2. x.records[last] \in PhaseRecord
    BY <2>1
  <2> QED BY <2>2 DEF PhaseRecord
<1>8. /\ IsInjective(y.records[last].results)
      /\ \A d : d \in Got(y, last) <=> d \in Got(x, last) \/ d = c
  <2>1. PICK p : p = x.records[last].results
    OBVIOUS
  <2>2. p \in Seq(Nat) /\ IsInjective(p) /\ c \notin ToSet(p) /\ y.records[last].results = Append(p, c)
    BY <1>2, <1>4, <1>5, <1>6, <1>7, <2>1 DEF Got
  <2>3. /\ IsInjective(Append(p, c))
        /\ \A d : d \in ToSet(Append(p, c)) <=> d \in ToSet(p) \/ d = c
    BY <1>5, <2>2, OneMore
  <2> QED BY <2>1, <2>2, <2>3 DEF Got
<1>9. \A i \in DOMAIN x.records \ {last} : Got(y, i) = Got(x, i) /\ IsInjective(y.records[i].results)
  BY <1>6 DEF Got
<1>10. Apart(y)
  <2>1. \A i \in DOMAIN x.records : IsInjective(y.records[i].results) /\ Got(y, i) \cap ToSet(rest) = {}
    <3>1. Got(y, last) \cap ToSet(rest) = {}
      BY <1>5, <1>6, <1>8
    <3>2. \A i \in DOMAIN x.records \ {last} : Got(y, i) \cap ToSet(rest) = {}
      BY <1>5, <1>6, <1>9
    <3> QED BY <1>8, <1>9, <3>1, <3>2
  <2>2. \A i, j \in DOMAIN x.records : i # j => Got(y, i) \cap Got(y, j) = {}
    BY <1>5, <1>6, <1>8, <1>9
  <2> QED BY <1>5, <2>1, <2>2 DEF Apart
<1>11. Head(x.todo) \in Carries(x)
  BY <1>2, <1>4, <1>5 DEF Carries
<1>12. Carries(y) \subseteq Carries(x)
  <2> SUFFICES ASSUME NEW d \in Carries(y) PROVE d \in Carries(x)
    OBVIOUS
  <2>1. CASE d \in ToSet(rest)
    BY <1>2, <1>5, <2>1 DEF Carries
  <2>2. CASE d \notin ToSet(rest)
    <3>1. PICK i \in DOMAIN x.records : d \in Got(y, i)
      BY <2>2 DEF Carries
    <3>2. d \in Got(x, i) \/ d = c
      BY <1>8, <1>9, <3>1
    <3> QED BY <1>2, <1>4, <1>11, <3>2 DEF Carries
  <2> QED BY <2>1, <2>2
<1>13. \A d : d \in ToSet(y.sent) <=> d \in ToSet(x.sent) \/ d = Result(c)
  <2>1. Result(c) \in Msg
    BY <1>5, Messages
  <2>2. y.sent = Append(x.sent, Result(c)) /\ x.sent \in Seq(Msg)
    BY <1>1, <1>2, <1>4
  <2> QED BY <2>1, <2>2, AppendTo
<1>14. \A d \in Ids(y.sent) : d \in Ids(x.sent) \/ d = c
  BY <1>13, Messages DEF Ids
<1>15. \A d : CarriedBy(x, d) => CarriedBy(y, d)
  <2> SUFFICES ASSUME NEW d, CarriedBy(x, d) PROVE \E i \in DOMAIN x.records : d \in Got(y, i)
    BY DEF CarriedBy
  <2>1. CASE d = Head(x.todo)
    BY <1>2, <1>4, <1>8, <2>1
  <2>2. ASSUME NEW i \in DOMAIN x.records, d \in Got(x, i)
        PROVE  d \in Got(y, i)
    BY <1>8, <1>9, <2>2
  <2> QED BY <2>1, <2>2 DEF CarriedBy
<1>16. ~y.aborted => Good(y.sent \o Answers(y.todo))
  <2> SUFFICES ASSUME ~x.aborted PROVE Good(y.sent \o Answers(rest))
    OBVIOUS
  <2>1. Good(x.sent \o Answers(q)) /\ rest = Tail(q)
    BY <1>2 DEF TurnOK
  <2>2. Result(c) \in Msg
    BY <1>5, Messages
  <2>3. y.sent = x.sent \o <<Result(c)>> /\ <<Result(c)>> \in Seq(Msg)
    BY <1>1, <1>2, <1>4, <2>2, AppendTo
  <2>4. Answers(rest) \in Seq(Msg)
    BY <1>5, AnswersAre
  <2>5. x.sent \o (<<Result(c)>> \o Answers(rest)) = (x.sent \o <<Result(c)>>) \o Answers(rest)
    <3>1. PICK v, w : v = <<Result(c)>> /\ w = Answers(rest)
      OBVIOUS
    <3>2. x.sent \in Seq(Msg) /\ v \in Seq(Msg) /\ w \in Seq(Msg)
      BY <1>1, <2>3, <2>4, <3>1
    <3>3. x.sent \o (v \o w) = (x.sent \o v) \o w
      BY <3>2, Rows
    <3> QED BY <3>1, <3>3
  <2>6. Answers(q) = <<Result(c)>> \o Answers(rest)
    BY <1>3, <1>4, <2>1
  <2> QED BY <2>1, <2>3, <2>5, <2>6
<1>17. y.records # <<>>
  BY <1>1
<1>18. TurnOK(y)
  BY <1>10, <1>16, <1>17 DEF TurnOK
<1> QED BY <1>2, <1>4, <1>11, <1>12, <1>14, <1>15, <1>18

\* A tool returns.
LEMMA ToolReturnsKeeps ==
  ASSUME LoopInv, NEW t \in Loops, ToolReturns(t)
  PROVE  LoopInv'
<1>1. /\ loop \in [Loops -> LoopState] /\ TurnOK(loop[t]) /\ loop[t].at = "tool"
      /\ Carries(loop[t]) \subseteq 0..calls /\ Ids(loop[t].sent) \subseteq 0..calls
      /\ calls \in Nat /\ ran \subseteq Nat /\ started \in Nat
  BY DEF LoopInv, SlotOK, TurnsOK, FreshOK, ToolReturns
<1>2. PICK x : x = loop[t]
  OBVIOUS
<1>3. /\ x \in LoopState /\ TurnOK(x) /\ x.at = "tool"
      /\ x.todo \in Seq(Nat) /\ x.todo # <<>> /\ IsInjective(x.todo) /\ x.records # <<>>
      /\ x.sent \in Seq(Msg) /\ x.records \in Seq(PhaseRecord)
  BY <1>1, <1>2 DEF TurnOK, LoopState, Apart
<1>4. /\ Head(x.todo) \in Nat /\ Tail(x.todo) \in Seq(Nat) /\ Head(x.todo) \in ToSet(x.todo)
  BY <1>3, FirstAndRest
<1>5. PICK rest : rest = IF x.aborted THEN <<>> ELSE Tail(x.todo)
  OBVIOUS
<1>6. rest \in {<<>>, Tail(x.todo)} /\ rest \in Seq(Nat) /\ (~x.aborted => rest = Tail(x.todo))
  BY <1>4, <1>5
<1>7. PICK last : last = Len(x.records)
  OBVIOUS
<1>8. last \in DOMAIN x.records /\ x.records[last] \in PhaseRecord
  BY <1>3, <1>7
<1>9. PICK r : r = [x.records[last] EXCEPT !.results = Append(@, Head(x.todo))]
  OBVIOUS
<1>10. r \in PhaseRecord /\ r.results = Append(x.records[last].results, Head(x.todo))
  <2>1. x.records[last].results \in Seq(Nat)
    BY <1>8 DEF PhaseRecord
  <2>2. Append(x.records[last].results, Head(x.todo)) \in Seq(Nat)
    BY <1>4, <2>1
  <2> QED BY <1>8, <1>9, <2>2 DEF PhaseRecord
<1>11. PICK rs : rs = [x.records EXCEPT ![last] = r]
  OBVIOUS
<1>12. /\ rs \in Seq(PhaseRecord) /\ DOMAIN rs = DOMAIN x.records /\ rs[last] = r
       /\ \A i \in DOMAIN x.records \ {last} : rs[i] = x.records[i]
  BY <1>3, <1>8, <1>10, <1>11
<1>13. PICK a : a = IF rest = <<>> THEN "step" ELSE "tool"
  OBVIOUS
<1>14. a \in {"step", "tool"} /\ (a = "tool" <=> rest # <<>>)
  BY <1>13
<1>15. PICK y : y = [x EXCEPT !.sent = Append(x.sent, Result(Head(x.todo))), !.records = rs,
                              !.todo = rest, !.at = a]
  OBVIOUS
<1>16. Append(x.sent, Result(Head(x.todo))) \in Seq(Msg)
  BY <1>3, <1>4, Messages
<1>17. /\ y \in LoopState /\ y.sent = Append(x.sent, Result(Head(x.todo))) /\ y.records = rs
       /\ y.todo = rest /\ y.at = a /\ y.tick = x.tick /\ y.aborted = x.aborted
  BY <1>3, <1>6, <1>12, <1>14, <1>15, <1>16 DEF LoopState
<1>18. loop' = [loop EXCEPT ![t] = y]
  BY <1>1, <1>2, <1>3, <1>5, <1>7, <1>8, <1>9, <1>11, <1>13, <1>15 DEF ToolReturns, LoopState
<1>19. /\ TurnOK(y) /\ Head(x.todo) \in Carries(x) /\ Carries(y) \subseteq Carries(x)
       /\ \A c \in Ids(y.sent) : c \in Ids(x.sent) \/ c = Head(x.todo)
       /\ \A c : CarriedBy(x, c) => CarriedBy(y, c)
  BY <1>3, <1>6, <1>8, <1>10, <1>12, <1>14, <1>17, Returned
<1>20. /\ messages' = messages /\ slot' = slot /\ calls' = calls /\ started' = started
       /\ ran' = IF rest = <<>> \/ x.tick THEN ran ELSE ran \cup {Head(rest)}
  BY <1>2, <1>5 DEF ToolReturns
<1>21. calls' \in Nat /\ calls <= calls' /\ started' \in Nat /\ slot' \in {slot, NoLoop}
  BY <1>1, <1>20
<1>22. Ids(y.sent) \subseteq 0..calls'
  BY <1>1, <1>2, <1>19, <1>20
<1>23. \A c \in ran' : c \in Nat /\ (c \in ran \/ (~y.tick /\ CarriedBy(y, c)))
  <2> SUFFICES ASSUME NEW c \in ran', c \notin ran
               PROVE  c \in Nat /\ ~y.tick /\ CarriedBy(y, c)
    BY <1>1
  <2>1. rest # <<>> /\ ~x.tick /\ c = Head(rest)
    BY <1>20
  <2>2. c \in Nat
    BY <1>6, <2>1
  <2> QED BY <1>14, <1>17, <2>1, <2>2 DEF CarriedBy
<1>24. \A c \in Carries(y) : c \in Carries(loop[t]) \/ c \in (calls + 1)..calls'
  BY <1>2, <1>19
<1>25. y.at # "off" /\ y.tick = loop[t].tick /\ loop[t].at # "off"
       /\ \A c : CarriedBy(loop[t], c) => CarriedBy(y, c)
  BY <1>1, <1>2, <1>14, <1>17, <1>19
<1> QED BY <1>18, <1>19, <1>20, <1>21, <1>22, <1>23, <1>24, <1>25, TurnKeeps

\* Nothing runs and nothing is remembered at the start.
LEMMA LoopInitially == LoopInit => LoopInv
<1> SUFFICES ASSUME LoopInit PROVE LoopInv
  OBVIOUS
<1>1. /\ messages = <<>> /\ slot = NoLoop /\ calls = 0 /\ ran = {} /\ started = 0
      /\ loop \in [Loops -> LoopState] /\ \A t \in Loops : loop[t] = IdleLoop
  BY NotOff DEF LoopInit
<1>2. SlotOK
  BY <1>1 DEF SlotOK
<1>3. TurnsOK
  BY <1>1, NotOff DEF TurnsOK
<1>4. SharedOK
  BY <1>1, NotOff, GoodEmpty DEF SharedOK
<1>5. FreshOK
  BY <1>1, NotOff, GoodEmpty DEF FreshOK
<1> QED BY <1>1, <1>2, <1>3, <1>4, <1>5 DEF LoopInv, RanOK

\* Every step of every turn keeps the invariant.
LEMMA LoopInductive == LoopInv /\ [LoopNext]_loopVars => LoopInv'
<1> SUFFICES ASSUME LoopInv, [LoopNext]_loopVars PROVE LoopInv'
  OBVIOUS
<1>1. ASSUME NEW t \in Loops, StartFree(t) PROVE LoopInv'
  BY <1>1, StartFreeKeeps
<1>2. ASSUME NEW t \in Loops, TakeOver(t) PROVE LoopInv'
  BY <1>2, TakeOverKeeps
<1>3. ASSUME NEW t \in Loops, AbortTurn(t) PROVE LoopInv'
  BY <1>3, AbortTurnKeeps
<1>4. ASSUME NEW t \in Loops, Step(t) PROVE LoopInv'
  BY <1>4, IdleKeeps, NoAnswerKeeps, AnswerKeeps, ToolReturnsKeeps, StepFinishedKeeps, StepFailsKeeps
     DEF Step
<1>5. CASE UNCHANGED loopVars
  BY <1>5 DEF loopVars, LoopInv, SlotOK, TurnsOK, SharedOK, FreshOK, RanOK, InHistory
<1> QED BY <1>1, <1>2, <1>3, <1>4, <1>5 DEF LoopNext

\* The inductive invariant holds.
LEMMA LoopInvariance == LoopSpec => []LoopInv
<1> QED BY LoopInitially, LoopInductive, PTL DEF LoopSpec

\* The shared history, the turns and the slot keep their types; whoever holds the slot runs.
THEOREM LoopTypeCorrect == LoopSpec => []LoopTypeOK
<1>1. LoopInv => LoopTypeOK
  BY DEF LoopInv, SlotOK, SharedOK, Good, LoopTypeOK
<1> QED BY <1>1, LoopInvariance, PTL

\* Whatever turns overlap, however they are aborted and fail: every transcript that
\* runAgentLoopPi sends to the model, and the history projectFinalOnlyHistory leaves to
\* later turns, has each call followed by its one result and no result without its call.
THEOREM TranscriptsPair == LoopSpec => []TranscriptsMatched
<1>1. LoopInv => TranscriptsMatched
  <2> SUFFICES ASSUME LoopInv PROVE TranscriptsMatched
    OBVIOUS
  <2>1. Matched(messages) /\ Unique(messages)
    BY DEF LoopInv, SharedOK, Good
  <2>2. ASSUME NEW t \in Loops, loop[t].at = "asking"
        PROVE  Matched(loop[t].sent) /\ Unique(loop[t].sent)
    BY <2>2, Waiting DEF Good
  <2> QED BY <2>1, <2>2 DEF TranscriptsMatched
<1> QED BY <1>1, LoopInvariance, PTL

\* No tool that ran for the operator is forgotten: its turn still carries the call, or the
\* finally of runAgentLoopPi has left it to the history, itself or behind a final text.
THEOREM NothingForgotten == LoopSpec => []RunsAreRemembered
<1>1. LoopInv => RunsAreRemembered
  BY DEF LoopInv, RanOK, CarriedBy, Got, RunsAreRemembered, Carried
<1> QED BY <1>1, LoopInvariance, PTL
=============================================================================
