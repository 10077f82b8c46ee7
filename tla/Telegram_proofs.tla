-------------------------- MODULE Telegram_proofs --------------------------
(* For any number of updates, files, faults and restarts: the channel       *)
(* implements Inbox, and repeats nothing without a fault or a restart.      *)
EXTENDS Telegram, TLAPS

InBatch == pc \in {"update", "media", "submit", "running", "send", "commit"}
Busy == pc \in {"media", "submit", "running", "send", "commit"}
AnsweredBelow(k) == \A v \in Updates : v < k => replies[v] > 0

(* The offset and the batch cursor never pass an unanswered update.         *)
Ordered ==
  /\ offset <= sent + 1 /\ confirmed <= sent + 1 /\ last <= sent
  /\ InBatch => offset <= cur
  /\ Busy => cur <= last
  /\ AnsweredBelow(offset)
  /\ AnsweredBelow(confirmed)
  /\ InBatch => AnsweredBelow(cur)
  /\ pc \in {"running", "send", "commit"} => turns[cur] > 0
  /\ pc = "commit" => replies[cur] > 0

IInv == TypeOK /\ Ordered

(* What is paid for without a fault: the one turn and the one answer of an  *)
(* update that is committed or being processed, and the one turn whose     *)
(* answer a shutdown cut off.  The turns of an update whose answer may be   *)
(* refused are on no account.                                              *)
TurnOwed(u) ==
  u < offset \/ pc = "stopped" \/ (u = cur /\ pc \in {"running", "send", "commit"})
ReplyOwed(u) == u < offset \/ (u = cur /\ pc = "commit")
Price == faults + restarts

Account(u) ==
  /\ u \notin Refusable => turns[u] <= Price + 1 /\ (turns[u] > Price => TurnOwed(u))
  /\ replies[u] <= Price + 1 /\ (replies[u] > Price => ReplyOwed(u))

Accounts == \A u \in Updates : Account(u)

LEMMA InitInv == Init => IInv /\ Accounts
BY TelegramAssumption DEF Init, IInv, Ordered, Accounts, Account, TypeOK, Updates, Places, InBatch, Busy,
   AnsweredBelow, Price, TurnOwed, ReplyOwed

(* An accepted answer is counted for the update it answers, and no other.   *)
LEMMA DeliveredCounts ==
  ASSUME replies \in [Updates -> Nat], cur \in Updates,
         Delivered(1) \/ Delivered(2)
  PROVE /\ replies' \in [Updates -> Nat]
        /\ \A u \in Updates : replies'[u] >= replies[u]
        /\ \A u \in Updates : u # cur => replies'[u] = replies[u]
        /\ replies'[cur] > 0
<1>1. CASE Delivered(1) BY <1>1 DEF Delivered
<1>2. CASE Delivered(2) BY <1>2 DEF Delivered
<1>3. QED BY <1>1, <1>2

(* Abandoning the batch keeps the invariant, whatever was lost on the way.  *)
LEMMA AbandonKeeps ==
  ASSUME IInv, Abandon, Fault \/ UNCHANGED bounds,
         UNCHANGED <<sent, offset, turnVars, life, turns>>,
         confirmed' \in 0..(N + 1), confirmed' <= sent + 1, AnsweredBelow(confirmed)',
         replies' \in [Updates -> Nat], \A u \in Updates : replies'[u] >= replies[u]
  PROVE IInv'
<1>1. pc' \in {"wait", "stopped"} /\ cur' = 1 /\ last' = 0 /\ left' = 0
  BY DEF Abandon
<1>2. faults' \in 0..MaxFaults /\ UNCHANGED <<restarts, others>>
  BY TelegramAssumption DEF Fault, bounds, IInv, TypeOK
<1>3. UNCHANGED <<sent, offset, slot, signal, life, turns>>
  BY DEF turnVars
<1>4. TypeOK'
  <2>1. cur' \in 1..(N + 1) /\ last' \in 0..N /\ left' \in Nat /\ pc' \in Places
    BY <1>1, TelegramAssumption DEF Places
  <2>2. QED BY <1>2, <1>3, <2>1 DEF IInv, TypeOK
<1>5. Ordered'
  <2>1. ASSUME NEW v \in Updates, v < offset' PROVE replies'[v] > 0
    <3>1. replies[v] > 0 BY <1>3, <2>1 DEF IInv, Ordered, AnsweredBelow
    <3>2. QED BY <3>1 DEF IInv, TypeOK
  <2>2. ~InBatch' /\ ~Busy' BY <1>1 DEF InBatch, Busy
  <2>3. last' <= sent' /\ pc' \notin {"running", "send", "commit"}
    BY <1>1, <1>3 DEF IInv, TypeOK
  <2>4. QED BY <1>3, <2>1, <2>2, <2>3 DEF IInv, Ordered, AnsweredBelow
<1>6. QED BY <1>4, <1>5 DEF IInv

LEMMA LoopStep ==
  ASSUME IInv, Loop
  PROVE IInv'
<1> USE TelegramAssumption DEF IInv
<1>0. AnsweredBelow(confirmed) /\ confirmed \in 0..(N + 1) /\ confirmed <= sent + 1
  BY DEF Ordered, TypeOK
<1>1. CASE Poll
  <2>1. /\ confirmed' \in {confirmed, offset}
        /\ UNCHANGED <<sent, offset, turnVars, life, turns, replies>>
    BY <1>1, <1>0 DEF Poll, LargerOf, history
  <2>2. confirmed' \in 0..(N + 1) /\ confirmed' <= sent + 1 /\ AnsweredBelow(confirmed)'
    BY <2>1, <1>0 DEF Ordered, TypeOK, AnsweredBelow
  <2>3. CASE Abandon
    <3>1. Fault \/ UNCHANGED bounds BY <1>1, <2>3 DEF Poll, Abandon
    <3>2. QED BY <2>1, <2>2, <2>3, <3>1, AbandonKeeps DEF TypeOK
  <2>4. CASE /\ confirmed' = LargerOf(confirmed, offset) /\ cur' = FirstKept(confirmed')
             /\ last' = sent /\ pc' = "update" /\ UNCHANGED <<left, bounds>>
    <3>1. cur' \in 1..(N + 1) /\ offset <= cur' /\ AnsweredBelow(cur)'
      BY <2>1, <2>2, <2>4 DEF FirstKept, LargerOf, TypeOK, AnsweredBelow, Updates
    <3>2. TypeOK' BY <2>1, <2>2, <2>4, <3>1 DEF TypeOK, bounds, turnVars, Places
    <3>3. Ordered'
      BY <2>1, <2>2, <2>4, <3>1 DEF Ordered, InBatch, Busy, AnsweredBelow, TypeOK
    <3>4. QED BY <3>2, <3>3
  <2>5. QED BY <1>1, <2>3, <2>4 DEF Poll
<1>2. CASE NextUpdate
  <2>1. UNCHANGED <<sent, confirmed, offset, slot, signal, life, turns, replies>>
    BY <1>2 DEF NextUpdate, turnVars, history
  <2>2. CASE Abandon
    <3>1. Fault \/ UNCHANGED bounds BY <1>2 DEF NextUpdate
    <3>2. QED BY <1>0, <2>1, <2>2, <3>1, AbandonKeeps DEF TypeOK, turnVars, AnsweredBelow
  <2>3. CASE /\ pc = "update" /\ cur <= last /\ pc' = "media" /\ left' = MediaOf[cur]
             /\ UNCHANGED <<cur, last, bounds>>
    <3>1. TypeOK' BY <2>1, <2>3 DEF TypeOK, Ordered, bounds, Places
    <3>2. Ordered' BY <2>1, <2>3 DEF TypeOK, Ordered, InBatch, Busy, AnsweredBelow
    <3>3. QED BY <3>1, <3>2
  <2>4. QED BY <1>2, <2>2, <2>3 DEF NextUpdate
<1>3. CASE Download
  <2>1. UNCHANGED <<sent, confirmed, offset, slot, signal, life, turns, replies>>
    BY <1>3 DEF Download, turnVars, history
  <2>2. CASE Abandon
    <3>1. Fault \/ UNCHANGED bounds BY <1>3 DEF Download
    <3>2. QED BY <1>0, <2>1, <2>2, <3>1, AbandonKeeps DEF TypeOK, turnVars, AnsweredBelow
  <2>3. CASE /\ pc = "media" /\ pc' \in {"media", "submit"} /\ left' \in Nat
             /\ UNCHANGED <<cur, last, bounds>>
    <3>1. TypeOK' BY <2>1, <2>3 DEF TypeOK, bounds, Places
    <3>2. Ordered' BY <2>1, <2>3 DEF TypeOK, Ordered, InBatch, Busy, AnsweredBelow
    <3>3. QED BY <3>1, <3>2
  <2>4. QED BY SMTT(30), <1>3, <2>2, <2>3 DEF Download, Goto, TypeOK
<1>4. CASE Submit
  <2>1. UNCHANGED <<sent, confirmed, offset, life, bounds, replies>> /\ pc = "submit"
    BY <1>4 DEF Submit
  <2>2. CASE Abandon /\ UNCHANGED <<slot, signal, turns>>
    BY <1>0, <2>1, <2>2, AbandonKeeps DEF TypeOK, turnVars, AnsweredBelow
  <2>3. CASE /\ Goto("running") /\ slot' = "tg" /\ signal' = "live"
             /\ turns' = [turns EXCEPT ![cur] = Again(@)]
    <3>1. cur \in Updates BY <2>1 DEF Ordered, Busy, TypeOK, Updates
    <3>2. TypeOK' BY <2>1, <2>3, <3>1 DEF TypeOK, bounds, Places, Goto, Again
    <3>3. turns'[cur'] > 0 BY <2>3, <3>1 DEF TypeOK, Goto, Again
    <3>4. Ordered'
      BY <2>1, <2>3, <3>3 DEF Ordered, InBatch, Busy, AnsweredBelow, Goto
    <3>5. QED BY <3>2, <3>4
  <2>4. QED BY <1>4, <2>2, <2>3 DEF Submit
<1>5. CASE TurnEnds
  <2>1. /\ UNCHANGED <<sent, confirmed, offset, cur, last, left, life, bounds, turns, replies>>
        /\ pc = "running" /\ pc' = "send" /\ signal' = "live"
    BY <1>5 DEF TurnEnds, Goto
  <2>2. slot' \in {"free", "tg", "other"} BY <1>5 DEF TurnEnds, TypeOK
  <2>3. cur \in Updates BY <2>1 DEF Ordered, Busy, TypeOK, Updates
  <2>5. TypeOK' BY <2>1, <2>2 DEF TypeOK, bounds, Places
  <2>6. Ordered' BY <2>1 DEF Ordered, InBatch, Busy, AnsweredBelow
  <2>7. QED BY <2>5, <2>6
<1>6. CASE SendReply
  <2>1. /\ UNCHANGED <<sent, confirmed, offset, slot, signal, life, turns>>
        /\ pc = "send"
    BY <1>6 DEF SendReply, turnVars
  <2>2. cur \in Updates BY <2>1 DEF Ordered, Busy, TypeOK, Updates
  <2>3. /\ replies' \in [Updates -> Nat] /\ \A u \in Updates : replies'[u] >= replies[u]
        /\ UNCHANGED replies \/ replies'[cur] > 0
    <3>1. UNCHANGED replies \/ Delivered(1) \/ Delivered(2) BY <1>6 DEF SendReply
    <3>2. replies \in [Updates -> Nat] BY DEF TypeOK
    <3>3. CASE UNCHANGED replies BY <3>2, <3>3
    <3>4. CASE Delivered(1) \/ Delivered(2) BY <3>2, <3>4, <2>2, DeliveredCounts
    <3>5. QED BY <3>1, <3>3, <3>4
  <2>4. CASE Abandon
    <3>1. Fault \/ UNCHANGED bounds BY <1>6 DEF SendReply
    <3>2. UNCHANGED <<sent, offset, turnVars, life, turns>> BY <2>1 DEF turnVars
    <3>3. confirmed' \in 0..(N + 1) /\ confirmed' <= sent + 1 BY <1>0, <2>1 DEF TypeOK
    <3>4. AnsweredBelow(confirmed)'
      <4>1. AnsweredBelow(confirmed) /\ confirmed' = confirmed BY <1>0, <2>1
      <4>2. QED BY <4>1, <2>3 DEF AnsweredBelow, TypeOK
    <3>5. QED BY <2>3, <2>4, <3>1, <3>2, <3>3, <3>4, AbandonKeeps
  <2>5. CASE /\ Goto("commit")
             /\ Delivered(1) \/ Delivered(2)
             /\ Fault \/ UNCHANGED bounds
    <3>1. faults' \in 0..MaxFaults /\ UNCHANGED <<restarts, others>>
      BY <2>5 DEF Fault, bounds, TypeOK
    <3>2. TypeOK' BY <2>1, <2>3, <2>5, <3>1 DEF TypeOK, Places, Goto
    <3>3. replies'[cur] > 0 BY <2>2, <2>5, DeliveredCounts DEF TypeOK
    <3>4. Ordered'
      BY <2>1, <2>3, <2>5, <3>3 DEF Ordered, InBatch, Busy, AnsweredBelow, Goto, TypeOK
    <3>5. QED BY <3>2, <3>4
  <2>6. QED BY <1>6, <2>4, <2>5 DEF SendReply
<1>7. CASE CommitOffset
  <2>1. /\ UNCHANGED <<sent, confirmed, slot, signal, life, turns, replies>>
        /\ pc = "commit"
    BY <1>7 DEF CommitOffset, turnVars, history
  <2>2. CASE Fault /\ Abandon /\ UNCHANGED offset
    BY <1>0, <2>1, <2>2, AbandonKeeps DEF TypeOK, turnVars, AnsweredBelow
  <2>3. CASE /\ offset' = cur + 1 /\ pc' = "update" /\ cur' = cur + 1
             /\ UNCHANGED <<last, left, bounds>>
    <3>1. cur <= last /\ last <= sent /\ replies[cur] > 0 /\ AnsweredBelow(cur)
      BY <2>1 DEF Ordered, InBatch, Busy
    <3>2. TypeOK' BY <2>1, <2>3, <3>1 DEF TypeOK, bounds, Places
    <3>3. Ordered'
      BY <1>0, <2>1, <2>3, <3>1 DEF Ordered, InBatch, Busy, AnsweredBelow, TypeOK, Updates
    <3>4. QED BY <3>2, <3>3
  <2>4. QED BY <1>7, <2>2, <2>3 DEF CommitOffset
<1>8. CASE NextPoll
  <2>1. /\ UNCHANGED <<sent, confirmed, offset, cur, last, left, slot, signal, life, bounds,
                       turns, replies>>
        /\ pc' \in {"stopped", "poll"}
    BY <1>8 DEF NextPoll, Goto, turnVars, history
  <2>2. TypeOK' BY <2>1 DEF TypeOK, bounds, Places
  <2>3. Ordered' BY <2>1 DEF Ordered, InBatch, Busy, AnsweredBelow
  <2>4. QED BY <2>2, <2>3
<1>9. QED BY <1>1, <1>2, <1>3, <1>4, <1>5, <1>6, <1>7, <1>8 DEF Loop

LEMMA EnvironmentStep ==
  ASSUME IInv, Send \/ OtherTurn \/ Interrupt \/ LoseOffset \/ Stop \/ Restart
  PROVE IInv'
<1> USE TelegramAssumption DEF IInv, TypeOK, Ordered, Updates, Places, InBatch, Busy,
        AnsweredBelow, channel, turnVars, history, bounds, Fault
<1>1. CASE Send BY <1>1 DEF Send
<1>2. CASE OtherTurn
  <2>1. /\ UNCHANGED <<sent, confirmed, offset, pc, cur, last, left, signal, life, faults, restarts,
                       turns, replies>>
        /\ slot' \in {"free", "other"}
    BY <1>2 DEF OtherTurn
  <2>2. others' \in 0..MaxOther BY <1>2 DEF OtherTurn
  <2>3. QED BY <2>1, <2>2
<1>3. CASE Interrupt BY <1>3 DEF Interrupt
<1>4. CASE LoseOffset BY <1>4 DEF LoseOffset
<1>5. CASE Stop BY <1>5 DEF Stop
<1>6. CASE Restart BY <1>6 DEF Restart
<1>7. QED BY <1>1, <1>2, <1>3, <1>4, <1>5, <1>6
LEMMA InvStep == IInv /\ [Next]_vars => IInv'
<1> SUFFICES ASSUME IInv, [Next]_vars PROVE IInv'
  OBVIOUS
<1>1. CASE Loop BY <1>1, LoopStep
<1>2. CASE Send \/ OtherTurn \/ Interrupt \/ LoseOffset \/ Stop \/ Restart
  BY <1>2, EnvironmentStep
<1>3. CASE UNCHANGED vars
  BY <1>3 DEF vars, channel, turnVars, history, bounds, IInv, TypeOK, Ordered, InBatch, Busy,
     AnsweredBelow
<1>4. QED BY <1>1, <1>2, <1>3 DEF Next

LEMMA InvAlways == Spec => []IInv
BY InitInv, InvStep, PTL DEF Spec

(* The types and bounds of every variable; the commits never run past the   *)
(* updates Telegram has handed out.                                        *)
THEOREM TypeCorrect == Spec => []TypeOK
<1>1. IInv => TypeOK BY DEF IInv
<1>2. QED BY <1>1, InvAlways, PTL

-----------------------------------------------------------------------------
(* A fault or a restart pays for whatever is no longer owed.                *)
LEMMA Paid ==
  ASSUME TypeOK, NEW u \in Updates, Account(u), Price' = Price + 1,
         turns'[u] = turns[u], replies'[u] = replies[u]
  PROVE Account(u)'
BY DEF TypeOK, Account, Price

(* Nothing is repeated: what was owed is owed still.                        *)
LEMMA StillOwed ==
  ASSUME TypeOK, NEW u \in Updates, Account(u), Price' = Price,
         turns'[u] = turns[u], replies'[u] = replies[u],
         u \notin Refusable => (TurnOwed(u) => TurnOwed(u)'),
         ReplyOwed(u) => ReplyOwed(u)'
  PROVE Account(u)'
BY DEF TypeOK, Account

LEMMA FaultPays ==
  ASSUME TypeOK, Fault
  PROVE Price' = Price + 1
BY TelegramAssumption DEF TypeOK, Fault, Price

LEMMA AccountStep == IInv /\ Accounts /\ [Next]_vars => Accounts'
<1> SUFFICES ASSUME IInv, Accounts, [Next]_vars, NEW u \in Updates
             PROVE Account(u)'
  BY DEF Accounts, Account
<1>0. Account(u) /\ TypeOK /\ Ordered
  BY DEF Accounts, Account, IInv
<1>1. ASSUME UNCHANGED <<turns, replies, offset, pc, cur, faults, restarts>>
      PROVE Account(u)'
  BY <1>0, <1>1, StillOwed DEF Price, TurnOwed, ReplyOwed
<1>2. CASE Send \/ OtherTurn \/ Interrupt \/ Stop \/ UNCHANGED vars
  <2>1. UNCHANGED <<turns, replies, offset, pc, cur, faults, restarts>>
    BY <1>2 DEF Send, OtherTurn, Interrupt, Stop, vars, channel, turnVars, history, bounds
  <2>2. QED BY <1>1, <2>1
<1>3. CASE LoseOffset
  <2>1. Price' = Price + 1 /\ UNCHANGED <<turns, replies>>
    BY <1>0, <1>3, FaultPays DEF LoseOffset, history
  <2>2. QED BY <1>0, <2>1, Paid
<1>4. CASE Restart
  <2>1. Price' = Price + 1 /\ UNCHANGED <<turns, replies>>
    BY <1>0, <1>4 DEF Restart, Price, TypeOK, history
  <2>2. QED BY <1>0, <2>1, Paid
<1>5. CASE Poll \/ NextUpdate \/ Download
  <2>1. UNCHANGED <<turns, replies, offset>> /\ pc \in {"poll", "update", "media"}
    BY <1>5 DEF Poll, NextUpdate, Download, history
  <2>2. CASE Fault BY <1>0, <2>1, <2>2, FaultPays, Paid
  <2>3. CASE UNCHANGED bounds
    BY <1>0, <2>1, <2>3, StillOwed DEF bounds, Price, TurnOwed, ReplyOwed
  <2>4. QED BY <1>5, <2>2, <2>3 DEF Poll, NextUpdate, Download
<1>6. CASE NextPoll
  <2>1. UNCHANGED <<turns, replies, offset, bounds>> /\ pc = "wait"
    BY <1>6 DEF NextPoll, history
  <2>2. QED BY <1>0, <2>1, StillOwed DEF bounds, Price, TurnOwed, ReplyOwed
<1>7. CASE Submit
  <2>1. UNCHANGED <<replies, offset, bounds, faults, restarts>> /\ pc = "submit"
    BY <1>7 DEF Submit, bounds
  <2>2. CASE UNCHANGED turns
    BY <1>0, <2>1, <2>2, StillOwed DEF Price, TurnOwed, ReplyOwed
  <2>3. CASE Goto("running") /\ turns' = [turns EXCEPT ![cur] = Again(@)]
    <3>1. /\ u \notin Refusable => turns'[u] = IF u = cur THEN turns[u] + 1 ELSE turns[u]
          /\ u # cur => turns'[u] = turns[u]
      BY <1>0, <2>3 DEF TypeOK, Again
    <3>2. u = cur => ~TurnOwed(u) /\ ~ReplyOwed(u)
      BY <1>0, <2>1 DEF TurnOwed, ReplyOwed, Ordered, InBatch, TypeOK
    <3>3. u = cur => TurnOwed(u)' BY <2>3 DEF TurnOwed, Goto
    <3>4. CASE u = cur
      BY <1>0, <2>1, <3>1, <3>2, <3>3, <3>4 DEF Account, Price, TypeOK
    <3>5. CASE u # cur
      BY <1>0, <2>1, <2>3, <3>1, <3>5, StillOwed DEF Price, TurnOwed, ReplyOwed, Goto
    <3>6. QED BY <3>4, <3>5
  <2>4. QED BY <1>7, <2>2, <2>3 DEF Submit
<1>8. CASE TurnEnds
  <2>1. /\ UNCHANGED <<turns, replies, offset, cur, bounds>>
        /\ pc = "running" /\ pc' = "send"
    BY <1>8 DEF TurnEnds, Goto
  <2>2. QED BY <1>0, <2>1, StillOwed DEF bounds, Price, TurnOwed, ReplyOwed
<1>9. CASE SendReply
  <2>1. UNCHANGED <<turns, offset>> /\ pc = "send" BY <1>9 DEF SendReply
  <2>2. u = cur => ~ReplyOwed(u) BY <1>0, <2>1 DEF ReplyOwed, Ordered, InBatch, TypeOK
  <2>3. CASE UNCHANGED <<replies, bounds>> /\ Abandon /\ (Stopping \/ cur \in Refusable)
    BY <1>0, <2>1, <2>3, StillOwed DEF bounds, Price, Abandon, TurnOwed, ReplyOwed
  <2>4. CASE Goto("commit") /\ Delivered(1) /\ UNCHANGED bounds
    <3>1. replies'[u] = IF u = cur THEN replies[u] + 1 ELSE replies[u]
      BY <1>0, <2>4 DEF Delivered, TypeOK
    <3>2. Price' = Price /\ pc' = "commit" /\ cur' = cur BY <2>4 DEF bounds, Price, Goto
    <3>3. CASE u = cur
      BY <1>0, <2>1, <2>2, <3>1, <3>2, <3>3 DEF Account, Price, TypeOK, TurnOwed, ReplyOwed
    <3>4. CASE u # cur
      BY <1>0, <2>1, <3>1, <3>2, <3>4, StillOwed DEF TurnOwed, ReplyOwed
    <3>5. QED BY <3>3, <3>4
  <2>5. CASE \/ Fault /\ Goto("commit") /\ Delivered(2)
             \/ Fault /\ Abandon /\ Delivered(1)
             \/ Fault /\ Abandon /\ UNCHANGED replies
    <3>1. Price' = Price + 1 BY <1>0, <2>5, FaultPays
    <3>2. CASE replies'[u] = replies[u] BY <1>0, <2>1, <3>1, <3>2, Paid
    <3>3. CASE u = cur /\ replies'[u] = replies[u] + 1
      BY <1>0, <2>1, <2>2, <3>1, <3>3 DEF Account, Price, TypeOK
    <3>4. CASE u = cur /\ replies'[u] = replies[u] + 2 /\ Goto("commit")
      <4>1. ReplyOwed(u)' BY <3>4 DEF Goto, ReplyOwed
      <4>2. QED BY <1>0, <2>1, <2>2, <3>1, <3>4, <4>1 DEF Account, Price, TypeOK
    <3>5. QED BY <1>0, <2>5, <3>2, <3>3, <3>4 DEF Delivered, TypeOK
  <2>6. CASE Stopping
    <3>1. UNCHANGED <<replies, bounds>> /\ Abandon BY <1>9, <2>6 DEF SendReply
    <3>2. QED BY <2>3, <2>6, <3>1
  <2>7. CASE ~Stopping
    <3>1. \/ Goto("commit") /\ Delivered(1) /\ UNCHANGED bounds
          \/ Fault /\ Goto("commit") /\ Delivered(2)
          \/ Fault /\ Abandon /\ Delivered(1)
          \/ Fault /\ Abandon /\ UNCHANGED replies
          \/ cur \in Refusable /\ Abandon /\ UNCHANGED <<replies, bounds>>
      BY <1>9, <2>7 DEF SendReply
    <3>2. QED BY <2>3, <2>4, <2>5, <3>1
  <2>8. QED BY <2>6, <2>7
<1>10. CASE CommitOffset
  <2>1. UNCHANGED <<turns, replies>> /\ pc = "commit" BY <1>10 DEF CommitOffset, history
  <2>2. CASE Fault BY <1>0, <2>1, <2>2, FaultPays, Paid
  <2>3. CASE offset' = cur + 1 /\ UNCHANGED bounds
    <3>1. offset' > offset /\ cur < offset'
      BY <1>0, <2>1, <2>3 DEF Ordered, InBatch, TypeOK
    <3>2. u < offset \/ u = cur => u < offset'
      BY <1>0, <2>3, <3>1 DEF TypeOK, Updates
    <3>3. (TurnOwed(u) => TurnOwed(u)') /\ (ReplyOwed(u) => ReplyOwed(u)')
      BY <2>1, <3>2 DEF TurnOwed, ReplyOwed
    <3>4. QED BY <1>0, <2>1, <2>3, <3>3, StillOwed DEF bounds, Price
  <2>4. QED BY <1>10, <2>2, <2>3 DEF CommitOffset
<1>11. QED
  BY <1>2, <1>3, <1>4, <1>5, <1>6, <1>7, <1>8, <1>9, <1>10 DEF Next, Loop

(* A turn or an answer is repeated only at the price of a fault or of a     *)
(* restart, one each; only a refused answer repeats turns for nothing.      *)
THEOREM NothingRepeatedFreely == Spec => []DuplicateBudget
<1>1. IInv /\ Accounts => DuplicateBudget
  <2> SUFFICES ASSUME IInv, Accounts, NEW u \in Updates
               PROVE /\ u \notin Refusable => turns[u] <= 1 + faults + restarts
                     /\ replies[u] <= 1 + faults + restarts
    BY DEF DuplicateBudget
  <2>1. QED BY DEF Accounts, Account, Price, IInv, TypeOK
<1>2. QED BY <1>1, InitInv, InvStep, AccountStep, PTL DEF Spec

-----------------------------------------------------------------------------
LEMMA InitMaps == Init => Inbox!Start
BY DEF Init, Inbox!Start, Updates

LEMMA UpdateStep ==
  ASSUME NEW u \in Updates, Inbox!Work(u) \/ Inbox!Answer(u)
  PROVE Inbox!Step
BY DEF Inbox!Step, Updates

LEMMA StepMaps == IInv /\ [Next]_vars => [Inbox!Step]_Inbox!inboxVars
<1> SUFFICES ASSUME IInv, [Next]_vars
             PROVE Inbox!Step \/ UNCHANGED Inbox!inboxVars
  BY DEF Inbox!inboxVars
<1> USE TelegramAssumption DEF IInv, TypeOK, Ordered, Updates, InBatch, Busy, AnsweredBelow,
        channel, turnVars, history, bounds, Goto, Abandon,
        Stopping, Fault
<1>1. CASE Send
  <2>1. Inbox!Arrive BY <1>1 DEF Send, Inbox!Arrive
  <2>2. QED BY <2>1 DEF Inbox!Step
<1>2. CASE Poll
  <2>1. CASE UNCHANGED confirmed BY <1>2, <2>1 DEF Poll, Inbox!inboxVars
  <2>2. CASE confirmed' = offset /\ offset > confirmed
    <3>1. Inbox!Forget(offset - 1)
      BY <1>2, <2>2 DEF Poll, Inbox!Forget
    <3>2. offset - 1 \in 0..N BY <2>2
    <3>3. QED BY <3>1, <3>2 DEF Inbox!Step
  <2>3. QED BY <1>2, <2>1, <2>2 DEF Poll, LargerOf
<1>3. CASE Submit
  <2>1. CASE UNCHANGED turns BY <1>3, <2>1 DEF Submit, Inbox!inboxVars
  <2>2. CASE turns' = [turns EXCEPT ![cur] = Again(@)]
    <3>0. PICK w \in Updates : w = cur BY <1>3 DEF Submit
    <3>1. cur \in Updates /\ cur <= sent /\ AnsweredBelow(cur) BY <1>3 DEF Submit
    <3>2. {u \in Updates : turns'[u] > 0} = {u \in Updates : turns[u] > 0} \cup {cur}
      BY <2>2, <3>1 DEF Again
    <3>3. UNCHANGED <<sent, replies, confirmed>> BY <1>3 DEF Submit
    <3>4. cur \in 1..sent /\ \A v \in 1..(cur - 1) : v \in {u \in Updates : replies[u] > 0}
      BY <3>1
    <3>5. Inbox!Work(w) BY <3>0, <3>2, <3>3, <3>4 DEF Inbox!Work
    <3>6. QED BY <3>5, UpdateStep
  <2>3. QED BY <1>3, <2>1, <2>2 DEF Submit
<1>4. CASE SendReply
  <2>1. CASE UNCHANGED replies BY <1>4, <2>1 DEF SendReply, Inbox!inboxVars
  <2>2. CASE Delivered(1) \/ Delivered(2)
    <3>0. PICK w \in Updates : w = cur BY <1>4 DEF SendReply
    <3>1. /\ cur \in Updates /\ cur <= sent /\ AnsweredBelow(cur) /\ turns[cur] > 0
      BY <1>4 DEF SendReply
    <3>2. {u \in Updates : replies'[u] > 0} = {u \in Updates : replies[u] > 0} \cup {cur}
      BY <2>2, <3>1, DeliveredCounts
    <3>3. UNCHANGED <<sent, turns, confirmed>> BY <1>4 DEF SendReply
    <3>4. \A v \in 1..(cur - 1) : v \in {u \in Updates : replies[u] > 0} BY <3>1
    <3>5. Inbox!Answer(w) BY <3>0, <3>1, <3>2, <3>3, <3>4 DEF Inbox!Answer
    <3>6. QED BY <3>5, UpdateStep
  <2>3. QED BY <1>4, <2>1, <2>2 DEF SendReply
<1>5. CASE OtherTurn BY <1>5 DEF OtherTurn, Inbox!inboxVars
<1>6. CASE Interrupt BY <1>6 DEF Interrupt, Inbox!inboxVars
<1>7. CASE LoseOffset BY <1>7 DEF LoseOffset, Inbox!inboxVars
<1>8. CASE Stop BY <1>8 DEF Stop, Inbox!inboxVars
<1>9. CASE Restart BY <1>9 DEF Restart, Inbox!inboxVars
<1>10. CASE NextUpdate BY <1>10 DEF NextUpdate, Inbox!inboxVars
<1>11. CASE Download BY <1>11 DEF Download, Inbox!inboxVars
<1>12. CASE TurnEnds BY <1>12 DEF TurnEnds, Inbox!inboxVars
<1>13. CASE CommitOffset BY <1>13 DEF CommitOffset, Inbox!inboxVars
<1>14. CASE NextPoll BY <1>14 DEF NextPoll, Inbox!inboxVars
<1>15. CASE UNCHANGED vars BY <1>15 DEF vars, Inbox!inboxVars
<1>16. QED
  BY <1>1, <1>2, <1>3, <1>4, <1>5, <1>6, <1>7, <1>8, <1>9, <1>10, <1>11, <1>12, <1>13,
     <1>14, <1>15 DEF Next, Loop

(* The channel implements Inbox: in order, at least once, and forgotten     *)
(* only when answered, under every failure, restart and interruption.      *)
THEOREM ImplementsInbox == Spec => KeepsPromise
<1>1. QED
  BY InitMaps, StepMaps, InvAlways, PTL DEF Spec, KeepsPromise, Inbox!Promise
=============================================================================
