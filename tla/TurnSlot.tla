------------------------------ MODULE TurnSlot ------------------------------
(***************************************************************************)
(* Who owns the one turn slot (ServeState.currentTurn), and whose abort      *)
(* signal the CDP layer races its calls against.                            *)
(*                                                                          *)
(* A turn's AbortController is stored in the slot; its signal is copied to   *)
(* the session (turnSignalOwner) and from there to the CDP client, which a   *)
(* tool of the turn may be booting at that moment.  Operator routes release  *)
(* the slot without waiting for the turn ("zombie" below: a turn still in    *)
(* its loop that lost the slot), so teardowns run late.                     *)
(*                                                                          *)
(* Claiming the slot and wiring the signal are one step: between them        *)
(* runOneTurn only awaits the import of a loaded module.  Prompts, retries   *)
(* and the steer poll (an abort, then a claim of a free slot) add nothing.   *)
(***************************************************************************)
EXTENDS Naturals

CONSTANTS
  Turns,     \* turn executions that may overlap (identities are reused)
  NoTurn,    \* no turn, no signal
  MaxBodies  \* bound: /agent/turn requests whose body is still being read

ASSUME TurnSlotAssumption == NoTurn \notin Turns /\ MaxBodies \in Nat

VARIABLES
  turn,         \* the turn executions
  currentTurn,  \* ServeState.currentTurn
  sessionSignal,\* LinkedinSession's turnSignalOwner
  client,       \* the CDP client: [at, signal]
  bodies        \* /agent/turn handlers awaiting readJsonBody

vars == <<turn, currentTurn, sessionSignal, client, bodies>>

Signal == Turns \union {NoTurn}

(* What the tool a turn is in is doing: "boot" awaits getOrInitClient;       *)
(* "moving", "pressed" and "clicked" are the stages of a click: before       *)
(* mousePressed, before mouseReleased, and lastPointerPos written.           *)
Tool == {"none", "boot", "moving", "pressed", "clicked"}
TurnState == [at : {"idle", "loop"}, aborted : BOOLEAN, tool : Tool]

(* "booting": until CdpClient.connect returns; then the signal is copied,     *)
(* and "stealth" are raced calls, "overlay" raw ones; "ready": cached.       *)
Client == [at : {"none", "booting", "stealth", "overlay", "ready"}, signal : Signal]

Init ==
  /\ turn = [t \in Turns |-> [at |-> "idle", aborted |-> FALSE, tool |-> "none"]]
  /\ currentTurn = NoTurn
  /\ sessionSignal = NoTurn
  /\ client = [at |-> "none", signal |-> NoTurn]
  /\ bodies = 0

Aborted(s) == s # NoTurn /\ turn[s].aborted
AbortHolder == IF currentTurn = NoTurn THEN turn
               ELSE [turn EXCEPT ![currentTurn].aborted = TRUE]

-----------------------------------------------------------------------------
(* Taking the slot.                                                         *)

\* A mutant: setTurnAbortSignal only stores the signal when no client is cached.
ClaimKeepsSignal(t) ==
  /\ turn[t].at = "idle"
  /\ t \notin {currentTurn, sessionSignal, client.signal}
  /\ turn' = [turn EXCEPT ![t] = [at |-> "loop", aborted |-> FALSE, tool |-> "none"]]
  /\ currentTurn' = t
  /\ sessionSignal' = IF client.at = "ready" THEN sessionSignal ELSE t
  /\ client' = IF client.at = "ready" THEN [client EXCEPT !.signal = t] ELSE client
\* state.currentTurn = { turnId, abortController }, then setTurnAbortSignal on the
\* session and on the cached client.  An identity nothing refers to is used again.
Claim(t) ==
  /\ turn[t].at = "idle"
  /\ t \notin {currentTurn, sessionSignal, client.signal}
  /\ turn' = [turn EXCEPT ![t] = [at |-> "loop", aborted |-> FALSE, tool |-> "none"]]
  /\ currentTurn' = t
  /\ sessionSignal' = t
  /\ client' = IF client.at = "ready" THEN [client EXCEPT !.signal = t] ELSE client

\* activate, retry, card action, steer, resume, Telegram and the cron tick.
ClaimFree(t) ==
  /\ currentTurn = NoTurn
  /\ Claim(t)
  /\ UNCHANGED bodies

\* /agent/turn up to its await: the holder is aborted and loses the slot.
TurnRequest ==
  /\ bodies < MaxBodies
  /\ bodies' = bodies + 1
  /\ turn' = AbortHolder
  /\ currentTurn' = NoTurn
  /\ UNCHANGED <<sessionSignal, client>>

\* /agent/turn after it: without a prompt nothing, else the slot is taken over from
\* whoever claimed it meanwhile, unaborted.
BodyRead(t) ==
  /\ bodies > 0
  /\ bodies' = bodies - 1
  /\ Claim(t) \/ UNCHANGED <<turn, currentTurn, sessionSignal, client>>

-----------------------------------------------------------------------------
(* Aborting, and the end of a turn.                                         *)

\* /agent/abort: signal and release.
ForceAbort ==
  /\ currentTurn # NoTurn
  /\ turn' = AbortHolder
  /\ currentTurn' = NoTurn
  /\ UNCHANGED <<sessionSignal, client, bodies>>

\* Overlay abort, auto stop, steer, cancel, SSE loss, the stop tool: signal only.
SignalAbort ==
  /\ currentTurn # NoTurn
  /\ turn' = AbortHolder
  /\ UNCHANGED <<currentTurn, sessionSignal, client, bodies>>

\* The turn's own watchers and its approval gate.
SelfAbort(t) ==
  /\ turn[t].at = "loop"
  /\ turn' = [turn EXCEPT ![t].aborted = TRUE]
  /\ UNCHANGED <<currentTurn, sessionSignal, client, bodies>>

\* A mutant: the teardown clears whatever turn and signal it finds.
ReleaseAny(t) == currentTurn' = NoTurn /\ sessionSignal' = NoTurn
\* A mutant: only a turn that was not aborted gives its slot back.
ReleaseUnaborted(t) ==
  /\ currentTurn' = IF currentTurn = t /\ ~turn[t].aborted THEN NoTurn ELSE currentTurn
  /\ sessionSignal' = IF sessionSignal = t THEN NoTurn ELSE sessionSignal
\* clearCurrentTurnIfOwned, and turnSignalOwner.clear of the session.
ReleaseOwned(t) ==
  /\ currentTurn' = IF currentTurn = t THEN NoTurn ELSE currentTurn
  /\ sessionSignal' = IF sessionSignal = t THEN NoTurn ELSE sessionSignal

\* runOneTurn's finally and its caller's.  A booting client is not cached yet and
\* keeps its signal.
Finish(t) ==
  /\ turn[t].at = "loop" /\ turn[t].tool = "none"
  /\ turn' = [turn EXCEPT ![t].at = "idle"]
  /\ ReleaseOwned(t)
  /\ client' = IF client.at = "ready" /\ client.signal = t
               THEN [client EXCEPT !.signal = NoTurn] ELSE client
  /\ UNCHANGED bodies

-----------------------------------------------------------------------------
(* The CDP client.                                                          *)

\* getOrInitClient without a connected client: start a boot, or join the pending one.
Boot == client' = IF client.at = "none" THEN [client EXCEPT !.at = "booting"] ELSE client

\* A browser tool awaits it,
NeedClient(t) ==
  /\ turn[t].at = "loop" /\ turn[t].tool = "none" /\ ~turn[t].aborted
  /\ client.at # "ready"
  /\ turn' = [turn EXCEPT ![t].tool = "boot"]
  /\ Boot
  /\ UNCHANGED <<currentTurn, sessionSignal, bodies>>

\* or a route does: chrome/ensure and the publish step of workflow/approve.
RouteNeedsClient ==
  /\ client.at = "none"
  /\ Boot
  /\ UNCHANGED <<turn, currentTurn, sessionSignal, bodies>>

\* Connected: client.setTurnAbortSignal(turnSignalOwner.get()).
Inherit ==
  /\ client.at = "booting"
  /\ client' = [at |-> "stealth", signal |-> sessionSignal]
  /\ UNCHANGED <<turn, currentTurn, sessionSignal, bodies>>

\* initPromise settles: whoever awaited the boot goes on.
BootReturns ==
  turn' = [t \in Turns |-> IF turn[t].tool = "boot" THEN [turn[t] EXCEPT !.tool = "none"]
                                                    ELSE turn[t]]
\* Chrome does not start, a call rejects: the boot is forgotten.
BootFails ==
  /\ client.at \in {"booting", "stealth", "overlay"}
  /\ client' = [at |-> "none", signal |-> NoTurn]
  /\ BootReturns
  /\ UNCHANGED <<currentTurn, sessionSignal, bodies>>

\* injectStealth: two calls raced against the inherited signal.
StealthInjected ==
  /\ client.at = "stealth" /\ ~Aborted(client.signal)
  /\ client' = [client EXCEPT !.at = "overlay"]
  /\ UNCHANGED <<turn, currentTurn, sessionSignal, bodies>>

\* installOverlay and onClientBooted, on the raw handle: no signal, no deadline.
OverlayInstalled ==
  /\ client.at = "overlay"
  /\ client' = [client EXCEPT !.at = "ready"]
  /\ BootReturns
  /\ UNCHANGED <<currentTurn, sessionSignal, bodies>>

\* The WebSocket closed: isConnected() is false, the cached client is dropped, and
\* the calls of whoever still holds it reject.
ClientLost ==
  /\ client.at = "ready"
  /\ client' = [at |-> "none", signal |-> NoTurn]
  /\ turn' = [t \in Turns |-> [turn[t] EXCEPT !.tool = IF @ = "boot" THEN @ ELSE "none"]]
  /\ UNCHANGED <<currentTurn, sessionSignal, bodies>>

\* dispatchHumanLikeClickAtCoords: each event is raced against the client's signal
\* of that moment; between events the turn sleeps and does not notice an abort.
NextStage == [moving |-> "pressed", pressed |-> "clicked", clicked |-> "none"]
StartClick(t) ==
  /\ turn[t].at = "loop" /\ turn[t].tool = "none" /\ ~turn[t].aborted
  /\ client.at = "ready"
  /\ turn' = [turn EXCEPT ![t].tool = "moving"]
  /\ UNCHANGED <<currentTurn, sessionSignal, client, bodies>>
MouseEvent(t) ==
  /\ turn[t].tool \in {"moving", "pressed", "clicked"}
  /\ \/ /\ turn[t].tool = "clicked" \/ ~Aborted(client.signal)
        /\ turn' = [turn EXCEPT ![t].tool = NextStage[turn[t].tool]]
     \* raceCdp rejects: an aborted signal, the deadline, a dead socket
     \/ turn' = [turn EXCEPT ![t].tool = "none"]
  /\ UNCHANGED <<currentTurn, sessionSignal, client, bodies>>

Next ==
  \/ \E t \in Turns : \/ ClaimFree(t) \/ BodyRead(t) \/ SelfAbort(t) \/ Finish(t)
                      \/ NeedClient(t) \/ StartClick(t) \/ MouseEvent(t)
  \/ TurnRequest \/ ForceAbort \/ SignalAbort
  \/ RouteNeedsClient \/ Inherit \/ BootFails \/ StealthInjected \/ OverlayInstalled
  \/ ClientLost

Spec == Init /\ [][Next]_vars

(* A turn's loop is cut off by its step cap, so it does not start tools for   *)
(* ever (strong fairness of its end); a raced call settles by its deadline,   *)
(* the start of Chrome by the launcher's polls.                              *)
Fairness ==
  /\ \A t \in Turns : SF_vars(Finish(t)) /\ WF_vars(MouseEvent(t))
  /\ WF_vars(Inherit)
  /\ WF_vars(StealthInjected \/ (client.at = "stealth" /\ BootFails))
LiveSpec == Spec /\ Fairness

(* What nothing in the code bounds: Chrome answers the overlay's calls, or    *)
(* its socket closes.  The raw input calls of the type tool, which are no    *)
(* stage of their own here, need the same for Finish to be fair.             *)
ChromeAnswers == WF_vars(OverlayInstalled \/ BootFails)
AnsweringSpec == LiveSpec /\ ChromeAnswers

-----------------------------------------------------------------------------
(* Properties.                                                              *)

\* Every variable keeps its type, and a turn that ended is in no tool any more.
TypeOK ==
  /\ turn \in [Turns -> TurnState]
  /\ \A t \in Turns : turn[t].at = "idle" => turn[t].tool = "none"
  /\ currentTurn \in Signal
  /\ sessionSignal \in Signal
  /\ client \in Client
  /\ bodies \in 0..MaxBodies

\* The slot is never held by a turn that ended, which would answer every later
\* request with turn_in_progress; and an operator's abort of the holder reaches the
\* session's signal, whatever zombies tear down meanwhile.
HolderIsLive ==
  currentTurn # NoTurn =>
    /\ turn[currentTurn].at = "loop"
    /\ sessionSignal = currentTurn

\* A late teardown of a turn that lost the slot changes neither the slot nor the
\* signals of the turn that has it now.
LateTeardownHarmless ==
  [][\A t \in Turns :
       turn[t].at = "loop" /\ turn'[t].at = "idle" /\ currentTurn # t
         => /\ currentTurn' = currentTurn
            /\ currentTurn # NoTurn => sessionSignal' = sessionSignal]_vars

\* Every turn gives the slot up, without an operator, if Chrome answers: otherwise the
\* cron tick would no-op forever.
SlotComesBack == \A t \in Turns : (currentTurn = t) ~> (currentTurn # t)
=============================================================================
