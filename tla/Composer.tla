------------------------------ MODULE Composer ------------------------------
(***************************************************************************)
(* What happens in LinkedIn's post composer between the approval of a post    *)
(* and the click on Post.  A publish (the step "filling" of Publish) opens the *)
(* composer, clears it, types its draft, reads it back, waits for the Post     *)
(* button, resolves it, clicks, and watches the composer go.  It runs outside  *)
(* the turn slot, so other publishes, the agent's type tool, the operator and   *)
(* the page itself may touch the same composer between any two of its calls;    *)
(* and its calls race the abort signal of whatever turn is running.  The button *)
(* is a reference into the client's last snapshot, looked up at the click: who  *)
(* takes another snapshot meanwhile gives the reference another meaning.       *)
(*                                                                          *)
(* A text is a sequence of pieces, each typed by somebody.                   *)
(***************************************************************************)
EXTENDS Naturals, Sequences

CONSTANTS
  Posters,   \* each types a draft of its own
  Typists,     \* calls of the type tool on the composer
  Strangers,   \* the operator, and the page: whose pieces are nobody's draft
  Pieces,      \* bound: pieces of a draft
  MaxText,     \* bound: pieces in the composer
  MaxRounds,   \* COMPOSER_OPEN_RETRY_ROUNDS
  MaxTouches   \* bound: how often a stranger touches the composer

Writers == Posters \union Typists

ASSUME ComposerAssumption ==
  /\ Posters \intersect Typists = {} /\ Writers \intersect Strangers = {}
  /\ Pieces \in Nat \ {0} /\ MaxText \in Nat /\ MaxText >= Pieces
  /\ MaxRounds \in Nat \ {0} /\ MaxTouches \in Nat

VARIABLES
  dialog,    \* the composer is there
  text,      \* what is in it, or what the page keeps of it
  at,        \* the call each writer is in
  rounds,    \* opener clicks of a publish
  typed,     \* pieces a writer has typed
  posted,    \* history: what a publish's click posted
  astray,    \* history: publishes whose click hit another control, by another snapshot's refs
  spoiled,   \* history: publishes whose composer was touched after their read-back
  touches    \* history: touches of strangers

composerVars == <<dialog, text, at, rounds, typed, posted, astray, spoiled, touches>>

Piece == (Writers \X (1..Pieces)) \union (Strangers \X {0})
Texts == UNION {[1..n -> Piece] : n \in 0..MaxText}
Draft(w) == [i \in 1..Pieces |-> <<w, i>>]

\* From "click" to "outdated" when another snapshot replaces the refMap it found its button in.
Before == {"opening", "focus", "clear", "type", "enable", "resolve", "click", "outdated"}
Call == Before \union {"confirm", "published", "ambiguous", "gave_up", "typed"}

\* Posters that rely on what they read back.
Relying == {p \in Posters : at[p] \in {"enable", "resolve", "click", "outdated", "confirm"}}
SpoilAll == spoiled' = spoiled \union Relying
SpoilOthers(w) == spoiled' = spoiled \union (Relying \ {w})

ComposerInit ==
  /\ dialog \in BOOLEAN /\ text = <<>>
  /\ at = [w \in Writers |-> IF w \in Posters THEN "opening" ELSE "focus"]
  /\ rounds = [p \in Posters |-> 0]
  /\ typed = [w \in Writers |-> 0]
  /\ posted = [p \in Posters |-> <<>>]
  /\ astray = {} /\ spoiled = {} /\ touches = 0

Goes(w, call) == at' = [at EXCEPT ![w] = call]

-----------------------------------------------------------------------------
(* openComposerHardened                                                     *)

\* A mutant: after the last round it starts over.
ClickOpenerAgain(p) ==
  /\ at[p] = "opening" /\ ~dialog
  /\ dialog' \in BOOLEAN
  /\ rounds' = [rounds EXCEPT ![p] = IF @ = MaxRounds THEN 0 ELSE @ + 1]
  /\ UNCHANGED <<text, at, typed, posted, astray, spoiled, touches>>
\* A round: the click on "Start a post" may come to nothing.
ClickOpener(p) ==
  /\ at[p] = "opening" /\ ~dialog /\ rounds[p] < MaxRounds
  /\ dialog' \in BOOLEAN
  /\ rounds' = [rounds EXCEPT ![p] = @ + 1]
  /\ UNCHANGED <<text, at, typed, posted, astray, spoiled, touches>>

\* Its input resolves in the modal layer (ensureInputReady).
Opened(p) ==
  /\ at[p] = "opening" /\ dialog
  /\ Goes(p, "focus")
  /\ UNCHANGED <<dialog, text, rounds, typed, posted, astray, spoiled, touches>>

-----------------------------------------------------------------------------
(* fillComposerSurface, and the type tool.                                   *)

Focus(w) ==
  /\ at[w] = "focus" /\ dialog
  /\ Goes(w, "clear")
  /\ UNCHANGED <<dialog, text, rounds, typed, posted, astray, spoiled, touches>>

Clear(w) ==
  /\ at[w] = "clear" /\ dialog
  /\ text' = <<>> /\ SpoilOthers(w)
  /\ Goes(w, "type")
  /\ UNCHANGED <<dialog, rounds, typed, posted, astray, touches>>

\* Keystrokes go to whatever has the focus; nobody looks whether they arrive.
TypePiece(w) ==
  /\ at[w] = "type" /\ typed[w] < Pieces
  /\ typed' = [typed EXCEPT ![w] = @ + 1]
  /\ \/ /\ dialog /\ Len(text) < MaxText
        /\ text' = Append(text, <<w, typed[w] + 1>>) /\ SpoilOthers(w)
     \/ UNCHANGED <<text, spoiled>>
  /\ UNCHANGED <<dialog, at, rounds, posted, astray, touches>>

\* A mutant: what was typed is not read back.
ReadBackNothing(w) ==
  /\ at[w] = "type" /\ typed[w] = Pieces /\ dialog
  /\ Goes(w, IF w \in Posters THEN "enable" ELSE "typed")
  /\ UNCHANGED <<dialog, text, rounds, typed, posted, astray, spoiled, touches>>
\* verifyTypedTextOnSameTarget: now, or after a short wait.
ReadBack(w) ==
  /\ at[w] = "type" /\ typed[w] = Pieces /\ dialog /\ text = Draft(w)
  /\ Goes(w, IF w \in Posters THEN "enable" ELSE "typed")
  /\ UNCHANGED <<dialog, text, rounds, typed, posted, astray, spoiled, touches>>

-----------------------------------------------------------------------------
(* The Post button.                                                         *)

\* waitForPostButtonEnabled: LinkedIn enables it for any text.
Enabled(p) ==
  /\ at[p] = "enable" /\ dialog /\ text # <<>>
  /\ Goes(p, "resolve")
  /\ UNCHANGED <<dialog, text, rounds, typed, posted, astray, spoiled, touches>>

Outdated == [w \in Writers |-> IF at[w] = "click" THEN "outdated" ELSE at[w]]

\* resolveScopedTarget: the button in a snapshot of its own.
Resolved(p) ==
  /\ at[p] = "resolve" /\ dialog
  /\ at' = [Outdated EXCEPT ![p] = "click"]
  /\ UNCHANGED <<dialog, text, rounds, typed, posted, astray, spoiled, touches>>

\* clickAt, after the wait of ensureTargetReady: a click that lands posts what is there
\* (the composer may stay a while), or comes to nothing; the call may throw either way.
ClickLands(p) ==
  /\ at[p] \in {"click", "outdated"}
  /\ \E next \in {"confirm", "ambiguous"} : Goes(p, next)
  /\ \/ /\ dialog /\ text # <<>>
        /\ posted' = [posted EXCEPT ![p] = text] /\ SpoilOthers(p)
        /\ \/ dialog' = FALSE /\ text' = <<>>
           \/ UNCHANGED <<dialog, text>>
     \/ UNCHANGED <<dialog, text, posted, spoiled>>
  /\ UNCHANGED <<rounds, typed, astray, touches>>

\* The reference is by now another snapshot's: another control is clicked, which may
\* dismiss the composer, empty or keep it, or open it.
ClickGoesAstray(p) ==
  /\ at[p] = "outdated"
  /\ \E next \in {"confirm", "ambiguous"} : Goes(p, next)
  /\ dialog' \in BOOLEAN /\ text' \in {text, <<>>}
  /\ astray' = astray \union {p} /\ SpoilOthers(p)
  /\ UNCHANGED <<rounds, typed, posted, touches>>

ClickPostButton(p) == ClickLands(p) \/ ClickGoesAstray(p)

\* A mutant: a page that does not answer counts as a composer that is gone.
ConfirmGoneBlind(p) ==
  /\ at[p] = "confirm"
  /\ Goes(p, "published")
  /\ UNCHANGED <<dialog, text, rounds, typed, posted, astray, spoiled, touches>>
\* confirmComposerGone
ConfirmGone(p) ==
  /\ at[p] = "confirm" /\ ~dialog
  /\ Goes(p, "published")
  /\ UNCHANGED <<dialog, text, rounds, typed, posted, astray, spoiled, touches>>

\* The composer is still there after all attempts, or nothing answers.
Ambiguous(p) ==
  /\ at[p] = "confirm"
  /\ Goes(p, "ambiguous")
  /\ UNCHANGED <<dialog, text, rounds, typed, posted, astray, spoiled, touches>>

\* A check fails; or a call throws: at its deadline, or aborted with a turn.
WriterGivesUp(w) ==
  /\ at[w] \in Before \ {"click", "outdated"}
  /\ Goes(w, "gave_up")
  /\ UNCHANGED <<dialog, text, rounds, typed, posted, astray, spoiled, touches>>

-----------------------------------------------------------------------------
(* The operator and the page: the composer closes, opens, is emptied or edited. *)

Touch ==
  /\ touches < MaxTouches /\ touches' = touches + 1
  /\ \/ dialog /\ dialog' = FALSE /\ text' \in {text, <<>>}
     \/ ~dialog /\ dialog' = TRUE /\ UNCHANGED text
     \/ dialog /\ text' = <<>> /\ UNCHANGED dialog
     \/ /\ dialog /\ Len(text) < MaxText /\ UNCHANGED dialog
        /\ \E s \in Strangers : text' = Append(text, <<s, 0>>)
  /\ SpoilAll
  /\ UNCHANGED <<at, rounds, typed, posted, astray>>

WriterStep(w) ==
  \/ w \in Posters /\ (\/ ClickOpener(w) \/ Opened(w) \/ Enabled(w) \/ Resolved(w)
                         \/ ClickPostButton(w) \/ ConfirmGone(w) \/ Ambiguous(w))
  \/ Focus(w) \/ Clear(w) \/ TypePiece(w) \/ ReadBack(w) \/ WriterGivesUp(w)

\* A tool of the agent, or a publish that looks for the composer, takes a snapshot.
Snapshot ==
  /\ at' = Outdated
  /\ UNCHANGED <<dialog, text, rounds, typed, posted, astray, spoiled, touches>>

ComposerNext == Touch \/ Snapshot \/ \E w \in Writers : WriterStep(w)

\* Every call of a publish has a deadline; those of the type tool have none.
Fairness == \A p \in Posters : WF_composerVars(WriterStep(p))
ComposerSpec == ComposerInit /\ [][ComposerNext]_composerVars /\ Fairness

-----------------------------------------------------------------------------
(* Properties.                                                              *)

ComposerTypeOK ==
  /\ dialog \in BOOLEAN /\ text \in Texts
  /\ at \in [Writers -> Call]
  /\ rounds \in [Posters -> 0..MaxRounds]
  /\ typed \in [Writers -> 0..Pieces]
  /\ posted \in [Posters -> Texts]
  /\ astray \subseteq Posters /\ spoiled \subseteq Posters /\ touches \in 0..MaxTouches

\* What a publish posts is the approved draft, whole and alone, although keystrokes get
\* lost and others type into the same composer: unless somebody touched the composer
\* between its read-back and its click.
PostsTheDraft ==
  \A p \in Posters : posted[p] \notin {<<>>, Draft(p)} => p \in spoiled

\* "published" is not said of a post that was not sent: only somebody else's hand can
\* make a composer go that the click left there, or the publish's own click, when another
\* snapshot was taken after the one it found its button in.
PublishedMeansPosted ==
  \A p \in Posters : at[p] = "published" /\ posted[p] = <<>> => p \in spoiled \union astray

\* A publish comes to an end, so that the step gets its outcome or goes to the agent: also
\* with a composer that never opens, or closes again and again.
EveryPublishEnds ==
  \A p \in Posters : <>(at[p] \in {"published", "ambiguous", "gave_up"})
=============================================================================
