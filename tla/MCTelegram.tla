----------------------------- MODULE MCTelegram -----------------------------
(* Three updates: the answer to the second may be refused, the last has a file *)
(* the download refuses.                                                     *)
EXTENDS Telegram

TooLarge == {3}
MayBeRefused == {2}
Files == <<1, 0, 1>>
=============================================================================
