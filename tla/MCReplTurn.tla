------------------------------- MODULE MCReplTurn ------------------------------
(* What the runs submit: prompts, one slash or bash command, one notification, *)
(* one prompt of the cron.                                                     *)
EXTENDS ReplTurn

MCNotes == Commands \cap {"note"}
MCHidden == Commands \cap {"tick"}
MCSolos == Commands \cap {"slash"}
================================================================================
