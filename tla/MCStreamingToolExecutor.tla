------------------------ MODULE MCStreamingToolExecutor ------------------------
(* The catalogue of tools the runs draw Kinds from: a read-only tool, a tool   *)
(* that writes, Bash with a read-only command ("cat") and with any other one   *)
(* ("bash"), an interruptible tool, and a name the model made up.              *)
EXTENDS StreamingToolExecutor

MCSafeKinds == Kinds \cap {"read", "cat", "sleep", "ghost"}
MCBashKinds == Kinds \cap {"cat", "bash"}
MCCancelKinds == Kinds \cap {"sleep"}
MCUnknownKinds == Kinds \cap {"ghost"}
================================================================================
