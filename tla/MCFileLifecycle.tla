-------------------------- MODULE MCFileLifecycle ---------------------------
(* Instances of FileLifecycle: for each run the requests and failures it   *)
(* admits and the stages of the upload in which requests and crashes come. *)
EXTENDS FileLifecycle

CONSTANTS p1, p2
Order == <<p1, p2>>

Anytime == Stage
AtRest == {"done", "dead"}
InHandover == {"push", "wait", "done"}

RestEvents == {"delete", "rename", "read", "repair", "purge", "loss",
               "offline", "pushfail", "corrupt", "crash"}
RepairEvents == {"repair", "purge", "loss", "offline", "pushfail", "delete"}
HandoffEvents == EventName \ {"repair", "purge", "read", "loss"}

(* What comes in the middle of the hand-off in the run that refutes a      *)
(* claim about it.                                                         *)
HandoverEvents == {"crash", "delete"}
OverlapEvents == {"repair", "purge"}
RebuildEvents == {"repair", "loss"}

=============================================================================
