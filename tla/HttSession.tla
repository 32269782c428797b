----------------------------- MODULE HttSession -----------------------------
(***************************************************************************)
(* What the htt_stats debugfs file promises its callers, without the      *)
(* firmware, the handler or the buffer: the radio has one stats session,  *)
(* owned by at most one caller; an open that gets it either completes     *)
(* (the file is open) or gives it back with an error, and an open file is *)
(* given back by release.  HttStats implements this specification under  *)
(* the mapping HttStats!Session.                                          *)
(***************************************************************************)
CONSTANTS
  Callers,  \* processes that open and release the file
  NULL      \* no owner

VARIABLES
  owner,  \* the caller holding the radio's session, or NULL
  st      \* per caller: "idle", "opening", "open", "closing"

vars == <<owner, st>>

States == {"idle", "opening", "open", "closing"}

Init ==
  /\ owner = NULL
  /\ st = [c \in Callers |-> "idle"]

Step(c, from, to) ==
  /\ st[c] = from
  /\ st' = [st EXCEPT ![c] = to]

(* An open takes the free session.                                        *)
Acquire(c) ==
  /\ owner = NULL
  /\ Step(c, "idle", "opening")
  /\ owner' = c

(* The open returns 0.                                                    *)
Succeed(c) == Step(c, "opening", "open") /\ UNCHANGED owner

(* The open fails after taking the session and starts giving it back.    *)
Abort(c) == Step(c, "opening", "closing") /\ UNCHANGED owner

(* Release starts giving the session back.                                *)
Close(c) == Step(c, "open", "closing") /\ UNCHANGED owner

(* The session is free again.                                             *)
Finish(c) ==
  /\ Step(c, "closing", "idle")
  /\ owner' = NULL

Next ==
  \E c \in Callers :
    Acquire(c) \/ Succeed(c) \/ Abort(c) \/ Close(c) \/ Finish(c)

(* The safety part alone, for the refinement proof.                       *)
SafeSpec == Init /\ [][Next]_vars

(* An open always returns, and a failed open or a release always frees   *)
(* the session; nobody is obliged to open or release.                    *)
Spec ==
  /\ SafeSpec
  /\ \A c \in Callers : WF_vars(Succeed(c) \/ Abort(c)) /\ WF_vars(Finish(c))

=============================================================================
