-------------------------- MODULE RecoveryProtocol --------------------------
(***************************************************************************)
(* What the operator promises about recoveries: the recorded status goes   *)
(* forward only, from one generation to a newer one and within a           *)
(* generation step by step; a generation is recorded as done only after an *)
(* FE has restored it; FE is restarted for a recovery, always as a single  *)
(* replica, only while nobody has read that the recovery is done; and it   *)
(* is never scaled down from several replicas to one otherwise.            *)
(*                                                                         *)
(* The promise of a status that goes forward ends with the first one that  *)
(* is overwritten by an older one (regressed); the others are kept.        *)
(***************************************************************************)
EXTENDS Integers

CONSTANTS Generations, MaxReplicas

VARIABLES
  status,    \* the recorded phase and its generation
  template,  \* replicas of FE and the generation in its restore environment
  restored,  \* the generations that an FE has restored
  finished,  \* the generations whose end was read when FE went back to normal
  regressed  \* a recorded status was overwritten by an older one

vars == <<status, template, restored, finished, regressed>>

NoGen == -1

Init ==
  /\ status = [phase |-> "none", og |-> NoGen]
  /\ template = [replicas |-> 0, generation |-> NoGen]
  /\ restored = {}
  /\ finished = {}
  /\ regressed = FALSE

\* A newer generation is observed, and perhaps already acted on.
Observe(g) ==
  /\ g > status.og
  /\ status' \in [phase : {"todo", "doing"}, og : {g}]
  /\ UNCHANGED <<template, restored, finished, regressed>>

Begin ==
  /\ status.phase = "todo"
  /\ status' = [status EXCEPT !.phase = "doing"]
  /\ UNCHANGED <<template, restored, finished, regressed>>

Finish ==
  /\ status.phase = "doing" /\ status.og \in restored
  /\ status' = [status EXCEPT !.phase = "done"]
  /\ UNCHANGED <<template, restored, finished, regressed>>

Before(s, t) ==
  \/ s.og < t.og
  \/ s.og = t.og /\ s.phase = "todo" /\ t.phase \in {"doing", "done"}
  \/ s.og = t.og /\ s.phase = "doing" /\ t.phase = "done"

\* An old copy of the status is saved over the recorded one.
Overwrite(s) ==
  /\ regressed \/ Before(s, status)
  /\ s.phase = "done" => s.og \in restored
  /\ status' = s
  /\ regressed' = TRUE
  /\ UNCHANGED <<template, restored, finished>>

Restart(g) ==
  /\ g \notin finished \/ regressed
  /\ template' = [replicas |-> 1, generation |-> g]
  /\ UNCHANGED <<status, restored, finished, regressed>>

Restore(g) ==
  /\ restored' = restored \cup {g}
  /\ UNCHANGED <<status, template, finished, regressed>>

\* FE as the user asks for it, perhaps because a generation was read to be done.
Return(n) ==
  /\ template.replicas > 1 => n # 1
  /\ template' = [replicas |-> n, generation |-> NoGen]
  /\ finished' \in {finished} \cup {finished \cup {g} : g \in restored}
  /\ UNCHANGED <<status, restored, regressed>>

Statuses == [phase : {"none", "todo", "doing", "done"}, og : Generations \cup {NoGen}]

Next ==
  \/ \E g \in Generations : Observe(g) \/ Restart(g) \/ Restore(g)
  \/ Begin \/ Finish
  \/ \E s \in Statuses : Overwrite(s)
  \/ \E n \in 1 .. MaxReplicas : Return(n)

Spec == Init /\ [][Next]_vars
=============================================================================
