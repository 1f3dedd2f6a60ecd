------------------------------ MODULE PcdCall ------------------------------
(***************************************************************************)
(* What the API promises its callers (pcdapi.h), without slots, sockets    *)
(* and message ids: a call is answered at most once and returns its own    *)
(* answer, or fails, which says nothing of whether it was carried out.     *)
(***************************************************************************)
CONSTANTS Clients, Verdicts, None, Failed

VARIABLES
  stage,   \* [Clients -> {"idle", "called", "dead"}]
  answer,  \* the answer to the call in progress, None if there is none yet
  result   \* what the last call returned

vars == <<stage, answer, result>>

Init ==
  /\ stage = [c \in Clients |-> "idle"]
  /\ answer = [c \in Clients |-> None]
  /\ result = [c \in Clients |-> None]

Call(c) ==
  /\ stage[c] = "idle"
  /\ stage' = [stage EXCEPT ![c] = "called"]
  /\ result' = [result EXCEPT ![c] = None]
  /\ UNCHANGED answer

Answer(c) ==
  /\ stage[c] = "called"
  /\ answer[c] = None
  /\ \E v \in Verdicts : answer' = [answer EXCEPT ![c] = v]
  /\ UNCHANGED <<stage, result>>

Over(c, s) ==
  /\ stage' = [stage EXCEPT ![c] = s]
  /\ answer' = [answer EXCEPT ![c] = None]

Return(c) ==
  /\ stage[c] = "called"
  /\ answer[c] # None
  /\ result' = [result EXCEPT ![c] = answer[c]]
  /\ Over(c, "idle")

Fail(c) ==
  /\ stage[c] = "called"
  /\ result' = [result EXCEPT ![c] = Failed]
  /\ Over(c, "idle")

Die(c) ==
  /\ stage[c] # "dead"
  /\ Over(c, "dead")
  /\ UNCHANGED result

\* A new process in the place of a dead one
Reborn(c) ==
  /\ stage[c] = "dead"
  /\ stage' = [stage EXCEPT ![c] = "idle"]
  /\ UNCHANGED <<answer, result>>

Next ==
  \E c \in Clients : \/ Call(c) \/ Answer(c) \/ Return(c) \/ Fail(c) \/ Die(c)
                     \/ Reborn(c)

Spec == Init /\ [][Next]_vars
=============================================================================
