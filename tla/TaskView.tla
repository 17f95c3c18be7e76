------------------------------ MODULE TaskView ------------------------------
(***************************************************************************)
(* What a manager task is to the coordinator: a channel of scrape requests *)
(* that it takes one by one, once it has loaded, and answers one by one.   *)
(* It may end at any time, and then for good; only an end loses requests.  *)
(***************************************************************************)
EXTENDS Naturals

VARIABLES
  phase,    \* "loading", "ready", "serving" a request, or "ended"
  waiting,  \* how many requests are in the channel
  open      \* the coordinator holds the channel's sender

taskVars == <<phase, waiting, open>>

Init == phase = "loading" /\ waiting = 0 /\ open = TRUE

Request ==
  /\ open /\ phase # "ended"
  /\ waiting' = waiting + 1
  /\ UNCHANGED <<phase, open>>

\* The coordinator replaces or drops the sender.
Close == open /\ open' = FALSE /\ UNCHANGED <<phase, waiting>>

Load == phase = "loading" /\ phase' = "ready" /\ UNCHANGED <<waiting, open>>

Take ==
  /\ phase = "ready" /\ waiting > 0
  /\ phase' = "serving" /\ waiting' = waiting - 1
  /\ UNCHANGED open

Answer == phase = "serving" /\ phase' = "ready" /\ UNCHANGED <<waiting, open>>

End ==
  /\ phase # "ended"
  /\ phase' = "ended" /\ waiting' = 0
  /\ UNCHANGED open

Next == Request \/ Close \/ Load \/ Take \/ Answer \/ End

Spec == Init /\ [][Next]_taskVars

=============================================================================
