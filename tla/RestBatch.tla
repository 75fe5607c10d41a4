------------------------------ MODULE RestBatch ------------------------------
(***************************************************************************)
(* What the REST fetch pool promises, without its threads' locks, wait     *)
(* sets and counters: the dispatcher opens a batch of sources, workers     *)
(* take the sources one by one, each source is fetched by one worker, and  *)
(* the batch is closed, and a snapshot taken, only when every source of it *)
(* has been dealt with (or the scheduler is being stopped).                *)
(***************************************************************************)
EXTENDS Naturals

CONSTANTS Workers, Sources, NoJob

VARIABLES
  todo,      \* sources of the batch nobody has taken yet
  doing,     \* the source each worker is fetching, or NoJob
  open,      \* a batch is open
  stopping   \* the scheduler has been told to stop

vars == <<todo, doing, open, stopping>>

Idle == todo = {} /\ \A w \in Workers : doing[w] = NoJob

Init ==
  /\ todo = {}
  /\ doing = [w \in Workers |-> NoJob]
  /\ open = FALSE
  /\ stopping = FALSE

(* The dispatcher opens a batch; nothing of the previous one is left.      *)
Open(S) ==
  /\ ~open /\ Idle /\ S # {}
  /\ open' = TRUE
  /\ todo' = S
  /\ UNCHANGED <<doing, stopping>>

(* A worker takes a source nobody else has.                                *)
Take(w, i) ==
  /\ doing[w] = NoJob
  /\ i \in todo
  /\ todo' = todo \ {i}
  /\ doing' = [doing EXCEPT ![w] = i]
  /\ UNCHANGED <<open, stopping>>

Finish(w) ==
  /\ doing[w] # NoJob
  /\ doing' = [doing EXCEPT ![w] = NoJob]
  /\ UNCHANGED <<todo, open, stopping>>

Close ==
  /\ open
  /\ stopping \/ Idle
  /\ open' = FALSE
  /\ UNCHANGED <<todo, doing, stopping>>

Stop ==
  /\ ~stopping
  /\ stopping' = TRUE
  /\ UNCHANGED <<todo, doing, open>>

Next ==
  \/ \E S \in SUBSET Sources : Open(S)
  \/ \E w \in Workers, i \in Sources : Take(w, i)
  \/ \E w \in Workers : Finish(w)
  \/ Close
  \/ Stop

Spec == Init /\ [][Next]_vars
=============================================================================
