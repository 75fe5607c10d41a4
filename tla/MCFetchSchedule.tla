--------------------------- MODULE MCFetchSchedule ---------------------------
(* Small instances of FetchSchedule for TLC. *)
EXTENDS FetchSchedule

(* The first REST source is the one that fails, up to the cap of its       *)
(* backoff; the second has an interval longer than a scan and a sleep.     *)
FirstRest == RssCount + 1
IntervalSmall == [i \in Sources |-> IF i = FirstRest + 1 THEN 3 ELSE 1]
FailTwice == [i \in Sources |-> IF i = FirstRest THEN 2 ELSE 0]
FailOnce == [i \in Sources |-> 1]

(* Bound: a refresh is asked for before the first stop or restart, and is  *)
(* served or lost by then.                                                 *)
AskedInFirstRun == restarts > 0 \/ ~running => wanted = {} /\ ~force_refresh

(* Every source has a name of its own.  (Five REST sources of the example  *)
(* configuration share one, and clear each other's errors.)                *)
OwnNames == [i \in Sources |-> i]

(* Sources with intervals much longer than a scan.                         *)
IntervalLong == [i \in Sources |-> 20]
=============================================================================
