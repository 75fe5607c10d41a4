-------------------------------- MODULE Board --------------------------------
(***************************************************************************)
(* What the tables of backend/src/db.c promise their users: for every      *)
(* price the values of the newest second it was fetched in, for every      *)
(* story the text it was first seen with and the first region it was given *)
(* by a feed that has one, and both for MaxAge at least, half an hour.     *)
(* There are no rows, no threads and no failures here; that Store          *)
(* implements this is checked.                                             *)
(***************************************************************************)
EXTENDS Integers

CONSTANTS Keys, Urls, Editions, Regions, MaxAge, MaxDelay

VARIABLES
  now,       \* the wall clock
  latest,    \* of each price its newest second and the values it had in it
  stories    \* of each story its text, its region and when it was first seen

NoRegion == ""
NoPrice == [at |-> -1, values |-> {}]
Unknown == [text |-> 0, region |-> NoRegion, at |-> -1]

Init ==
  /\ now = 0
  /\ latest = [k \in Keys |-> NoPrice]
  /\ stories = [u \in Urls |-> Unknown]

Recent == {t \in 0..now : now - t <= MaxDelay}

(* A value fetched in second t: it is the price, one of several of that    *)
(* second, or comes too late.                                              *)
Put(k, v, t) ==
  /\ latest' = [latest EXCEPT ![k] =
       [at |-> IF t > @.at THEN t ELSE @.at,
        values |-> (IF t > @.at THEN {} ELSE @.values) \cup (IF t < @.at THEN {} ELSE {v})]]
  /\ UNCHANGED <<now, stories>>

Publish(u, b, r, t) ==
  /\ stories[u] = Unknown
  /\ stories' = [stories EXCEPT ![u] = [text |-> b, region |-> r, at |-> t]]
  /\ UNCHANGED <<now, latest>>

Locate(u, r) ==
  /\ stories[u] # Unknown /\ stories[u].region = NoRegion
  /\ stories' = [stories EXCEPT ![u].region = r]
  /\ UNCHANGED <<now, latest>>

ForgetPrices ==
  /\ \E cutoff \in 0..(now - MaxAge) :
       latest' = [k \in Keys |-> IF latest[k].at < cutoff THEN NoPrice ELSE latest[k]]
  /\ UNCHANGED <<now, stories>>

ForgetStories ==
  /\ \E cutoff \in 0..(now - MaxAge) :
       stories' = [u \in Urls |-> IF stories[u].at < cutoff THEN Unknown ELSE stories[u]]
  /\ UNCHANGED <<now, latest>>

Tick == now' = now + 1 /\ UNCHANGED <<latest, stories>>

Next ==
  \/ Tick \/ ForgetPrices \/ ForgetStories
  \/ \E t \in Recent :
       \/ \E k \in Keys, v \in Editions : Put(k, v, t)
       \/ \E u \in Urls, b \in Editions, r \in Regions : Publish(u, b, r, t)
  \/ \E u \in Urls, r \in Regions \ {NoRegion} : Locate(u, r)

Spec == Init /\ [][Next]_<<now, latest, stories>>
=============================================================================
