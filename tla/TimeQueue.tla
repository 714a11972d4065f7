----------------------------- MODULE TimeQueue -----------------------------
(***************************************************************************)
(* What the timer expects of its time-sorted tree: a set of entries, of    *)
(* which those that are due are taken out together and visited in order,   *)
(* whatever is added, moved and removed meanwhile.  Entries with the same  *)
(* time are ordered by their addresses.                                    *)
(***************************************************************************)
EXTENDS Integers, Sequences, FiniteSetsExt

CONSTANTS
  Elems,  \* addresses of entries
  Times,  \* times an entry may have
  Unset   \* no time: the entry is not allocated

VARIABLES
  queue,  \* the entries in the queue
  time,   \* the time of each entry
  due,    \* the entries taken out and not yet visited, in order
  first   \* the least time in the queue

Earliest(S, t) == IF S = {} THEN Unset ELSE Min({t[x] : x \in S})

Before(x, y) == time[x] < time[y] \/ (time[x] = time[y] /\ x < y)

InOrder(S) ==
  CHOOSE s \in [1..Cardinality(S) -> S] :
    Range(s) = S /\ \A i, j \in 1..Cardinality(S) : i < j => Before(s[i], s[j])

Init == queue = {} /\ time = [x \in Elems |-> Unset] /\ due = <<>> /\ first = Unset

Add(x, t) ==
  /\ time[x] = Unset
  /\ queue' = queue \cup {x} /\ time' = [time EXCEPT ![x] = t]
  /\ UNCHANGED due

Delete(x) ==
  /\ x \in queue
  /\ queue' = queue \ {x} /\ time' = [time EXCEPT ![x] = Unset]
  /\ UNCHANGED due

\* An entry that has been taken out keeps its place.
Change(x, t) ==
  /\ time[x] # Unset
  /\ time' = [time EXCEPT ![x] = t]
  /\ UNCHANGED <<queue, due>>

Take(now) ==
  LET early == {x \in queue : time[x] <= now}
  IN /\ due = <<>>
     /\ due' = InOrder(early) /\ queue' = queue \ early
     /\ UNCHANGED time

\* The next entry is visited, and put back with a new time, or freed.
Visit(t) ==
  /\ due # <<>>
  /\ due' = Tail(due)
  /\ queue' = IF t = Unset THEN queue ELSE queue \cup {Head(due)}
  /\ time' = [time EXCEPT ![Head(due)] = t]

Next ==
  /\ \/ \E x \in Elems, t \in Times : Add(x, t) \/ Change(x, t)
     \/ \E x \in Elems : Delete(x)
     \/ \E t \in Times : Take(t)
     \/ \E t \in Times \cup {Unset} : Visit(t)
  /\ first' = Earliest(queue', time')

Spec == Init /\ [][Next]_<<queue, time, due, first>>
=============================================================================
