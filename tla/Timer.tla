------------------------------- MODULE Timer -------------------------------
(***************************************************************************)
(* The timer of the event loop: arch/common/timer.c and timer.h.           *)
(*                                                                         *)
(* A timer entry lives in the id tree from UA_Timer_add until it is freed. *)
(* It also sits in the time-sorted tree, except while UA_Timer_process has *)
(* moved it to its local processTree ("pending") or runs its callback      *)
(* ("current").  Callbacks run with the tree consistent and may add,       *)
(* modify and remove timers, their own one included; the lock of timer.c   *)
(* is empty in this build (UA_MULTITHREADING = 0), so these reentrant      *)
(* calls are the interleavings that matter.                                *)
(*                                                                         *)
(* Time is counted in ticks.  Each tree is modelled by the set of its      *)
(* entries; ZIP_ITER visits entries with equal keys in an order that       *)
(* depends on their addresses, so it is left open.                         *)
(***************************************************************************)
EXTENDS Integers, FiniteSets

CONSTANTS
  MaxId,       \* bound: number of timers that are ever added
  MaxTime,     \* bound: last value of the monotonic clock
  Intervals,   \* intervals the application asks for (ticks, may be <= 0)
  BaseTimes,   \* base times the application passes
  NoBase,      \* baseTime == NULL
  DeviateMax   \* UA_DATETIME_SEC in ticks

None   == 0                \* no running callback; ids are always above zero
Once   == "ONCE"
CurrentTime == "CURRENTTIME"
BaseTime    == "BASETIME"

Ids      == 1..MaxId
Policies == {Once, CurrentTime, BaseTime}
Bases    == BaseTimes \cup {NoBase}

ASSUME TimerAssumption ==
  /\ MaxId \in Nat
  /\ MaxTime \in Nat
  /\ Intervals \subseteq Int
  /\ BaseTimes \subseteq Int
  /\ NoBase \notin BaseTimes
  /\ DeviateMax \in Nat

VARIABLES
  now,        \* dateTime_nowMonotonic
  idCounter,  \* UA_Timer.idCounter
  entry,      \* id -> the fields of UA_TimerEntry
  idTree,     \* UA_Timer.idTree: the entries that are allocated
  tree,       \* UA_Timer.tree
  pending,    \* processTree of UA_Timer_process, without the visited entries
  current,    \* the entry whose callback runs
  phase,      \* "idle", "processing", or "cleared" after UA_Timer_clear
  batchNow,   \* TimerProcessContext.now
  hist        \* history: base and first time of a schedule, executions, removal

vars == <<now, idCounter, entry, idTree, tree, pending, current, phase,
          batchNow, hist>>

NoEntry == [nextTime |-> 0, interval |-> 0, policy |-> Once, cb |-> FALSE,
            due |-> 0]
NoHist  == [base |-> 0, first |-> 0, runs |-> 0, removed |-> FALSE]

-----------------------------------------------------------------------------
(* Arithmetic of timer.c.                                                  *)

\* The remainder of C: it has the sign of the dividend.
CRemainder(a, b) == IF a >= 0 THEN a % b ELSE -((-a) % b)

CalculateNextTime(cur, base, interval) ==
  LET cycleDelay == CRemainder(cur - base, interval)
  IN  cur + interval
        - (IF cycleDelay < 0 THEN cycleDelay + interval ELSE cycleDelay)

\* Mutant: an interval <= 0 is accepted for every policy.
AnyAccepted(interval, policy) == TRUE

\* An interval <= 0 is accepted for "once" only.
Accepted(interval, policy) == interval > 0 \/ policy = Once

\* The interval that is stored, and the first time it leads to.
StoredInterval(interval, base) ==
  IF interval <= 0 /\ base # NoBase THEN base - now ELSE interval
FirstTime(interval, base) ==
  IF base = NoBase \/ interval <= 0
  THEN now + StoredInterval(interval, base)
  ELSE CalculateNextTime(now, base, interval)

Abs(n) == IF n < 0 THEN -n ELSE n
DividesOneAnother(i, j) ==
  /\ i # 0 /\ j # 0
  /\ IF i < j THEN j % Abs(i) = 0 ELSE i % Abs(j) = 0

\* Deviate by at most a quarter of the interval and at most by one second.
Deviation(interval) ==
  IF interval \div 4 > DeviateMax THEN DeviateMax ELSE interval \div 4

\* What batchTimerEntry may leave in nextTime: the time asked for, or that of
\* a candidate in the window.  Which candidates the search meets depends on
\* the shape of the zip tree, hence any of them.
BatchedTimes(time, interval, policy, others) ==
  {time} \cup
    {entry[c].nextTime : c \in
       {o \in others : /\ policy = CurrentTime
                       /\ DividesOneAnother(interval, entry[o].interval)
                       /\ entry[o].nextTime \in (time - Deviation(interval))..
                                                (time + Deviation(interval))}}

\* Mutant: the regular advance by one interval is lost.
RescheduledNoAdvance(e) ==
  IF e.nextTime < batchNow
  THEN IF e.policy = CurrentTime
       THEN batchNow + e.interval
       ELSE CalculateNextTime(batchNow, e.nextTime, e.interval)
  ELSE e.nextTime

\* Mutant: missed cycles are made up for.
RescheduledCatchUp(e) == e.nextTime + e.interval

\* Mutant: the policy is not looked at after a missed cycle.
RescheduledFromNow(e) ==
  IF e.nextTime + e.interval >= batchNow THEN e.nextTime + e.interval
  ELSE batchNow + e.interval

\* The next time of a repeated entry that was just processed.
Rescheduled(e) ==
  LET next == e.nextTime + e.interval
  IN  IF next >= batchNow THEN next
      ELSE IF e.policy = CurrentTime
           THEN batchNow + e.interval
           ELSE CalculateNextTime(batchNow, next, e.interval)

-----------------------------------------------------------------------------
(* The application: when the timer is idle, or inside a running callback.  *)

ApplicationRuns == phase = "idle" \/ current # None

\* Mutant: an entry taken out for processing is mistaken for one in the tree.
InProcessNever(id) == FALSE

\* ZIP_REMOVE(&t->tree, te) == NULL
InProcess(id) == id \notin tree

\* UA_Timer_add
Add(interval, base, policy) ==
  LET id == idCounter + 1
  IN  /\ ApplicationRuns
      /\ Accepted(interval, policy)
      /\ id \in Ids
      /\ idCounter' = id
      /\ \E t \in BatchedTimes(FirstTime(interval, base),
                               StoredInterval(interval, base), policy, tree) :
           /\ entry' = [entry EXCEPT ![id] =
                [nextTime |-> t, interval |-> StoredInterval(interval, base),
                 policy |-> policy, cb |-> TRUE, due |-> 0]]
           /\ hist' = [hist EXCEPT ![id] =
                [base |-> IF base = NoBase THEN now ELSE base,
                 first |-> t, runs |-> 0, removed |-> FALSE]]
      /\ idTree' = idTree \cup {id}
      /\ tree' = tree \cup {id}
      /\ UNCHANGED <<now, pending, current, phase, batchNow>>

\* UA_Timer_modify on an id that is found.  An entry in process keeps its
\* place in the process tree and is prepared for being re-added.
Modify(id, interval, base, policy) ==
  LET stored == StoredInterval(interval, base)
  IN  /\ ApplicationRuns
      /\ Accepted(interval, policy)
      /\ id \in idTree
      /\ \E t \in BatchedTimes(FirstTime(interval, base), stored, policy,
                               tree \ {id}) :
           LET next == IF InProcess(id) THEN t - stored ELSE t
           IN  /\ entry' = [entry EXCEPT ![id] =
                    [entry[id] EXCEPT !.nextTime = next, !.interval = stored,
                                      !.policy = policy]]
               /\ hist' = [hist EXCEPT ![id] =
                    [hist[id] EXCEPT
                       !.base = IF base = NoBase THEN now ELSE base,
                       !.first = next, !.runs = 0]]
      /\ tree' = IF InProcess(id) THEN tree ELSE tree \cup {id}
      /\ UNCHANGED <<now, idCounter, idTree, pending, current, phase, batchNow>>

\* UA_Timer_remove on an id that is found.  An entry in process is left to
\* UA_Timer_process, with the callback as the sentinel.
Remove(id) ==
  /\ ApplicationRuns
  /\ id \in idTree
  /\ hist' = [hist EXCEPT ![id].removed = TRUE]
  /\ IF InProcess(id)
     THEN /\ entry' = [entry EXCEPT ![id] = [entry[id] EXCEPT !.cb = FALSE]]
          /\ UNCHANGED <<tree, idTree>>
     ELSE /\ tree' = tree \ {id}
          /\ idTree' = idTree \ {id}
          /\ entry' = [entry EXCEPT ![id] = NoEntry]
  /\ UNCHANGED <<now, idCounter, pending, current, phase, batchNow>>

\* UA_Timer_clear, from the destructor of the event loop.
Clear ==
  /\ phase = "idle"
  /\ phase' = "cleared"
  /\ tree' = {}
  /\ idTree' = {}
  /\ idCounter' = 0
  /\ entry' = [id \in Ids |-> NoEntry]
  /\ hist' = [id \in Ids |-> NoHist]
  /\ UNCHANGED <<now, pending, current, batchNow>>

-----------------------------------------------------------------------------
(* UA_Timer_process.                                                       *)

\* Mutant: ZIP_UNZIP with a strict comparison.
DueBefore(t) == {id \in tree : entry[id].nextTime < t}

\* ZIP_UNZIP: all entries <= now.
Due(t) == {id \in tree : entry[id].nextTime <= t}

StartProcess ==
  /\ phase = "idle"
  /\ phase' = "processing"
  /\ batchNow' = now
  /\ pending' = Due(now)
  /\ tree' = tree \ Due(now)
  /\ entry' = [id \in Ids |->
       IF id \in Due(now) THEN [entry[id] EXCEPT !.due = entry[id].nextTime]
       ELSE entry[id]]
  /\ UNCHANGED <<now, idCounter, idTree, current, hist>>

\* Mutants: a "once" entry that has an interval is repeated; a removed entry
\* is not deleted.
OnceWithoutInterval(e) == ~e.cb \/ (e.policy = Once /\ e.interval <= 0)
OnceOnly(e)   == e.policy = Once

\* Marked for deletion or a "once" policy.
Deletable(e) == ~e.cb \/ e.policy = Once

\* The part of processEntryCallback after the callback.
Settle(id) ==
  IF Deletable(entry[id])
  THEN /\ idTree' = idTree \ {id}
       /\ entry' = [entry EXCEPT ![id] = NoEntry]
       /\ UNCHANGED tree
  ELSE /\ entry' = [entry EXCEPT ![id] =
            [entry[id] EXCEPT !.nextTime = Rescheduled(entry[id]), !.due = 0]]
       /\ tree' = tree \cup {id}
       /\ UNCHANGED idTree

\* Mutant: the callback is not checked before it is called.
Always(e) == TRUE

HasCallback(e) == e.cb

\* ZIP_ITER reaches an entry.  Its place was fixed by the time it had when
\* the trees were split, whatever UA_Timer_modify did to it since.
VisitEntry(id) ==
  /\ phase = "processing"
  /\ current = None
  /\ id \in pending
  /\ \A o \in pending : entry[id].due <= entry[o].due
  /\ pending' = pending \ {id}
  /\ IF HasCallback(entry[id])
     THEN /\ current' = id
          /\ hist' = [hist EXCEPT ![id].runs = @ + 1]
          /\ UNCHANGED <<entry, idTree, tree>>
     ELSE /\ Settle(id)
          /\ UNCHANGED <<current, hist>>
  /\ UNCHANGED <<now, idCounter, phase, batchNow>>

\* The callback returns.
CallbackReturns ==
  /\ current # None
  /\ Settle(current)
  /\ current' = None
  /\ UNCHANGED <<now, idCounter, pending, phase, batchNow, hist>>

FinishProcess ==
  /\ phase = "processing"
  /\ current = None
  /\ pending = {}
  /\ phase' = "idle"
  /\ batchNow' = 0
  /\ UNCHANGED <<now, idCounter, entry, idTree, tree, pending, current, hist>>

\* The clock advances at any point, inside callbacks too.
Tick ==
  /\ now < MaxTime
  /\ now' = now + 1
  /\ UNCHANGED <<idCounter, entry, idTree, tree, pending, current, phase,
                 batchNow, hist>>

-----------------------------------------------------------------------------
\* UA_Timer_init
Init ==
  /\ now = 0
  /\ idCounter = 0
  /\ entry = [id \in Ids |-> NoEntry]
  /\ idTree = {}
  /\ tree = {}
  /\ pending = {}
  /\ current = None
  /\ phase = "idle"
  /\ batchNow = 0
  /\ hist = [id \in Ids |-> NoHist]

Process == StartProcess \/ (\E id \in Ids : VisitEntry(id)) \/ CallbackReturns
             \/ FinishProcess

Application ==
  \/ \E i \in Intervals, b \in Bases, p \in Policies : Add(i, b, p)
  \/ \E id \in Ids, i \in Intervals, b \in Bases, p \in Policies :
       Modify(id, i, b, p)
  \/ \E id \in Ids : Remove(id)
  \/ Clear

Next == Application \/ Process \/ Tick

Spec == Init /\ [][Next]_vars

\* The server task iterates the event loop for ever and callbacks return.
FairSpec == Spec /\ WF_vars(Process)
-----------------------------------------------------------------------------
(* Properties.                                                             *)

Entries == [nextTime : Int, interval : Int, policy : Policies, cb : BOOLEAN,
            due : Int]
Histories == [base : Int, first : Int, runs : Nat, removed : BOOLEAN]

TypeOK ==
  /\ now \in Nat
  /\ idCounter \in 0..MaxId
  /\ entry \in [Ids -> Entries]
  /\ idTree \subseteq Ids
  /\ tree \subseteq Ids
  /\ pending \subseteq Ids
  /\ current \in Ids \cup {None}
  /\ phase \in {"idle", "processing", "cleared"}
  /\ batchNow \in Nat
  /\ hist \in [Ids -> Histories]

\* calculateNextTime divides by the interval of a repeated entry, so the policy
\* and the interval of an entry have to agree whichever call changed them last.
RepeatedIsPositive ==
  \A id \in idTree : entry[id].policy # Once => entry[id].interval > 0

WellFormed == TypeOK /\ RepeatedIsPositive

\* Every allocated entry is in exactly one place: the time tree, the process
\* tree, or running.  No tree holds a freed entry and none is leaked, whatever
\* callbacks add, modify and remove while the process tree is iterated.
Partition ==
  /\ idTree = tree \cup pending \cup ({current} \ {None})
  /\ tree \cap pending = {}
  /\ current \notin tree \cup pending
  /\ phase # "processing" => pending = {} /\ current = None

\* A removed timer never runs again: UA_Timer_remove on an entry that waits in
\* the process tree has to survive until that entry is visited.
NeverRunsAfterRemove ==
  [][\A id \in Ids : current' = id /\ current # id => ~hist[id].removed]_vars

\* A timer of the policy "once" has not run yet while it waits.
OnceRunsOnce ==
  \A id \in tree \cup pending :
    entry[id].policy = Once => hist[id].runs = 0

\* "Stay within the regular interval with respect to the original basetime":
\* late executions, missed cycles and a modify out of the callback leave a
\* timer of the policy "BaseTime" in phase with its base time.
InPhase ==
  \A id \in tree \cup pending :
    entry[id].policy = BaseTime =>
      CRemainder(entry[id].nextTime - hist[id].base, entry[id].interval) = 0

\* A repeated timer is never ahead of its interval: since it was scheduled, its
\* n-th execution has pushed its next time by at least n intervals.
NeverAheadOfInterval ==
  \A id \in tree :
    entry[id].policy # Once =>
      hist[id].runs * entry[id].interval <= entry[id].nextTime - hist[id].first

\* "Upon cycle miss, execute now": missed cycles are not made up for in a burst.
\* A repeated timer that returns to the time tree after its execution is not
\* behind the time of the iteration, even if it was modified and batched
\* meanwhile, so that one iteration per missed cycle never happens.
NoBurst ==
  [][\A id \in tree' \ tree :
       id \in idTree => entry'[id].nextTime >= batchNow]_vars

\* A timer that is due in the tree is served: it runs, is removed, or is
\* rescheduled to a later time.
DueTimerServed ==
  \A id \in Ids :
    (id \in tree /\ entry[id].nextTime <= now) ~>
      (current = id \/ id \notin idTree \/ entry[id].nextTime > now)

\* The memory of a removed timer is returned.
RemovedIsFreed ==
  \A id \in Ids : hist[id].removed ~> (id \notin idTree)
=============================================================================
