---------------------------- MODULE TimerProofs ----------------------------
(***************************************************************************)
(* Theorems about Timer, for every value of its constants.                 *)
(***************************************************************************)
EXTENDS Timer, TLAPS

-----------------------------------------------------------------------------
(* The inductive invariant.                                                *)

\* Ids are handed out in increasing order, so that the next id is fresh.
IdsBelowCounter == \A id \in idTree : id <= idCounter

\* The sentinel is set exactly in the entries that were removed in process.
SentinelMarksRemoved == \A id \in idTree : hist[id].removed <=> ~entry[id].cb

IInv ==
  /\ TypeOK
  /\ Partition
  /\ IdsBelowCounter
  /\ RepeatedIsPositive
  /\ SentinelMarksRemoved

-----------------------------------------------------------------------------
(* The arithmetic stays within the integers.                               *)

\* The C remainder by a positive interval is an integer.
LEMMA CRemainderType ==
  ASSUME NEW a \in Int, NEW b \in Int, b > 0
  PROVE  CRemainder(a, b) \in Int
BY DEF CRemainder

\* calculateNextTime yields an integer for a positive interval.
LEMMA CalculateNextTimeType ==
  ASSUME NEW c \in Int, NEW b \in Int, NEW i \in Int, i > 0
  PROVE  CalculateNextTime(c, b, i) \in Int
BY CRemainderType, c - b \in Int DEF CalculateNextTime

\* What UA_Timer_add and UA_Timer_modify store as interval and next time.
LEMMA ScheduleType ==
  ASSUME TypeOK, NEW i \in Intervals, NEW b \in Bases, NEW p \in Policies,
         Accepted(i, p)
  PROVE  /\ StoredInterval(i, b) \in Int
         /\ FirstTime(i, b) \in Int
         /\ p # Once => StoredInterval(i, b) > 0
<1>1. i \in Int /\ now \in Int /\ (b # NoBase => b \in Int)
  BY TimerAssumption DEF TypeOK, Bases
<1>2. StoredInterval(i, b) \in Int
  BY <1>1 DEF StoredInterval
<1>3. FirstTime(i, b) \in Int
  BY <1>1, <1>2, CalculateNextTimeType DEF FirstTime
<1>4. QED
  BY <1>1, <1>2, <1>3 DEF StoredInterval, Accepted

\* Batching picks the time asked for or the time of another entry.
LEMMA BatchedTimesType ==
  ASSUME TypeOK, NEW t \in Int, NEW i \in Int, NEW p \in Policies,
         NEW S \in SUBSET Ids
  PROVE  BatchedTimes(t, i, p, S) \subseteq Int
<1>1. \A c \in S : entry[c].nextTime \in Int
  BY DEF TypeOK, Entries
<1>2. QED
  BY <1>1 DEF BatchedTimes

\* The next time of an entry with a positive interval is an integer.
LEMMA RescheduledType ==
  ASSUME NEW e \in Entries, e.interval > 0, batchNow \in Nat
  PROVE  Rescheduled(e) \in Int
<1>1. e.nextTime \in Int /\ e.interval \in Int /\ batchNow \in Int
  BY DEF Entries
<1>2. CalculateNextTime(batchNow, e.nextTime + e.interval, e.interval) \in Int
  <2>1. e.nextTime + e.interval \in Int
    BY <1>1
  <2>2. QED
    BY <1>1, <2>1, CalculateNextTimeType
<1>3. QED
  BY <1>1, <1>2 DEF Rescheduled
-----------------------------------------------------------------------------
(* Every action preserves the invariant.                                   *)

\* A slot without an entry has the type of one.
LEMMA NoEntryType == NoEntry \in Entries /\ NoHist \in Histories
BY DEF NoEntry, NoHist, Entries, Histories, Policies

\* UA_Timer_init establishes the inductive invariant.
LEMMA InitIInv == Init => IInv
BY TimerAssumption
DEF Init, IInv, TypeOK, Partition, IdsBelowCounter, RepeatedIsPositive,
    SentinelMarksRemoved, NoEntry, NoHist, Entries, Histories, Ids, Policies, None

\* UA_Timer_add preserves it: the new id is fresh and in the time tree only.
LEMMA AddIInv ==
  ASSUME IInv, NEW i \in Intervals, NEW b \in Bases, NEW p \in Policies,
         Add(i, b, p)
  PROVE  IInv'
<1> DEFINE id == idCounter + 1
<1> DEFINE stored == StoredInterval(i, b)
<1>1. /\ stored \in Int
      /\ FirstTime(i, b) \in Int
      /\ p # Once => stored > 0
  BY ScheduleType DEF IInv, Add
<1>2. PICK t \in BatchedTimes(FirstTime(i, b), stored, p, tree) :
        /\ entry' = [entry EXCEPT ![id] =
             [nextTime |-> t, interval |-> stored, policy |-> p, cb |-> TRUE,
              due |-> 0]]
        /\ hist' = [hist EXCEPT ![id] =
             [base |-> IF b = NoBase THEN now ELSE b,
              first |-> t, runs |-> 0, removed |-> FALSE]]
  BY DEF Add
<1>3. t \in Int
  BY <1>1, <1>2, BatchedTimesType DEF IInv, TypeOK
<1>4. /\ id \in Ids /\ id \notin idTree /\ id # None /\ id # current
      /\ id \notin tree /\ id \notin pending
  BY DEF Add, IInv, TypeOK, Partition, IdsBelowCounter, Ids, None
<1>5. TypeOK'
  <2>1. (IF b = NoBase THEN now ELSE b) \in Int
    BY TimerAssumption DEF IInv, TypeOK, Bases
  <2>2. [nextTime |-> t, interval |-> stored, policy |-> p, cb |-> TRUE,
         due |-> 0] \in Entries
    BY <1>1, <1>3 DEF Entries
  <2>3. [base |-> IF b = NoBase THEN now ELSE b,
         first |-> t, runs |-> 0, removed |-> FALSE] \in Histories
    BY <1>3, <2>1 DEF Histories
  <2>4. entry' \in [Ids -> Entries]
    BY <1>2, <2>2 DEF IInv, TypeOK
  <2>5. hist' \in [Ids -> Histories]
    BY <1>2, <2>3 DEF IInv, TypeOK
  <2>6. QED
    BY <1>4, <2>4, <2>5 DEF IInv, TypeOK, Add, Ids
<1>6. Partition'
  BY <1>4 DEF IInv, Partition, Add, ApplicationRuns
<1>7. IdsBelowCounter'
  BY <1>4 DEF IInv, TypeOK, IdsBelowCounter, Add, Ids
<1>8. RepeatedIsPositive'
  BY <1>1, <1>2, <1>4 DEF IInv, TypeOK, RepeatedIsPositive, Add
<1>9. SentinelMarksRemoved'
  BY <1>2, <1>4 DEF IInv, TypeOK, SentinelMarksRemoved, Add
<1>10. QED
  BY <1>5, <1>6, <1>7, <1>8, <1>9 DEF IInv

\* UA_Timer_modify preserves it, for an entry in the tree or in process.
LEMMA ModifyIInv ==
  ASSUME IInv, NEW id \in Ids, NEW i \in Intervals, NEW b \in Bases,
         NEW p \in Policies, Modify(id, i, b, p)
  PROVE  IInv'
<1> DEFINE stored == StoredInterval(i, b)
<1>1. /\ stored \in Int
      /\ FirstTime(i, b) \in Int
      /\ p # Once => stored > 0
  BY ScheduleType DEF IInv, Modify
<1>2. PICK t \in BatchedTimes(FirstTime(i, b), stored, p, tree \ {id}) :
        LET next == IF InProcess(id) THEN t - stored ELSE t
        IN  /\ entry' = [entry EXCEPT ![id] =
                 [entry[id] EXCEPT !.nextTime = next, !.interval = stored,
                                   !.policy = p]]
            /\ hist' = [hist EXCEPT ![id] =
                 [hist[id] EXCEPT !.base = IF b = NoBase THEN now ELSE b,
                                  !.first = next, !.runs = 0]]
  BY DEF Modify
<1> DEFINE next == IF InProcess(id) THEN t - stored ELSE t
<1>3. t \in Int /\ next \in Int
  BY <1>1, <1>2, BatchedTimesType DEF IInv, TypeOK
<1>4. id \in idTree
  BY DEF Modify
<1>5. TypeOK'
  <2>1. (IF b = NoBase THEN now ELSE b) \in Int
    BY TimerAssumption DEF IInv, TypeOK, Bases
  <2>2. entry[id] \in Entries /\ hist[id] \in Histories
    BY DEF IInv, TypeOK
  <2>3. [entry[id] EXCEPT !.nextTime = next, !.interval = stored,
                          !.policy = p] \in Entries
    BY <1>1, <1>3, <2>2 DEF Entries
  <2>4. [hist[id] EXCEPT !.base = IF b = NoBase THEN now ELSE b,
                         !.first = next, !.runs = 0] \in Histories
    BY <1>3, <2>1, <2>2 DEF Histories
  <2>5. entry' \in [Ids -> Entries]
    <3>1. PICK e \in Entries : entry' = [entry EXCEPT ![id] = e]
      BY <1>2, <2>3
    <3>2. QED
      BY <3>1 DEF IInv, TypeOK
  <2>6. hist' \in [Ids -> Histories]
    <3>1. PICK h \in Histories : hist' = [hist EXCEPT ![id] = h]
      BY <1>2, <2>4
    <3>2. QED
      BY <3>1 DEF IInv, TypeOK
  <2>7. QED
    BY <2>5, <2>6 DEF IInv, TypeOK, Modify
<1>6. Partition'
  BY <1>4 DEF IInv, Partition, Modify, InProcess
<1>7. IdsBelowCounter'
  BY DEF IInv, IdsBelowCounter, Modify
<1>8. RepeatedIsPositive'
  BY <1>1, <1>2 DEF IInv, TypeOK, RepeatedIsPositive, Modify, Entries
<1>9. SentinelMarksRemoved'
  BY <1>2 DEF IInv, TypeOK, SentinelMarksRemoved, Modify, Entries, Histories
<1>10. QED
  BY <1>5, <1>6, <1>7, <1>8, <1>9 DEF IInv

\* UA_Timer_remove preserves it: it frees the entry, or sets the sentinel.
LEMMA RemoveIInv ==
  ASSUME IInv, NEW id \in Ids, Remove(id)
  PROVE  IInv'
<1>1. TypeOK'
  <2>1. hist' \in [Ids -> Histories]
    BY DEF IInv, TypeOK, Remove, Histories
  <2>2. entry' \in [Ids -> Entries]
    <3>1. entry[id] \in Entries
      BY DEF IInv, TypeOK
    <3>2. [entry[id] EXCEPT !.cb = FALSE] \in Entries
      BY <3>1 DEF Entries
    <3>3. PICK e \in Entries : entry' = [entry EXCEPT ![id] = e]
      BY <3>2, NoEntryType DEF Remove
    <3>4. QED
      BY <3>3 DEF IInv, TypeOK
  <2>3. QED
    BY <2>1, <2>2 DEF IInv, TypeOK, Remove
<1>2. Partition'
  BY DEF IInv, Partition, Remove, InProcess, ApplicationRuns
<1>3. IdsBelowCounter'
  BY DEF IInv, IdsBelowCounter, Remove
<1>4. RepeatedIsPositive'
  BY DEF IInv, TypeOK, RepeatedIsPositive, Remove, Entries
<1>5. SentinelMarksRemoved'
  BY DEF IInv, TypeOK, SentinelMarksRemoved, Remove, Entries, Histories
<1>6. QED
  BY <1>1, <1>2, <1>3, <1>4, <1>5 DEF IInv

\* UA_Timer_clear preserves it: nothing is left.
LEMMA ClearIInv == IInv /\ Clear => IInv'
<1> SUFFICES ASSUME IInv, Clear PROVE IInv'
  OBVIOUS
<1>1. TypeOK'
  <2>1. 0 \in 0..MaxId
    BY TimerAssumption
  <2>2. entry' \in [Ids -> Entries] /\ hist' \in [Ids -> Histories]
    BY NoEntryType DEF Clear
  <2>3. QED
    BY <2>1, <2>2 DEF IInv, TypeOK, Clear
<1>2. Partition'
  BY DEF IInv, Partition, Clear
<1>3. IdsBelowCounter' /\ RepeatedIsPositive' /\ SentinelMarksRemoved'
  BY DEF IdsBelowCounter, RepeatedIsPositive, SentinelMarksRemoved, Clear
<1>4. QED
  BY <1>1, <1>2, <1>3 DEF IInv

\* Splitting the time tree preserves it: the entries due change place.
LEMMA StartProcessIInv == IInv /\ StartProcess => IInv'
<1> SUFFICES ASSUME IInv, StartProcess PROVE IInv'
  OBVIOUS
<1>1. TypeOK'
  BY DEF IInv, TypeOK, StartProcess, Entries, Due
<1>2. Partition'
  BY DEF IInv, Partition, StartProcess, Due
<1>3. IdsBelowCounter' /\ RepeatedIsPositive' /\ SentinelMarksRemoved'
  BY DEF IInv, TypeOK, IdsBelowCounter, RepeatedIsPositive,
         SentinelMarksRemoved, StartProcess, Entries
<1>4. QED
  BY <1>1, <1>2, <1>3 DEF IInv

\* A new time changes no other field that matters.
LEMMA RescheduledEntry ==
  ASSUME NEW e \in Entries, NEW n \in Int
  PROVE  LET r == [e EXCEPT !.nextTime = n, !.due = 0]
         IN  /\ r \in Entries /\ r.interval = e.interval
             /\ r.cb = e.cb /\ r.policy = e.policy
<1> DEFINE r == [e EXCEPT !.nextTime = n, !.due = 0]
<1>1. r \in Entries
  <2>1. [e EXCEPT !.nextTime = n] \in Entries
    BY DEF Entries
  <2>2. ASSUME NEW f \in Entries PROVE [f EXCEPT !.due = 0] \in Entries
    BY DEF Entries
  <2>3. r = [[e EXCEPT !.nextTime = n] EXCEPT !.due = 0]
    BY DEF Entries
  <2>4. QED
    BY <2>1, <2>2, <2>3
<1>2. r.interval = e.interval /\ r.policy = e.policy
  BY DEF Entries
<1>3. r.cb = e.cb
  BY Zenon DEF Entries
<1>4. QED
  BY <1>1, <1>2, <1>3

\* What Settle leaves: the entry is freed or back in the time tree, and the
\* facts about the other entries are untouched.
LEMMA SettleFacts ==
  ASSUME IInv, NEW id \in idTree, Settle(id)
  PROVE  /\ entry' \in [Ids -> Entries]
         /\ \/ idTree' = idTree \ {id} /\ tree' = tree
            \/ idTree' = idTree /\ tree' = tree \cup {id}
         /\ \A o \in idTree' :
              entry'[o].policy # Once => entry'[o].interval > 0
         /\ \A o \in idTree' : entry'[o].cb = entry[o].cb
<1>1. id \in Ids /\ entry[id] \in Entries
  BY DEF IInv, TypeOK
<1>2. CASE Deletable(entry[id])
  <2>1. /\ idTree' = idTree \ {id} /\ tree' = tree
        /\ entry' = [entry EXCEPT ![id] = NoEntry]
    BY <1>2 DEF Settle
  <2>2. entry' \in [Ids -> Entries]
    BY <2>1, NoEntryType DEF IInv, TypeOK
  <2>3. \A o \in idTree' : entry'[o] = entry[o]
    BY <1>1, <2>1 DEF IInv, TypeOK
  <2>4. QED
    BY <2>1, <2>2, <2>3 DEF IInv, RepeatedIsPositive
<1>3. CASE ~Deletable(entry[id])
  <2>1. entry[id].interval > 0
    BY <1>3 DEF IInv, RepeatedIsPositive, Deletable
  <2>2. Rescheduled(entry[id]) \in Int
    BY <1>1, <2>1, RescheduledType DEF IInv, TypeOK
  <2>3. PICK e \in Entries : /\ e.interval = entry[id].interval
                            /\ e.cb = entry[id].cb
                            /\ e.policy = entry[id].policy
                            /\ entry' = [entry EXCEPT ![id] = e]
    BY <1>1, <1>3, <2>2, RescheduledEntry DEF Settle
  <2>4. idTree' = idTree /\ tree' = tree \cup {id}
    BY <1>3 DEF Settle
  <2>5. \A o \in idTree' : o \in Ids /\ (o # id => entry'[o] = entry[o])
    BY <2>3, <2>4 DEF IInv, TypeOK
  <2>6. entry'[id] = entry'[id] /\ entry' \in [Ids -> Entries]
    BY <2>3 DEF IInv, TypeOK
  <2>7. entry'[id].interval = entry[id].interval /\ entry'[id].cb = entry[id].cb
    BY <1>1, <2>3 DEF IInv, TypeOK
  <2>8. QED
    BY <2>1, <2>4, <2>5, <2>6, <2>7 DEF IInv, RepeatedIsPositive
<1>4. QED
  BY <1>2, <1>3

\* Visiting an entry preserves it, with and without a callback.
LEMMA VisitEntryIInv ==
  ASSUME IInv, NEW id \in Ids, VisitEntry(id)
  PROVE  IInv'
<1>1. id \in idTree /\ id \notin tree /\ id # None
  BY DEF IInv, Partition, VisitEntry, Ids, None
<1>2. CASE HasCallback(entry[id])
  <2>1. TypeOK'
    BY <1>2 DEF IInv, TypeOK, VisitEntry, Histories
  <2>2. Partition'
    BY <1>1, <1>2 DEF IInv, Partition, VisitEntry
  <2>3. IdsBelowCounter' /\ RepeatedIsPositive' /\ SentinelMarksRemoved'
    BY <1>2 DEF IInv, TypeOK, IdsBelowCounter, RepeatedIsPositive,
                SentinelMarksRemoved, VisitEntry, Histories
  <2>4. QED
    BY <2>1, <2>2, <2>3 DEF IInv
<1>3. CASE ~HasCallback(entry[id])
  <2>1. Settle(id) /\ UNCHANGED <<current, hist>>
    BY <1>3 DEF VisitEntry
  <2>2. TypeOK'
    BY <1>1, <2>1, SettleFacts DEF IInv, TypeOK, VisitEntry
  <2>3. Partition'
    BY <1>1, <2>1, SettleFacts DEF IInv, Partition, VisitEntry
  <2>4. IdsBelowCounter' /\ RepeatedIsPositive' /\ SentinelMarksRemoved'
    BY <1>1, <2>1, SettleFacts
    DEF IInv, IdsBelowCounter, RepeatedIsPositive, SentinelMarksRemoved, VisitEntry
  <2>5. QED
    BY <2>2, <2>3, <2>4 DEF IInv
<1>4. QED
  BY <1>2, <1>3

\* The return of a callback preserves it, whatever the callback did.
LEMMA CallbackReturnsIInv == IInv /\ CallbackReturns => IInv'
<1> SUFFICES ASSUME IInv, CallbackReturns PROVE IInv'
  OBVIOUS
<1>1. current \in idTree /\ current \notin tree /\ Settle(current)
  BY DEF IInv, Partition, CallbackReturns
<1>2. TypeOK'
  BY <1>1, SettleFacts DEF IInv, TypeOK, CallbackReturns
<1>3. Partition'
  <2>1. current' = None /\ pending' = pending /\ None \notin Ids
    BY DEF CallbackReturns, None, Ids
  <2>2. phase' # "processing" => pending' = {}
    BY DEF IInv, Partition, CallbackReturns
  <2>3. None \notin tree' \cup pending'
    BY <1>2, <2>1 DEF TypeOK
  <2>4. idTree' = tree' \cup pending /\ tree' \cap pending = {}
    <3>1. /\ idTree = tree \cup pending \cup {current}
          /\ tree \cap pending = {} /\ current \notin tree \cup pending
      BY DEF IInv, Partition, CallbackReturns
    <3>2. QED
      BY <1>1, <3>1, SettleFacts
  <2>5. QED
    BY <2>1, <2>2, <2>3, <2>4 DEF Partition
<1>4. IdsBelowCounter' /\ RepeatedIsPositive' /\ SentinelMarksRemoved'
  BY <1>1, SettleFacts
  DEF IInv, IdsBelowCounter, RepeatedIsPositive, SentinelMarksRemoved,
      CallbackReturns
<1>5. QED
  BY <1>2, <1>3, <1>4 DEF IInv

\* The end of the iteration preserves it.
LEMMA FinishProcessIInv == IInv /\ FinishProcess => IInv'
BY DEF IInv, TypeOK, Partition, IdsBelowCounter, RepeatedIsPositive,
       SentinelMarksRemoved, FinishProcess

\* The clock does not matter to it.
LEMMA TickIInv == IInv /\ Tick => IInv'
BY DEF IInv, TypeOK, Partition, IdsBelowCounter, RepeatedIsPositive,
       SentinelMarksRemoved, Tick

\* Every step preserves the inductive invariant.
LEMMA NextIInv == IInv /\ [Next]_vars => IInv'
<1> SUFFICES ASSUME IInv, [Next]_vars PROVE IInv'
  OBVIOUS
<1>1. CASE Application
  BY <1>1, AddIInv, ModifyIInv, RemoveIInv, ClearIInv DEF Application
<1>2. CASE Process
  BY <1>2, StartProcessIInv, VisitEntryIInv, CallbackReturnsIInv,
     FinishProcessIInv DEF Process
<1>3. CASE Tick
  BY <1>3, TickIInv
<1>4. CASE UNCHANGED vars
  BY <1>4 DEF vars, IInv, TypeOK, Partition, IdsBelowCounter,
              RepeatedIsPositive, SentinelMarksRemoved
<1>5. QED
  BY <1>1, <1>2, <1>3, <1>4 DEF Next

-----------------------------------------------------------------------------
(* The theorems.                                                           *)

\* The variables of the timer keep their types, and no repeated entry has an
\* interval that calculateNextTime cannot divide by.
THEOREM TypeCorrect == Spec => []WellFormed
<1>1. IInv => WellFormed
  BY DEF IInv, WellFormed
<1>2. QED
  BY <1>1, InitIInv, NextIInv, PTL DEF Spec

\* No tree ever holds a freed entry, no entry is leaked, none is in two places.
THEOREM PartitionHolds == Spec => []Partition
<1>1. IInv => Partition
  BY DEF IInv
<1>2. QED
  BY <1>1, InitIInv, NextIInv, PTL DEF Spec

\* A timer that was removed is never run again.
THEOREM RemovedNeverRuns == Spec => NeverRunsAfterRemove
<1> DEFINE NoRun == \A id \in Ids : current' = id /\ current # id => ~hist[id].removed
<1>1. IInv /\ [Next]_vars => [NoRun]_vars
  <2> SUFFICES ASSUME IInv, Next, NEW id \in Ids, current' = id, current # id
               PROVE  ~hist[id].removed
    OBVIOUS
  <2>1. PICK v \in Ids : VisitEntry(v)
    <3>1. ~CallbackReturns
      BY DEF CallbackReturns, Ids, None
    <3>2. ~Application /\ ~Tick
      BY DEF Application, Add, Modify, Remove, Clear, Tick
    <3>3. ~StartProcess /\ ~FinishProcess
      BY DEF StartProcess, FinishProcess
    <3>4. QED
      BY <3>1, <3>2, <3>3 DEF Next, Process
  <2>2. v = id /\ HasCallback(entry[id])
    BY <2>1 DEF VisitEntry
  <2>3. id \in idTree
    BY <2>1, <2>2 DEF VisitEntry, IInv, Partition
  <2>4. QED
    BY <2>2, <2>3 DEF HasCallback, IInv, SentinelMarksRemoved
<1>2. QED
  BY <1>1, InitIInv, NextIInv, PTL DEF Spec, NeverRunsAfterRemove
-----------------------------------------------------------------------------
(* How often and how early an entry runs.                                  *)

\* A repeated entry advances by its interval at least, and past the iteration.
LEMMA RescheduledBound ==
  ASSUME NEW e \in Entries, e.interval > 0, batchNow \in Nat
  PROVE  /\ Rescheduled(e) >= batchNow
         /\ Rescheduled(e) >= e.nextTime + e.interval
<1>1. e.nextTime \in Int /\ e.interval \in Int /\ batchNow \in Int
  BY DEF Entries
<1> DEFINE next == e.nextTime + e.interval
<1>2. CalculateNextTime(batchNow, next, e.interval) >= batchNow
  <2>1. batchNow - next \in Int /\ next \in Int
    BY <1>1
  <2>2. CRemainder(batchNow - next, e.interval) < e.interval
    BY <1>1, <2>1 DEF CRemainder
  <2>3. CRemainder(batchNow - next, e.interval) \in Int
    BY <1>1, <2>1, CRemainderType
  <2>4. QED
    BY <1>1, <2>1, <2>2, <2>3 DEF CalculateNextTime
<1>3. CalculateNextTime(batchNow, next, e.interval) \in Int
  <2>1. next \in Int
    BY <1>1
  <2>2. QED
    BY <1>1, <2>1, CalculateNextTimeType
<1>4. QED
  BY <1>1, <1>2, <1>3 DEF Rescheduled

\* One more execution costs one more interval.
LEMMA OneMore ==
  ASSUME NEW r \in Nat, NEW i \in Int, NEW n \in Int, NEW f \in Int,
         r * i <= n - f
  PROVE  (r + 1) * i <= n - f + i
<1>1. (r + 1) * i = r * i + i
  OBVIOUS
<1>2. QED
  BY <1>1

\* What Settle does to the fields that the schedule depends on.
LEMMA SettleSchedule ==
  ASSUME IInv, NEW id \in idTree, id \notin tree, Settle(id)
  PROVE  /\ \A o \in idTree \ {id} : entry'[o] = entry[o]
         /\ id \in idTree' =>
              /\ entry[id].policy # Once
              /\ entry[id].interval > 0
              /\ entry'[id].policy = entry[id].policy
              /\ entry'[id].interval = entry[id].interval
              /\ entry'[id].nextTime = Rescheduled(entry[id])
<1>1. id \in Ids /\ entry[id] \in Entries /\ idTree \subseteq Ids
  BY DEF IInv, TypeOK
<1>2. \A o \in idTree \ {id} : entry'[o] = entry[o]
  BY <1>1 DEF Settle, IInv, TypeOK
<1>3. ASSUME id \in idTree'
      PROVE  /\ entry[id].policy # Once
             /\ entry[id].interval > 0
             /\ entry'[id].policy = entry[id].policy
             /\ entry'[id].interval = entry[id].interval
             /\ entry'[id].nextTime = Rescheduled(entry[id])
  <2>1. ~Deletable(entry[id])
    BY <1>3 DEF Settle
  <2>2. entry[id].policy # Once /\ entry[id].interval > 0
    BY <2>1 DEF Deletable, IInv, RepeatedIsPositive
  <2>3. entry'[id] = [entry[id] EXCEPT !.nextTime = Rescheduled(entry[id]),
                                       !.due = 0]
    BY <1>1, <2>1 DEF Settle, IInv, TypeOK
  <2>4. QED
    BY <1>1, <2>2, <2>3 DEF Entries
<1>4. QED
  BY <1>2, <1>3

\* The strengthening: while its callback runs, an execution is already counted
\* and its interval not yet added.
Allowance(id) == IF id = current THEN entry[id].interval ELSE 0
OnceIsFresh(id) == entry[id].policy = Once /\ id # current => hist[id].runs = 0
Paced(id) ==
  entry[id].policy # Once =>
    hist[id].runs * entry[id].interval
      <= entry[id].nextTime - hist[id].first + Allowance(id)

SInv == \A id \in idTree : OnceIsFresh(id) /\ Paced(id)

\* UA_Timer_init establishes the invariant of the schedule.
LEMMA InitSInv == Init => SInv
BY DEF Init, SInv

\* UA_Timer_add preserves it: a new schedule starts without executions.
LEMMA AddSInv ==
  ASSUME IInv, SInv, NEW i \in Intervals, NEW b \in Bases, NEW p \in Policies,
         Add(i, b, p)
  PROVE  SInv'
<1> DEFINE stored == StoredInterval(i, b)
<1>0. PICK id \in Ids : id = idCounter + 1
  BY DEF Add
<1>1. PICK t \in BatchedTimes(FirstTime(i, b), stored, p, tree) :
        /\ entry' = [entry EXCEPT ![id] =
             [nextTime |-> t, interval |-> stored, policy |-> p, cb |-> TRUE,
              due |-> 0]]
        /\ hist' = [hist EXCEPT ![id] =
             [base |-> IF b = NoBase THEN now ELSE b,
              first |-> t, runs |-> 0, removed |-> FALSE]]
  BY <1>0 DEF Add
<1>2. stored \in Int /\ t \in Int
  BY <1>1, ScheduleType, BatchedTimesType DEF IInv, Add, TypeOK
<1>3. id \in Ids /\ id \notin idTree /\ id # current
  BY <1>0 DEF IInv, TypeOK, Partition, IdsBelowCounter, Ids, None
<1>4. \A o \in idTree : entry'[o] = entry[o] /\ hist'[o] = hist[o]
  BY <1>1, <1>3 DEF IInv, TypeOK
<1>5. /\ entry'[id].nextTime = t /\ entry'[id].interval = stored
      /\ hist'[id].first = t /\ hist'[id].runs = 0
  BY <1>1, <1>3 DEF IInv, TypeOK
<1>6. idTree' = idTree \cup {id} /\ current' = current
  BY <1>0 DEF Add
<1>7. OnceIsFresh(id)' /\ Paced(id)'
  BY <1>2, <1>3, <1>5, <1>6 DEF OnceIsFresh, Paced, Allowance
<1>8. \A o \in idTree : OnceIsFresh(o)' /\ Paced(o)'
  BY <1>4, <1>6 DEF SInv, OnceIsFresh, Paced, Allowance
<1>9. QED
  BY <1>6, <1>7, <1>8 DEF SInv

\* UA_Timer_modify preserves it: the schedule starts anew, in process too.
LEMMA ModifySInv ==
  ASSUME IInv, SInv, NEW id \in Ids, NEW i \in Intervals, NEW b \in Bases,
         NEW p \in Policies, Modify(id, i, b, p)
  PROVE  SInv'
<1> DEFINE stored == StoredInterval(i, b)
<1>1. /\ stored \in Int
      /\ FirstTime(i, b) \in Int
      /\ p # Once => stored > 0
  BY ScheduleType DEF IInv, Modify
<1>2. PICK t \in BatchedTimes(FirstTime(i, b), stored, p, tree \ {id}) :
        LET next == IF InProcess(id) THEN t - stored ELSE t
        IN  /\ entry' = [entry EXCEPT ![id] =
                 [entry[id] EXCEPT !.nextTime = next, !.interval = stored,
                                   !.policy = p]]
            /\ hist' = [hist EXCEPT ![id] =
                 [hist[id] EXCEPT !.base = IF b = NoBase THEN now ELSE b,
                                  !.first = next, !.runs = 0]]
  BY DEF Modify
<1> DEFINE next == IF InProcess(id) THEN t - stored ELSE t
<1>3. next \in Int
  BY <1>1, <1>2, BatchedTimesType DEF IInv, TypeOK
<1>4. /\ entry'[id].nextTime = next /\ entry'[id].interval = stored
      /\ entry'[id].policy = p
      /\ hist'[id].first = next /\ hist'[id].runs = 0
  <2>1. entry[id] \in Entries /\ hist[id] \in Histories
    BY DEF IInv, TypeOK
  <2>2. QED
    BY <1>2, <2>1 DEF IInv, TypeOK, Entries, Histories
<1>5. \A o \in idTree \ {id} : entry'[o] = entry[o] /\ hist'[o] = hist[o]
  BY <1>2 DEF IInv, TypeOK
<1>6. idTree' = idTree /\ current' = current
  BY DEF Modify
<1>7. OnceIsFresh(id)' /\ Paced(id)'
  BY <1>1, <1>3, <1>4, <1>6 DEF OnceIsFresh, Paced, Allowance
<1>8. \A o \in idTree \ {id} : OnceIsFresh(o)' /\ Paced(o)'
  BY <1>5, <1>6 DEF SInv, OnceIsFresh, Paced, Allowance
<1>9. QED
  BY <1>6, <1>7, <1>8 DEF SInv

\* A step that keeps the schedule of the entries that stay and the current one.
LEMMA SameScheduleSInv ==
  ASSUME SInv, current' = current, idTree' \subseteq idTree,
         \A o \in idTree' :
           /\ entry'[o].policy = entry[o].policy
           /\ entry'[o].interval = entry[o].interval
           /\ entry'[o].nextTime = entry[o].nextTime
           /\ hist'[o].runs = hist[o].runs
           /\ hist'[o].first = hist[o].first
  PROVE  SInv'
BY DEF SInv, OnceIsFresh, Paced, Allowance

\* Settling the current entry preserves it.
LEMMA SettleSInv ==
  ASSUME IInv, SInv, NEW id \in idTree, id \notin tree, Settle(id), hist' = hist,
         current' = None,
         current = id \/ (current = None /\ ~HasCallback(entry[id]))
  PROVE  SInv'
<1>1. /\ None \notin Ids /\ idTree \subseteq Ids /\ idTree' \subseteq idTree
      /\ entry[id] \in Entries /\ hist[id] \in Histories /\ batchNow \in Nat
  BY DEF IInv, TypeOK, Settle, None, Ids
<1>2. ASSUME id \in idTree' PROVE OnceIsFresh(id)' /\ Paced(id)'
  <2>1. /\ entry[id].policy # Once /\ entry[id].interval > 0
        /\ entry'[id].policy = entry[id].policy
        /\ entry'[id].interval = entry[id].interval
        /\ entry'[id].nextTime = Rescheduled(entry[id])
    BY <1>2, SettleSchedule
  <2>2. Rescheduled(entry[id]) >= entry[id].nextTime + entry[id].interval
    BY <1>1, <2>1, RescheduledBound
  <2>3. Rescheduled(entry[id]) \in Int
    BY <1>1, <2>1, RescheduledType
  <2>4. /\ entry[id].nextTime \in Int /\ entry[id].interval \in Int
        /\ hist[id].first \in Int /\ hist[id].runs \in Nat
    BY <1>1 DEF Entries, Histories
  <2>5. hist[id].runs * entry[id].interval
          <= entry[id].nextTime - hist[id].first + entry[id].interval
    <3>1. hist[id].runs * entry[id].interval
            <= entry[id].nextTime - hist[id].first + Allowance(id)
      BY <2>1 DEF SInv, Paced
    <3>2. QED
      BY <2>1, <2>4, <3>1 DEF Allowance
  <2>6. hist[id].runs * entry[id].interval \in Int
    BY <2>4
  <2>7. hist[id].runs * entry[id].interval
          <= Rescheduled(entry[id]) - hist[id].first
    BY <2>2, <2>3, <2>4, <2>5, <2>6
  <2>8. Paced(id)'
    BY <1>1, <2>1, <2>3, <2>4, <2>7 DEF Paced, Allowance
  <2>9. QED
    BY <2>1, <2>8 DEF OnceIsFresh
<1>3. \A o \in idTree' \ {id} : OnceIsFresh(o)' /\ Paced(o)'
  <2> SUFFICES ASSUME NEW o \in idTree', o # id PROVE OnceIsFresh(o)' /\ Paced(o)'
    OBVIOUS
  <2>1. o \in idTree /\ entry'[o] = entry[o] /\ hist'[o] = hist[o]
    BY <1>1, SettleSchedule
  <2>2. o # current /\ o # current'
    BY <1>1, <2>1
  <2>3. QED
    BY <2>1, <2>2 DEF SInv, OnceIsFresh, Paced, Allowance
<1>4. QED
  BY <1>2, <1>3 DEF SInv

\* Visiting an entry preserves the invariant of the schedule.
LEMMA VisitEntrySInv ==
  ASSUME IInv, SInv, NEW id \in Ids, VisitEntry(id)
  PROVE  SInv'
<1>1. /\ id \in idTree /\ id \notin tree /\ current = None
      /\ None \notin Ids /\ idTree \subseteq Ids
  BY DEF IInv, TypeOK, Partition, VisitEntry, Ids, None
<1>2. CASE HasCallback(entry[id])
  <2>1. /\ current' = id /\ entry' = entry /\ idTree' = idTree
        /\ hist' = [hist EXCEPT ![id].runs = @ + 1]
    BY <1>2 DEF VisitEntry
  <2>2. entry[id] \in Entries /\ hist[id] \in Histories
    BY DEF IInv, TypeOK
  <2>3. hist'[id].runs = hist[id].runs + 1 /\ hist'[id].first = hist[id].first
    BY <2>1, <2>2 DEF IInv, TypeOK, Histories
  <2>4. \A o \in idTree \ {id} : hist'[o] = hist[o]
    BY <2>1 DEF IInv, TypeOK
  <2>5. OnceIsFresh(id)' /\ Paced(id)'
    <3>1. /\ hist[id].runs \in Nat /\ hist[id].first \in Int
          /\ entry[id].interval \in Int /\ entry[id].nextTime \in Int
      BY <2>2 DEF Entries, Histories
    <3>2. entry[id].policy # Once =>
            hist[id].runs * entry[id].interval <= entry[id].nextTime - hist[id].first
      BY <1>1, <3>1 DEF SInv, Paced, Allowance
    <3>3. entry[id].policy # Once =>
            (hist[id].runs + 1) * entry[id].interval
              <= entry[id].nextTime - hist[id].first + entry[id].interval
      BY <3>1, <3>2, OneMore
    <3>4. QED
      BY <2>1, <2>3, <3>3 DEF OnceIsFresh, Paced, Allowance
  <2>6. \A o \in idTree \ {id} : OnceIsFresh(o)' /\ Paced(o)'
    BY <1>1, <2>1, <2>4 DEF SInv, OnceIsFresh, Paced, Allowance
  <2>7. QED
    BY <2>1, <2>5, <2>6 DEF SInv
<1>3. CASE ~HasCallback(entry[id])
  BY <1>1, <1>3, SettleSInv DEF VisitEntry
<1>4. QED
  BY <1>2, <1>3

\* Every step preserves the invariant of the schedule.
LEMMA NextSInv == IInv /\ SInv /\ [Next]_vars => SInv'
<1> SUFFICES ASSUME IInv, SInv, [Next]_vars PROVE SInv'
  OBVIOUS
<1>1. ASSUME NEW id \in Ids, Remove(id) PROVE SInv'
  <2>1. entry[id] \in Entries /\ hist[id] \in Histories /\ idTree \subseteq Ids
    BY DEF IInv, TypeOK
  <2>2. \A o \in idTree : /\ hist'[o].runs = hist[o].runs
                          /\ hist'[o].first = hist[o].first
    BY <1>1, <2>1 DEF Remove, IInv, TypeOK, Histories
  <2>3. \A o \in idTree' : /\ entry'[o].policy = entry[o].policy
                           /\ entry'[o].interval = entry[o].interval
                           /\ entry'[o].nextTime = entry[o].nextTime
    BY <1>1, <2>1 DEF Remove, IInv, TypeOK, Entries
  <2>4. current' = current /\ idTree' \subseteq idTree
    BY <1>1 DEF Remove
  <2>5. QED
    BY <2>2, <2>3, <2>4, SameScheduleSInv
<1>2. CASE Clear
  BY <1>2 DEF Clear, SInv
<1>3. CASE StartProcess
  <2>1. \A o \in idTree : /\ entry'[o].policy = entry[o].policy
                          /\ entry'[o].interval = entry[o].interval
                          /\ entry'[o].nextTime = entry[o].nextTime
    BY <1>3 DEF StartProcess, IInv, TypeOK, Entries
  <2>2. hist' = hist /\ current' = current /\ idTree' = idTree
    BY <1>3 DEF StartProcess
  <2>3. QED
    BY <2>1, <2>2, SameScheduleSInv
<1>4. CASE CallbackReturns
  <2>1. current \in idTree /\ current \notin tree
    BY <1>4 DEF CallbackReturns, IInv, Partition
  <2>2. QED
    BY <1>4, <2>1, SettleSInv DEF CallbackReturns
<1>5. CASE FinishProcess \/ Tick \/ UNCHANGED vars
  BY <1>5, SameScheduleSInv DEF FinishProcess, Tick, vars
<1>6. QED
  BY <1>1, <1>2, <1>3, <1>4, <1>5, AddSInv, ModifySInv, VisitEntrySInv
  DEF Next, Application, Process

\* Executions never outpace the interval, whatever the clock and the
\* callbacks do; and a timer of the policy "once" runs once.
THEOREM ExecutionsArePaced == Spec => [](NeverAheadOfInterval /\ OnceRunsOnce)
<1>1. IInv /\ SInv => NeverAheadOfInterval /\ OnceRunsOnce
  <2> SUFFICES ASSUME IInv, SInv PROVE NeverAheadOfInterval /\ OnceRunsOnce
    OBVIOUS
  <2>1. ASSUME NEW id \in tree, entry[id].policy # Once
        PROVE  hist[id].runs * entry[id].interval
                 <= entry[id].nextTime - hist[id].first
    <3>1. id \in idTree /\ id # current /\ id \in Ids
      BY DEF IInv, TypeOK, Partition
    <3>2. hist[id].runs * entry[id].interval
            <= entry[id].nextTime - hist[id].first + 0
      BY <2>1, <3>1 DEF SInv, Paced, Allowance
    <3>3. entry[id].nextTime - hist[id].first \in Int
      BY <3>1 DEF IInv, TypeOK, Entries, Histories
    <3>4. QED
      BY <3>2, <3>3
  <2>2. NeverAheadOfInterval
    BY <2>1 DEF NeverAheadOfInterval
  <2>3. OnceRunsOnce
    BY DEF IInv, Partition, SInv, OnceIsFresh, OnceRunsOnce
  <2>4. QED
    BY <2>2, <2>3
<1>2. QED
  BY <1>1, InitIInv, NextIInv, InitSInv, NextSInv, PTL DEF Spec

\* processEntryCallback frees a timer of the policy Once after its execution,
\* whatever its callback calls.
THEOREM OnceIsOnce == Spec => []OnceRunsOnce
BY ExecutionsArePaced, PTL

\* No timer is left behind the iteration that ran it.
THEOREM NoBurstHolds == Spec => NoBurst
<1> DEFINE Ahead == \A id \in tree' \ tree :
                      id \in idTree => entry'[id].nextTime >= batchNow
<1>1. IInv /\ [Next]_vars => [Ahead]_vars
  <2> SUFFICES ASSUME IInv, Next, NEW id \in tree', id \notin tree, id \in idTree
               PROVE  entry'[id].nextTime >= batchNow
    OBVIOUS
  <2>1. Settle(id)
    <3>1. CASE CallbackReturns
      BY <3>1 DEF CallbackReturns, Settle
    <3>2. CASE \E v \in Ids : VisitEntry(v)
      <4>1. PICK v \in Ids : VisitEntry(v)
        BY <3>2
      <4>2. ~HasCallback(entry[v])
        BY <4>1 DEF VisitEntry
      <4>3. Settle(v)
        BY <4>1, <4>2 DEF VisitEntry
      <4>4. v = id
        BY <4>3 DEF Settle
      <4>5. QED
        BY <4>3, <4>4
    <3>3. CASE StartProcess \/ FinishProcess \/ Tick
      BY <3>3 DEF StartProcess, FinishProcess, Tick
    <3>4. CASE Application
      <4>1. ASSUME NEW i \in Intervals, NEW b \in Bases, NEW p \in Policies,
                   Add(i, b, p)
            PROVE  FALSE
        BY <4>1 DEF Add, IInv, TypeOK, IdsBelowCounter, Ids
      <4>2. ASSUME NEW o \in Ids, NEW i \in Intervals, NEW b \in Bases,
                   NEW p \in Policies, Modify(o, i, b, p)
            PROVE  FALSE
        BY <4>2 DEF Modify, InProcess
      <4>3. ASSUME NEW o \in Ids, Remove(o) PROVE FALSE
        BY <4>3 DEF Remove
      <4>4. QED
        BY <3>4, <4>1, <4>2, <4>3 DEF Application, Clear
    <3>5. QED
      BY <3>1, <3>2, <3>3, <3>4 DEF Next, Process
  <2>2. id \in idTree'
    BY <2>1 DEF Settle
  <2>3. entry[id].interval > 0 /\ entry'[id].nextTime = Rescheduled(entry[id])
    BY <2>1, <2>2, SettleSchedule
  <2>4. QED
    BY <2>3, RescheduledBound DEF IInv, TypeOK
<1>2. QED
  BY <1>1, InitIInv, NextIInv, PTL DEF Spec, NoBurst
-----------------------------------------------------------------------------
(* The phase of a timer of the policy "BaseTime".                          *)

\* n is a whole number of intervals, possibly negative.
Whole(n, i) == \E k \in Int : n = k * i

\* The remainder of C differs from the dividend by whole intervals.
LEMMA RemainderIsWhole ==
  ASSUME NEW a \in Int, NEW i \in Int, i > 0
  PROVE  Whole(a - CRemainder(a, i), i)
<1>1. ASSUME NEW n \in Int PROVE n \div i \in Int /\ n - (n % i) = (n \div i) * i
  OBVIOUS
<1>2. CASE a >= 0
  <2>1. CRemainder(a, i) = a % i
    BY <1>2 DEF CRemainder
  <2>2. QED
    BY <1>1, <2>1 DEF Whole
<1>3. CASE ~(a >= 0)
  <2> DEFINE q == (-a) \div i
  <2>1. CRemainder(a, i) = -((-a) % i) /\ -a \in Int
    BY <1>3 DEF CRemainder
  <2>2. q \in Int /\ (-a) - ((-a) % i) = q * i /\ (-a) % i \in Int
    BY <1>1, <2>1
  <2> HIDE DEF q
  <2>3. a - CRemainder(a, i) = -(q * i)
    BY <2>1, <2>2
  <2>4. -(q * i) = (-q) * i /\ -q \in Int
    BY <2>2
  <2>5. QED
    BY <2>3, <2>4 DEF Whole
<1>4. QED
  BY <1>2, <1>3

\* A whole number of intervals has no remainder.
LEMMA WholeHasNoRemainder ==
  ASSUME NEW n \in Int, NEW i \in Int, i > 0, Whole(n, i)
  PROVE  CRemainder(n, i) = 0
<1>1. PICK k \in Int : n = k * i
  BY DEF Whole
<1>2. PICK q \in Int : n - CRemainder(n, i) = q * i
  BY RemainderIsWhole DEF Whole
<1>3. /\ CRemainder(n, i) \in Int
      /\ -i < CRemainder(n, i) /\ CRemainder(n, i) < i
  BY DEF CRemainder
<1> DEFINE d == k - q
<1>4. d \in Int /\ CRemainder(n, i) = d * i
  <2>1. (k - q) * i = k * i - q * i
    OBVIOUS
  <2>2. k * i \in Int /\ q * i \in Int
    OBVIOUS
  <2>3. QED
    BY <1>1, <1>2, <1>3, <2>1, <2>2
<1> HIDE DEF d
<1>5. ASSUME d >= 1 PROVE d * i >= i
  BY <1>4, <1>5
<1>6. ASSUME d <= -1 PROVE d * i <= -i
  BY <1>4, <1>6
<1>7. d = 0
  BY <1>3, <1>4, <1>5, <1>6
<1>8. QED
  BY <1>4, <1>7

\* Whole numbers of intervals add up.
LEMMA WholeAdds ==
  ASSUME NEW m \in Int, NEW n \in Int, NEW i \in Int, Whole(m, i), Whole(n, i)
  PROVE  Whole(m + n, i) /\ Whole(n - i, i) /\ Whole(n + i, i)
<1>1. PICK j \in Int : m = j * i
  BY DEF Whole
<1>2. PICK k \in Int : n = k * i
  BY DEF Whole
<1>3. /\ (j + k) * i = j * i + k * i
      /\ (k - 1) * i = k * i - i
      /\ (k + 1) * i = k * i + i
  OBVIOUS
<1>4. j + k \in Int /\ k - 1 \in Int /\ k + 1 \in Int
  OBVIOUS
<1>5. m + n = (j + k) * i /\ n - i = (k - 1) * i /\ n + i = (k + 1) * i
  BY <1>1, <1>2, <1>3
<1>6. QED
  BY <1>4, <1>5 DEF Whole

\* calculateNextTime keeps the phase of the base time.
LEMMA CalculateKeepsPhase ==
  ASSUME NEW c \in Int, NEW b \in Int, NEW i \in Int, i > 0
  PROVE  Whole(CalculateNextTime(c, b, i) - b, i)
<1> DEFINE r == CRemainder(c - b, i)
<1>1. c - b \in Int
  OBVIOUS
<1>2. r \in Int /\ Whole((c - b) - r, i)
  BY <1>1, CRemainderType, RemainderIsWhole
<1>3. CalculateNextTime(c, b, i) = IF r < 0 THEN c - r ELSE c + i - r
  BY <1>2 DEF CalculateNextTime
<1> HIDE DEF r
<1>4. Whole((c - b) - r + i, i)
  BY <1>2, WholeAdds
<1>5. CASE r < 0
  <2>1. CalculateNextTime(c, b, i) - b = (c - b) - r
    BY <1>2, <1>3, <1>5
  <2>2. QED
    BY <1>2, <2>1
<1>6. CASE ~(r < 0)
  <2>1. CalculateNextTime(c, b, i) - b = (c - b) - r + i
    BY <1>2, <1>3, <1>6
  <2>2. QED
    BY <1>4, <2>1
<1>7. QED
  BY <1>5, <1>6

\* The first time of a schedule is in phase with its base time.
LEMMA FirstTimeInPhase ==
  ASSUME TypeOK, NEW i \in Intervals, NEW b \in Bases, i > 0
  PROVE  /\ StoredInterval(i, b) = i
         /\ Whole(FirstTime(i, b) - (IF b = NoBase THEN now ELSE b), i)
<1>1. i \in Int /\ now \in Int /\ (b # NoBase => b \in Int)
  BY TimerAssumption DEF TypeOK, Bases
<1>2. StoredInterval(i, b) = i
  BY <1>1 DEF StoredInterval
<1>3. CASE b = NoBase
  <2>1. FirstTime(i, b) - now = 1 * i
    BY <1>1, <1>2, <1>3 DEF FirstTime
  <2>2. QED
    BY <1>2, <1>3, <2>1 DEF Whole
<1>4. CASE b # NoBase
  <2>1. FirstTime(i, b) = CalculateNextTime(now, b, i)
    BY <1>1, <1>4 DEF FirstTime
  <2>2. QED
    BY <1>1, <1>2, <1>4, <2>1, CalculateKeepsPhase
<1>5. QED
  BY <1>3, <1>4

\* A timer of the policy BaseTime is not batched.
LEMMA BaseTimeIsNotBatched ==
  ASSUME NEW t, NEW i, NEW S, NEW u \in BatchedTimes(t, i, BaseTime, S)
  PROVE  u = t
BY DEF BatchedTimes, BaseTime, CurrentTime

\* The strengthening of InPhase: an entry keeps its phase while it runs.
PInv ==
  \A id \in idTree :
    entry[id].policy = BaseTime =>
      Whole(entry[id].nextTime - hist[id].base, entry[id].interval)

\* A step that keeps what the phase depends on.
LEMMA SamePhase ==
  ASSUME PInv, idTree' \subseteq idTree,
         \A o \in idTree' :
           /\ entry'[o].policy = entry[o].policy
           /\ entry'[o].interval = entry[o].interval
           /\ entry'[o].nextTime = entry[o].nextTime
           /\ hist'[o].base = hist[o].base
  PROVE  PInv'
BY DEF PInv

\* UA_Timer_add schedules a timer in phase.
LEMMA AddPInv ==
  ASSUME IInv, PInv, NEW i \in Intervals, NEW b \in Bases, NEW p \in Policies,
         Add(i, b, p)
  PROVE  PInv'
<1> DEFINE id == idCounter + 1
<1>1. id \in Ids /\ id \notin idTree
  BY DEF Add, IInv, TypeOK, IdsBelowCounter, Ids
<1>2. PICK t \in BatchedTimes(FirstTime(i, b), StoredInterval(i, b), p, tree) :
        /\ entry' = [entry EXCEPT ![id] =
             [nextTime |-> t, interval |-> StoredInterval(i, b), policy |-> p,
              cb |-> TRUE, due |-> 0]]
        /\ hist' = [hist EXCEPT ![id] =
             [base |-> IF b = NoBase THEN now ELSE b,
              first |-> t, runs |-> 0, removed |-> FALSE]]
  BY DEF Add
<1>3. /\ entry'[id].nextTime = t /\ entry'[id].policy = p
      /\ entry'[id].interval = StoredInterval(i, b)
      /\ hist'[id].base = IF b = NoBase THEN now ELSE b
  BY <1>1, <1>2 DEF IInv, TypeOK
<1>4. \A o \in idTree : entry'[o] = entry[o] /\ hist'[o] = hist[o]
  BY <1>1, <1>2 DEF IInv, TypeOK
<1>5. idTree' = idTree \cup {id}
  BY DEF Add
<1>6. ASSUME p = BaseTime
      PROVE  Whole(entry'[id].nextTime - hist'[id].base, entry'[id].interval)
  <2>1. i > 0
    BY <1>6 DEF Add, Accepted, BaseTime, Once
  <2>2. t = FirstTime(i, b)
    BY <1>2, <1>6, BaseTimeIsNotBatched
  <2>3. QED
    BY <1>3, <2>1, <2>2, FirstTimeInPhase DEF IInv
<1>7. QED
  BY <1>3, <1>4, <1>5, <1>6 DEF PInv

\* UA_Timer_modify schedules a timer in phase, one interval early if the timer
\* is in process.
LEMMA ModifyPInv ==
  ASSUME IInv, PInv, NEW id \in Ids, NEW i \in Intervals, NEW b \in Bases,
         NEW p \in Policies, Modify(id, i, b, p)
  PROVE  PInv'
<1> DEFINE stored == StoredInterval(i, b)
<1> DEFINE base == IF b = NoBase THEN now ELSE b
<1>1. PICK t \in BatchedTimes(FirstTime(i, b), stored, p, tree \ {id}) :
        LET next == IF InProcess(id) THEN t - stored ELSE t
        IN  /\ entry' = [entry EXCEPT ![id] =
                 [entry[id] EXCEPT !.nextTime = next, !.interval = stored,
                                   !.policy = p]]
            /\ hist' = [hist EXCEPT ![id] =
                 [hist[id] EXCEPT !.base = IF b = NoBase THEN now ELSE b,
                                  !.first = next, !.runs = 0]]
  BY DEF Modify
<1> DEFINE next == IF InProcess(id) THEN t - stored ELSE t
<1>2. /\ entry'[id].nextTime = next /\ entry'[id].interval = stored
      /\ entry'[id].policy = p /\ hist'[id].base = base
  <2>1. entry[id] \in Entries /\ hist[id] \in Histories
    BY DEF IInv, TypeOK
  <2>2. QED
    BY <1>1, <2>1 DEF IInv, TypeOK, Entries, Histories
<1>3. \A o \in idTree \ {id} : entry'[o] = entry[o] /\ hist'[o] = hist[o]
  BY <1>1 DEF IInv, TypeOK
<1>4. idTree' = idTree
  BY DEF Modify
<1>5. ASSUME p = BaseTime PROVE Whole(next - base, stored)
  <2>1. i > 0 /\ i \in Int
    BY <1>5, TimerAssumption DEF Modify, Accepted, BaseTime, Once
  <2>2. t = FirstTime(i, b)
    BY <1>1, <1>5, BaseTimeIsNotBatched
  <2>3. stored = i /\ Whole(t - base, i)
    BY <2>1, <2>2, FirstTimeInPhase DEF IInv
  <2>4. t \in Int /\ base \in Int
    <3>1. FirstTime(i, b) \in Int
      BY ScheduleType DEF IInv, Modify
    <3>2. QED
      BY <2>2, <3>1, TimerAssumption DEF IInv, TypeOK, Bases
  <2> HIDE DEF base, stored
  <2>5. t - base \in Int /\ (t - stored) - base = (t - base) - i
    BY <2>1, <2>3, <2>4
  <2>6. Whole((t - base) - i, i)
    BY <2>1, <2>3, <2>5, WholeAdds
  <2>7. QED
    BY <2>3, <2>5, <2>6
<1>6. QED
  BY <1>2, <1>3, <1>4, <1>5 DEF PInv

\* processEntryCallback moves a timer by whole intervals, with or without a
\* missed cycle.
LEMMA RescheduledKeepsPhase ==
  ASSUME NEW e \in Entries, e.interval > 0, e.policy = BaseTime, batchNow \in Nat,
         NEW b \in Int, Whole(e.nextTime - b, e.interval)
  PROVE  Whole(Rescheduled(e) - b, e.interval)
<1> DEFINE next == e.nextTime + e.interval
<1> DEFINE calculated == CalculateNextTime(batchNow, next, e.interval)
<1>1. /\ e.nextTime \in Int /\ e.interval \in Int /\ batchNow \in Int
      /\ next \in Int /\ e.nextTime - b \in Int
  BY DEF Entries
<1>2. next - b = (e.nextTime - b) + e.interval
  BY <1>1
<1>3. next - b \in Int /\ Whole(next - b, e.interval)
  <2>1. Whole((e.nextTime - b) + e.interval, e.interval)
    BY <1>1, WholeAdds
  <2>2. QED
    BY <1>1, <1>2, <2>1
<1>4. calculated \in Int /\ Whole(calculated - next, e.interval)
  BY <1>1, CalculateNextTimeType, CalculateKeepsPhase
<1>5. Rescheduled(e) = IF next >= batchNow THEN next ELSE calculated
  BY DEF Rescheduled, BaseTime, CurrentTime
<1> HIDE DEF next, calculated
<1>6. calculated - b = (calculated - next) + (next - b) /\ calculated - next \in Int
  BY <1>1, <1>4
<1>7. Whole(calculated - b, e.interval)
  BY <1>1, <1>3, <1>4, <1>6, WholeAdds
<1>8. QED
  BY <1>3, <1>5, <1>7

\* Settling an entry preserves the phases.
LEMMA SettlePInv ==
  ASSUME IInv, PInv, NEW id \in idTree, id \notin tree, Settle(id), hist' = hist
  PROVE  PInv'
<1>1. /\ entry[id] \in Entries /\ hist[id] \in Histories /\ batchNow \in Nat
      /\ idTree' \subseteq idTree /\ hist[id].base \in Int
  BY DEF IInv, TypeOK, Settle, Histories
<1>2. \A o \in idTree \ {id} : entry'[o] = entry[o]
  BY SettleSchedule
<1>3. ASSUME id \in idTree', entry'[id].policy = BaseTime
      PROVE  Whole(entry'[id].nextTime - hist'[id].base, entry'[id].interval)
  <2>1. /\ entry[id].interval > 0
        /\ entry'[id].policy = entry[id].policy
        /\ entry'[id].interval = entry[id].interval
        /\ entry'[id].nextTime = Rescheduled(entry[id])
    BY <1>3, SettleSchedule
  <2>2. Whole(entry[id].nextTime - hist[id].base, entry[id].interval)
    BY <1>3, <2>1 DEF PInv
  <2>3. Whole(Rescheduled(entry[id]) - hist[id].base, entry[id].interval)
    BY <1>1, <1>3, <2>1, <2>2, RescheduledKeepsPhase
  <2>4. QED
    BY <2>1, <2>3
<1>4. QED
  BY <1>1, <1>2, <1>3 DEF PInv

\* Every step keeps the timers of the policy BaseTime in phase.
LEMMA NextPInv == IInv /\ PInv /\ [Next]_vars => PInv'
<1> SUFFICES ASSUME IInv, PInv, [Next]_vars PROVE PInv'
  OBVIOUS
<1>1. ASSUME NEW id \in Ids, Remove(id) PROVE PInv'
  <2>1. entry[id] \in Entries /\ hist[id] \in Histories /\ idTree \subseteq Ids
    BY DEF IInv, TypeOK
  <2>2. \A o \in idTree : hist'[o].base = hist[o].base
    BY <1>1, <2>1 DEF Remove, IInv, TypeOK, Histories
  <2>3. \A o \in idTree' : /\ entry'[o].policy = entry[o].policy
                           /\ entry'[o].interval = entry[o].interval
                           /\ entry'[o].nextTime = entry[o].nextTime
    BY <1>1, <2>1 DEF Remove, IInv, TypeOK, Entries
  <2>4. idTree' \subseteq idTree
    BY <1>1 DEF Remove
  <2>5. QED
    BY <2>2, <2>3, <2>4, SamePhase
<1>2. CASE Clear
  BY <1>2 DEF Clear, PInv
<1>3. CASE StartProcess
  <2>1. \A o \in idTree : /\ entry'[o].policy = entry[o].policy
                          /\ entry'[o].interval = entry[o].interval
                          /\ entry'[o].nextTime = entry[o].nextTime
    BY <1>3 DEF StartProcess, IInv, TypeOK, Entries
  <2>2. hist' = hist /\ idTree' = idTree
    BY <1>3 DEF StartProcess
  <2>3. QED
    BY <2>1, <2>2, SamePhase
<1>4. CASE CallbackReturns
  <2>1. current \in idTree /\ current \notin tree
    BY <1>4 DEF CallbackReturns, IInv, Partition
  <2>2. QED
    BY <1>4, <2>1, SettlePInv DEF CallbackReturns
<1>5. ASSUME NEW id \in Ids, VisitEntry(id) PROVE PInv'
  <2>1. id \in idTree /\ id \notin tree
    BY <1>5 DEF IInv, Partition, VisitEntry
  <2>2. CASE HasCallback(entry[id])
    <3>1. \A o \in idTree : hist'[o].base = hist[o].base
      BY <1>5, <2>2 DEF VisitEntry, IInv, TypeOK, Histories
    <3>2. entry' = entry /\ idTree' = idTree
      BY <1>5, <2>2 DEF VisitEntry
    <3>3. QED
      BY <3>1, <3>2, SamePhase
  <2>3. CASE ~HasCallback(entry[id])
    BY <1>5, <2>1, <2>3, SettlePInv DEF VisitEntry
  <2>4. QED
    BY <2>2, <2>3
<1>6. CASE FinishProcess \/ Tick \/ UNCHANGED vars
  BY <1>6, SamePhase DEF FinishProcess, Tick, vars
<1>7. QED
  BY <1>1, <1>2, <1>3, <1>4, <1>5, <1>6, AddPInv, ModifyPInv
  DEF Next, Application, Process

\* A timer of the policy BaseTime stays in phase with its base time: late
\* executions, missed cycles and changes by callbacks move it by whole intervals.
THEOREM StaysInPhase == Spec => []InPhase
<1>1. Init => PInv
  BY DEF Init, PInv
<1>2. IInv /\ PInv => InPhase
  <2> SUFFICES ASSUME IInv, PInv, NEW id \in tree \cup pending,
                      entry[id].policy = BaseTime
               PROVE  CRemainder(entry[id].nextTime - hist[id].base,
                                 entry[id].interval) = 0
    BY DEF InPhase
  <2>1. id \in idTree /\ id \in Ids
    BY DEF IInv, TypeOK, Partition
  <2>2. entry[id].interval > 0
    BY <2>1 DEF IInv, RepeatedIsPositive, BaseTime, Once
  <2>3. entry[id].nextTime - hist[id].base \in Int /\ entry[id].interval \in Int
    BY <2>1 DEF IInv, TypeOK, Entries, Histories
  <2>4. Whole(entry[id].nextTime - hist[id].base, entry[id].interval)
    BY <2>1 DEF PInv
  <2>5. QED
    BY <2>2, <2>3, <2>4, WholeHasNoRemainder
<1>3. QED
  BY <1>1, <1>2, InitIInv, NextIInv, NextPInv, PTL DEF Spec
=============================================================================
