---------------------------- MODULE DelayedQueue ----------------------------
(***************************************************************************)
(* The delayed callbacks of the event loop, pointer by pointer:            *)
(* addDelayedCallback, resetDelayedQueue, removeDelayedCallback and        *)
(* processDelayed of arch/lwip/eventloop_lwip.c.                           *)
(*                                                                         *)
(* The queue is a linked list with two heads.  One head is active, the     *)
(* other holds the sentinel 0x01.  delayedTail points to the slot that the *)
(* next element is linked into: the active head or the next field of the   *)
(* last element.  next is the first field of UA_DelayedCallback, so a      *)
(* pointer to a cell and a pointer to its next field are one value.        *)
(*                                                                         *)
(* The event loop's task is the thread Loop: it adds and removes callbacks *)
(* from anywhere outside processDelayed and from inside the callbacks that *)
(* processDelayed calls.  Producers are other contexts, as the header      *)
(* allows ("thread-safe", "can be called from an interrupt context").      *)
(* UA_atomic_xchg is one step with UA_MULTITHREADING >= 100, and a load    *)
(* followed by a store in this build (open62541.h).                        *)
(***************************************************************************)
EXTENDS Naturals, FiniteSets, Sequences, SequencesExt

CONSTANTS
  Cells,       \* UA_DelayedCallback structures; all have a callback
  Producers,   \* contexts other than the event loop's task
  Loop,        \* the event loop's task
  Builds,      \* how the program may be built and use the queue
  Nil,         \* NULL
  Sentinel,    \* (UA_DelayedCallback*)0x01
  H1, H2       \* &el->delayedHead1, &el->delayedHead2

\* Does UA_atomic_xchg exchange in one step, are delayed callbacks removed, and
\* which contexts add them besides the event loop's task?
Build == [atomic : BOOLEAN, removals : BOOLEAN, producers : SUBSET Producers]

Heads   == {H1, H2}
Slots   == Heads \cup Cells
Threads == Producers \cup {Loop}

ASSUME DelayedQueueAssumption ==
  /\ IsFiniteSet(Cells)
  /\ Builds \subseteq Build
  /\ Loop \notin Producers
  /\ H1 # H2 /\ Heads \cap Cells = {}
  /\ {Nil, Sentinel} \cap Slots = {} /\ Nil # Sentinel

VARIABLES
  build,    \* the build at hand
  mem,      \* slot -> what it points to
  tail,     \* el->delayedTail
  adding,   \* thread -> the addDelayedCallback it is in: step, cell, oldtail
  op,       \* what Loop is in: "none", "process" or "remove"
  step,     \* where op is: its reset, or the loop over the old list
  active,   \* activeHead of resetDelayedQueue
  cur,      \* op -> the next element of the old list
  last,     \* op -> the tail of the old list
  target,   \* the argument of removeDelayedCallback
  running   \* the callback processDelayed is in

vars == <<build, mem, tail, adding, op, step, active, cur, last, target, running>>
resetVars == <<build, op, step, active, cur, last, target, running>>

NotAdding == [step |-> "none", cell |-> Nil, old |-> Nil]
Ops       == {"process", "remove"}
Other(h)  == IF h = H1 THEN H2 ELSE H1

-----------------------------------------------------------------------------
(* The list that the pointers stand for.  An element whose addition has    *)
(* moved the tail, but not yet written the old tail, is part of the list.  *)

Succ ==
  [s \in Slots |->
    IF mem[s] \in Cells THEN mem[s]
    ELSE LET linking == {t \in Threads : adding[t].step = "link" /\ adding[t].old = s}
         IN  IF linking = {} THEN Nil ELSE adding[CHOOSE t \in linking : TRUE].cell]

\* Where as many hops as there are cells lead from a slot.
Hops(succ, s) ==
  LET hop[i \in 0..Cardinality(Cells)] ==
        IF i = 0 THEN s ELSE IF hop[i - 1] = Nil THEN Nil ELSE succ[hop[i - 1]]
  IN  hop

\* The cells behind a slot, in order.
Path(succ, s) ==
  LET hop == Hops(succ, s)
      length == Cardinality({i \in 1..Cardinality(Cells) : hop[i] # Nil})
  IN  [i \in 1..length |-> hop[i]]

Behind(s) == Path(Succ, s)

From(c) == IF c = Nil THEN <<>> ELSE <<c>> \o Behind(c)

\* The head that elements are reached from.
ReadyHead ==
  IF step \in {"open", "swapHead"} THEN active
  ELSE IF step = "storeHead" THEN Other(active)
  ELSE IF mem[H1] # Sentinel THEN H1 ELSE H2

\* The element that a removal is putting back.
InHand ==
  IF op = "remove" /\ adding[Loop].step \in {"swap", "store"}
  THEN <<adding[Loop].cell>> ELSE <<>>

\* What is still to be executed: the rest of the list that processDelayed has
\* checked out, the current list, and what a removal has yet to put back.
Registered ==
  From(cur["process"]) \o Behind(ReadyHead) \o InHand
    \o RemoveFirst(From(cur["remove"]), target)

Linked == Range(From(cur["process"])) \cup Range(Behind(ReadyHead))
            \cup Range(From(cur["remove"])) \cup {adding[t].cell : t \in Threads}

-----------------------------------------------------------------------------
(* UA_EventLoopLWIP_addDelayedCallback.                                    *)

StartAdd(t, c) ==
  /\ adding' = [adding EXCEPT ![t] = [step |-> "swap", cell |-> c, old |-> Nil]]
  /\ mem' = [mem EXCEPT ![c] = Nil]

\* The application adds a callback that is not registered: a producer at any
\* time, the event loop's task outside of the loops of this file.
Add(t, c) ==
  /\ t \in build.producers \cup {Loop}
  /\ adding[t] = NotAdding
  /\ c \notin Linked
  /\ t = Loop => op = "none" \/ (op = "process" /\ running # Nil)
  /\ StartAdd(t, c)
  /\ UNCHANGED <<tail, resetVars>>

\* Step 1 of the addition: own the previous last element.
SwapTail(t) ==
  /\ adding[t].step = "swap"
  /\ adding' = [adding EXCEPT ![t].old = tail,
                              ![t].step = IF build.atomic THEN "link" ELSE "store"]
  /\ tail' = IF build.atomic THEN adding[t].cell ELSE tail
  /\ UNCHANGED <<mem, resetVars>>

\* The second half of an exchange that is not atomic.
StoreTail(t) ==
  /\ adding[t].step = "store"
  /\ adding' = [adding EXCEPT ![t].step = "link"]
  /\ tail' = adding[t].cell
  /\ UNCHANGED <<mem, resetVars>>

\* Step 2: link the element below the previous last one.
Link(t) ==
  /\ adding[t].step = "link"
  /\ mem' = [mem EXCEPT ![adding[t].old] = adding[t].cell]
  /\ adding' = [adding EXCEPT ![t] = NotAdding]
  /\ UNCHANGED <<tail, resetVars>>

-----------------------------------------------------------------------------
(* resetDelayedQueue, on behalf of processDelayed or removeDelayedCallback.*)

LoopReady == adding[Loop] = NotAdding

\* Mutant: only the first head is looked at.
FirstIsEmpty == mem[H1] \notin Cells

IsEmpty == mem[H1] \notin Cells /\ mem[H2] \notin Cells

ActiveHead == IF mem[H1] # Sentinel THEN H1 ELSE H2

\* The checks at the beginning; an empty queue leaves an empty old list.
Begin(o) ==
  /\ op' = o
  /\ cur' = [cur EXCEPT ![o] = Nil]
  /\ last' = [last EXCEPT ![o] = Nil]
  /\ step' = IF IsEmpty THEN "drain" ELSE "open"
  /\ active' = ActiveHead

Process ==
  /\ LoopReady
  /\ op = "none"
  /\ Begin("process")
  /\ UNCHANGED <<build, mem, tail, adding, target, running>>

\* removeDelayedCallback, called outside processDelayed or by a callback.
RemoveDelayed(c) ==
  /\ build.removals
  /\ LoopReady
  /\ op = "none" \/ (op = "process" /\ running # Nil)
  /\ target' = c
  /\ Begin("remove")
  /\ UNCHANGED <<build, mem, tail, adding, running>>

OpenInactive ==
  /\ step = "open"
  /\ mem' = [mem EXCEPT ![Other(active)] = Nil]
  /\ step' = "swapHead"
  /\ UNCHANGED <<build, tail, adding, op, active, cur, last, target, running>>

SwapHead ==
  /\ step = "swapHead"
  /\ cur' = [cur EXCEPT ![op] = mem[active]]
  /\ IF build.atomic
     THEN mem' = [mem EXCEPT ![active] = Sentinel] /\ step' = "swapOldTail"
     ELSE UNCHANGED mem /\ step' = "storeHead"
  /\ UNCHANGED <<build, tail, adding, op, active, last, target, running>>

StoreHead ==
  /\ step = "storeHead"
  /\ mem' = [mem EXCEPT ![active] = Sentinel]
  /\ step' = "swapOldTail"
  /\ UNCHANGED <<build, tail, adding, op, active, cur, last, target, running>>

\* Mutant: the tail is left on the head that was just closed.
ClosedHead == active

\* Where the tail points after the switch.
NewTail == Other(active)

SwapOldTail ==
  /\ step = "swapOldTail"
  /\ last' = [last EXCEPT ![op] = tail]
  /\ IF build.atomic
     THEN tail' = NewTail /\ step' = "drain"
     ELSE UNCHANGED tail /\ step' = "storeOldTail"
  /\ UNCHANGED <<build, mem, adding, op, active, cur, target, running>>

StoreOldTail ==
  /\ step = "storeOldTail"
  /\ tail' = NewTail
  /\ step' = "drain"
  /\ UNCHANGED <<build, mem, adding, op, active, cur, last, target, running>>

-----------------------------------------------------------------------------
(* The loops over the old list.                                            *)

\* Mutant: the end of the old list is taken for certain on a null pointer.
NoWait(o) == TRUE

\* The spin loop: a null next pointer is the end only in the last element.
NextIsKnown(o) == mem[cur[o]] # Nil \/ cur[o] = last[o]

Draining(o) ==
  /\ op = o /\ step = "drain"
  /\ o = "process" => running = Nil
  /\ LoopReady

\* processDelayed reads the next element, then calls the callback.
Execute ==
  /\ Draining("process")
  /\ cur["process"] # Nil
  /\ NextIsKnown("process")
  /\ running' = cur["process"]
  /\ cur' = [cur EXCEPT !["process"] = mem[cur["process"]]]
  /\ UNCHANGED <<build, mem, tail, adding, op, step, active, last, target>>

Return ==
  /\ op = "process" /\ running # Nil
  /\ LoopReady
  /\ running' = Nil
  /\ UNCHANGED <<build, mem, tail, adding, op, step, active, cur, last, target>>

\* Mutant: the last element is dropped.
LastIsTarget == cur["remove"] = last["remove"]

\* Is this the element that is removed?
IsTarget == cur["remove"] = target

\* removeDelayedCallback drops its argument and adds every other element again.
PutBack ==
  /\ Draining("remove")
  /\ cur["remove"] # Nil
  /\ NextIsKnown("remove")
  /\ cur' = [cur EXCEPT !["remove"] = mem[cur["remove"]]]
  /\ IF IsTarget
     THEN UNCHANGED <<mem, adding>>
     ELSE StartAdd(Loop, cur["remove"])
  /\ UNCHANGED <<build, tail, op, step, active, last, target, running>>

\* A removal returns into the callback, if there is one, that called it.
Done ==
  /\ op \in Ops
  /\ Draining(op)
  /\ cur[op] = Nil
  /\ op' = IF op = "remove" /\ running # Nil THEN "process" ELSE "none"
  /\ step' = "drain"
  /\ last' = [last EXCEPT ![op] = Nil]
  /\ target' = Nil
  /\ active' = H1
  /\ UNCHANGED <<build, mem, tail, adding, cur, running>>

-----------------------------------------------------------------------------
\* UA_EventLoop_new_LWIP: the first head is active.
Init ==
  /\ build \in Builds
  /\ mem = [s \in Slots |-> IF s = H2 THEN Sentinel ELSE Nil]
  /\ tail = H1
  /\ adding = [t \in Threads |-> NotAdding]
  /\ op = "none"
  /\ step = "drain"
  /\ active = H1
  /\ cur = [o \in Ops |-> Nil]
  /\ last = [o \in Ops |-> Nil]
  /\ target = Nil
  /\ running = Nil

ThreadStep(t) == SwapTail(t) \/ StoreTail(t) \/ Link(t)
Reset    == OpenInactive \/ SwapHead \/ StoreHead \/ SwapOldTail \/ StoreOldTail
LoopStep == Process \/ Reset \/ Execute \/ Return \/ PutBack \/ Done

Next ==
  \/ \E t \in Threads, c \in Cells : Add(t, c)
  \/ \E t \in Threads : ThreadStep(t)
  \/ LoopStep
  \/ \E c \in Cells : RemoveDelayed(c)

Spec == Init /\ [][Next]_vars

\* The loop is iterated, whatever the application does in between, and callbacks
\* return, whatever they do before; every context that has begun to add a
\* callback is scheduled until it is done.
FairSpec ==
  /\ Spec
  /\ WF_vars(LoopStep) /\ SF_vars(Process) /\ SF_vars(Return)
  /\ \A t \in Threads : WF_vars(ThreadStep(t))

-----------------------------------------------------------------------------
(* Properties.                                                             *)

\* Types
TypeOK ==
  /\ build \in Builds
  /\ mem \in [Slots -> Cells \cup {Nil, Sentinel}]
  /\ tail \in Slots
  /\ adding \in [Threads -> [step : {"none", "swap", "store", "link"},
                             cell : Cells \cup {Nil}, old : Slots \cup {Nil}]]
  /\ op \in Ops \cup {"none"}
  /\ step \in {"open", "swapHead", "storeHead", "swapOldTail", "storeOldTail",
               "drain"}
  /\ active \in Heads
  /\ cur \in [Ops -> Cells \cup {Nil}]
  /\ last \in [Ops -> Slots \cup {Nil}]
  /\ target \in Cells \cup {Nil}
  /\ running \in Cells \cup {Nil}

\* The pointers implement the promise: each callback that is added, once its
\* addition has moved the tail, is executed once, in the order of addition, or is
\* taken out by a call that removes it and no other, whoever adds and whatever step
\* the list is caught in.  A removal outside of a callback has removed it.
Fifo == INSTANCE DelayedFifo WITH queue <- Registered, removing <- target
FifoSpec == Fifo!Spec

\* Outside the steps of an exchange, one head is active and the tail is the end
\* of the list that starts there; and the list that is checked out never is the
\* sentinel of the inactive head.
TailIsReachable ==
  TypeOK /\ (step = "drain" =>
    /\ (mem[H1] = Sentinel) # (mem[H2] = Sentinel)
    /\ tail \in {ReadyHead} \cup Range(Behind(ReadyHead)))

\* A registered callback is executed, or removed; the spin loops end.
RegisteredIsServed ==
  \A c \in Cells : (c \in Range(Registered)) ~> (c \notin Range(Registered))
=============================================================================
