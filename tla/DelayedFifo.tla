----------------------------- MODULE DelayedFifo -----------------------------
(***************************************************************************)
(* What the delayed callbacks of the event loop promise (open62541.h,      *)
(* "Delayed Callbacks"): "Delayed callbacks are executed once in the next  *)
(* iteration of the EventLoop and then deregistered automatically.  [They] *)
(* are processed in the order in which they are added."  A callback leaves *)
(* the queue to be executed, or during a call that removes just that one.  *)
(***************************************************************************)
EXTENDS Sequences, SequencesExt

CONSTANTS Cells,  \* UA_DelayedCallback structures
          Nil     \* the null pointer

VARIABLES queue,    \* the registered callbacks, in the order of addition
          running,  \* the callback that is executed, or Nil
          removing  \* the argument of the removal that is under way, or Nil

vars == <<queue, running, removing>>

Init == queue = <<>> /\ running = Nil /\ removing = Nil

Add(c) ==
  /\ c \notin Range(queue)
  /\ queue' = Append(queue, c)
  /\ UNCHANGED <<running, removing>>

Execute ==
  /\ running = Nil /\ removing = Nil
  /\ queue # <<>>
  /\ running' = Head(queue)
  /\ queue' = Tail(queue)
  /\ UNCHANGED removing

Return ==
  /\ running # Nil /\ removing = Nil
  /\ running' = Nil
  /\ UNCHANGED <<queue, removing>>

BeginRemoval(c) ==
  /\ removing = Nil
  /\ removing' = c
  /\ UNCHANGED <<queue, running>>

Deregister ==
  /\ removing \in Range(queue)
  /\ queue' = RemoveFirst(queue, removing)
  /\ UNCHANGED <<running, removing>>

\* A removal by a callback leaves alone what the iteration has already taken.
EndRemoval ==
  /\ removing # Nil
  /\ running = Nil => removing \notin Range(queue)
  /\ removing' = Nil
  /\ UNCHANGED <<queue, running>>

Next ==
  \/ \E c \in Cells : Add(c) \/ BeginRemoval(c)
  \/ Execute \/ Return \/ Deregister \/ EndRemoval

Spec == Init /\ [][Next]_vars
=============================================================================
