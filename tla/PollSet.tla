------------------------------ MODULE PollSet ------------------------------
(***************************************************************************)
(* What a pass of the event loop over its sockets promises, whatever the   *)
(* callbacks of the pass register and remove: every socket that was        *)
(* registered when the pass began is looked at once, unless its own        *)
(* callback has removed it, and the pass ends only then.  A socket that is *)
(* registered during the pass may be looked at in the same pass.           *)
(***************************************************************************)
CONSTANTS Fds, None

VARIABLES registered, todo, called, passing

vars == <<registered, todo, called, passing>>

Init == registered = {} /\ todo = {} /\ called = None /\ passing = FALSE

Begin ==
  /\ ~passing
  /\ passing' = TRUE
  /\ todo' = registered
  /\ UNCHANGED <<registered, called>>

\* The socket is passed over, or its callback is called, which may begin by
\* removing the socket.
LookAt(f) ==
  /\ passing /\ called = None /\ f \in todo
  /\ todo' = todo \ {f}
  /\ \/ UNCHANGED <<registered, called>>
     \/ called' = f /\ registered' \in {registered, registered \ {f}}
  /\ UNCHANGED passing

Register(f) ==
  /\ f \notin registered
  /\ registered' = registered \cup {f}
  /\ todo' \in IF passing THEN {todo, todo \cup {f}} ELSE {todo}
  /\ UNCHANGED <<called, passing>>

\* The sockets that are closed later are removed between two passes.
Deregister(f) ==
  /\ ~passing
  /\ f \in registered
  /\ registered' = registered \ {f}
  /\ UNCHANGED <<todo, called, passing>>

Return ==
  /\ called # None
  /\ called' = None
  /\ UNCHANGED <<registered, todo, passing>>

End ==
  /\ passing /\ called = None /\ todo = {}
  /\ passing' = FALSE
  /\ UNCHANGED <<registered, todo, called>>

Next ==
  \/ Begin \/ Return \/ End
  \/ \E f \in Fds : LookAt(f) \/ Register(f) \/ Deregister(f)

Spec == Init /\ [][Next]_vars
=============================================================================
