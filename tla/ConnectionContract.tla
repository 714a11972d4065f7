-------------------------- MODULE ConnectionContract --------------------------
(***************************************************************************)
(* What a connection manager promises to the application of an event loop  *)
(* (open62541.h, "Connection Manager"): a connection is announced by its   *)
(* first callback, and "every connection calls the callback a last time    *)
(* with UA_CONNECTIONSTATE_CLOSING", "both for connections that are        *)
(* actively closed and those that are closed remotely".  Once it is to be  *)
(* closed there are no callbacks for it but that one.                      *)
(***************************************************************************)
EXTENDS Integers, Sequences

CONSTANTS Fds,   \* connection ids, which are used again
          None   \* stands for a callback that is not for a connection

VARIABLES told,     \* fd -> the last state the application was told, or "none"
          closing,  \* connections that are to be closed
          calls     \* the callbacks that have not returned: the fd of each

vars == <<told, closing, calls>>

Live(fd) == told[fd] \in {"opening", "established"}
Front(s) == SubSeq(s, 1, Len(s) - 1)
Returned == IF calls = <<>> THEN {calls} ELSE {calls, Front(calls)}

Init == told = [fd \in Fds |-> "none"] /\ closing = {} /\ calls = <<>>

\* A new connection, possibly the next one of an open call that is told the
\* end of the callback for the connection before.
Announce(fd) ==
  /\ told[fd] = "none"
  /\ \E state \in {"opening", "established"} :
       told' = [told EXCEPT ![fd] = state]
  /\ \E rest \in Returned : calls' = Append(rest, fd)
  /\ UNCHANGED closing

\* The connection has opened or has received something.
Event(fd) ==
  /\ Live(fd) /\ fd \notin closing
  /\ told' = [told EXCEPT ![fd] = "established"]
  /\ calls' = Append(calls, fd)
  /\ UNCHANGED closing

RequestClose(S) ==
  /\ \A fd \in S : Live(fd)
  /\ closing' = closing \cup S
  /\ UNCHANGED <<told, calls>>

Close(fd) ==
  /\ Live(fd)
  /\ told' = [told EXCEPT ![fd] = "closing"]
  /\ closing' = closing \ {fd}
  /\ calls' = Append(calls, fd)

OtherCallback == calls' = Append(calls, None) /\ UNCHANGED <<told, closing>>

Return ==
  /\ calls # <<>>
  /\ calls' = Front(calls)
  /\ told' = [fd \in Fds |->
       IF fd = calls[Len(calls)] /\ told[fd] = "closing" THEN "none" ELSE told[fd]]
  /\ UNCHANGED closing

Next ==
  \/ \E fd \in Fds : Announce(fd) \/ Event(fd) \/ Close(fd)
  \/ \E S \in SUBSET Fds : RequestClose(S)
  \/ OtherCallback \/ Return

Spec == Init /\ [][Next]_vars
=============================================================================
