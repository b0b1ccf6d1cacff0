------------------------------ MODULE PollWait ------------------------------
(* What a read from a connection promises its caller: it waits until there   *)
(* is something to read, or nothing will be any more, or its deadline has    *)
(* come, or the connection is closed, says which, and then does not go on    *)
(* waiting.                                                                  *)
EXTENDS Integers

VARIABLES reading,  \* a Read is under way
          last,     \* how the last one ended
          avail,    \* bytes that wait in the socket
          ended,    \* no more will come
          deadline, \* "none", "ahead" or "due"
          closed    \* the connection was closed

vars == <<reading, last, avail, ended, deadline, closed>>

Init ==
  /\ reading = FALSE /\ last = "none" /\ avail = 0 /\ ended = FALSE
  /\ deadline = "none" /\ closed = FALSE

Begin ==
  /\ ~reading /\ reading' = TRUE
  /\ UNCHANGED <<last, avail, ended, deadline, closed>>

Finish ==
  /\ reading /\ reading' = FALSE
  /\ \/ last' = "data" /\ avail > 0 /\ avail' \in 0..(avail - 1)
     \/ last' = "end" /\ ended /\ avail = 0 /\ UNCHANGED avail
     \/ last' = "timeout" /\ deadline = "due" /\ UNCHANGED avail
     \/ last' = "closed" /\ closed /\ UNCHANGED avail
  /\ UNCHANGED <<ended, deadline, closed>>

Arrive ==
  /\ ~ended /\ avail' = avail + 1
  /\ UNCHANGED <<reading, last, ended, deadline, closed>>

\* The peer closes, or resets: then what has not been read is lost.
End ==
  /\ ended' = TRUE /\ avail' \in {0, avail}
  /\ UNCHANGED <<reading, last, deadline, closed>>

\* The user moves the deadline, or its time comes.
SetDeadline ==
  /\ deadline' \in {"none", "ahead", "due"}
  /\ UNCHANGED <<reading, last, avail, ended, closed>>

Close ==
  /\ closed' = TRUE
  /\ UNCHANGED <<reading, last, avail, ended, deadline>>

Next == Begin \/ Finish \/ Arrive \/ End \/ SetDeadline \/ Close

Spec == Init /\ [][Next]_vars
FairSpec == Spec /\ WF_vars(Finish)
=============================================================================
