----------------------------- MODULE HciChannel -----------------------------
(***************************************************************************)
(* What the VHCI boundary promises the guest's Bluetooth host: within one  *)
(* session (controller enabled, callbacks registered) events arrive in the *)
(* order they were queued, each exactly once, none invented, none lost and *)
(* none of an earlier session.  Only the end of a session drops events.    *)
(***************************************************************************)
EXTENDS Sequences, Integers

VARIABLES session,   \* the host is attached
          queue,     \* events it has yet to accept
          accepted   \* the last event it accepted

vars == <<session, queue, accepted>>

Init == session = FALSE /\ queue = <<>>

(* s is t or a prefix of it.                                               *)
Extends(t, s) == Len(s) <= Len(t) /\ SubSeq(t, 1, Len(s)) = s

Open == ~session /\ session' /\ queue' = <<>> /\ UNCHANGED accepted

Close == session /\ ~session' /\ queue' = <<>> /\ UNCHANGED accepted

Put == session /\ session' /\ Extends(queue', queue) /\ UNCHANGED accepted

Take ==
  /\ session /\ session' /\ queue # <<>>
  /\ accepted' = Head(queue) /\ queue' = Tail(queue)

Next == Open \/ Close \/ Put \/ Take

Spec == Init /\ [][Next]_vars

=============================================================================
