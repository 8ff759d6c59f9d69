---------------------------- MODULE MessageStream ----------------------------
(***************************************************************************)
(* What one direction of a connection promises: messages arrive whole, in  *)
(* the order they were sent and at most once.  A message is lost only when *)
(* it arrives while the receiver has no room, or with the connection.      *)
(***************************************************************************)
EXTENDS SequencesExt

CONSTANT Messages

VARIABLES
  pending,     \* messages sent that have not arrived
  delivered,   \* messages given to the receiver
  full,        \* the receiver has no room
  alive        \* both ends are there

stream == <<pending, delivered, full, alive>>

Init == pending = <<>> /\ delivered = <<>> /\ full \in BOOLEAN /\ alive = TRUE

Send ==
  /\ \E m \in Messages : pending' = Append(pending, m)
  /\ UNCHANGED delivered

Arrive ==
  /\ pending # <<>>
  /\ pending' = Tail(pending)
  /\ \/ delivered' = Append(delivered, Head(pending))
     \/ full /\ UNCHANGED delivered

\* What is under way when the connection breaks may be lost.
Break ==
  /\ ~alive'
  /\ \E i \in 1..Len(pending) : pending' = RemoveAt(pending, i)
  /\ UNCHANGED delivered

Next ==
  /\ alive' => alive
  /\ Send \/ Arrive \/ Break \/ UNCHANGED <<pending, delivered>>

\* Nothing stays under way on a connection that stands.
Progress == \A m \in Messages : m \in Range(pending) ~> m \notin Range(pending) \/ ~alive

InOrder == Init /\ [][Next]_stream

Spec == InOrder /\ Progress

=============================================================================
