--------------------------------- MODULE Fifo ---------------------------------
(***************************************************************************)
(* What RingBuffer (src/ring_buffer.go) promises its callers: a first-in   *)
(* first-out buffer of any length.  result is what the last call returned. *)
(***************************************************************************)
EXTENDS Sequences

CONSTANT Batches   \* the sequences of values a caller may add in one call

VARIABLES contents, result

Init == contents = <<>> /\ result = <<>>

Put(vs) == contents' = contents \o vs /\ result' = <<>>

(* Remove, resp. look at, the oldest element; an empty buffer yields nothing. *)
Oldest(q) == IF q = <<>> THEN <<>> ELSE <<q[1]>>
Younger(q) == IF q = <<>> THEN <<>> ELSE Tail(q)
Get == contents' = Younger(contents) /\ result' = Oldest(contents)
Look == contents' = contents /\ result' = Oldest(contents)

(* The same for everything there is, and the removal nobody looks at. *)
GetEverything == contents' = <<>> /\ result' = contents
LookAtEverything == contents' = contents /\ result' = contents
Discard == contents' = <<>> /\ result' = <<>>

Next == \/ \E vs \in Batches : Put(vs)
        \/ Get \/ Look \/ GetEverything \/ LookAtEverything \/ Discard

Spec == Init /\ [][Next]_<<contents, result>>
=============================================================================
