------------------------------ MODULE AsyncCall ------------------------------
(***************************************************************************)
(* What RequestAsync promises (src/envelope_context.go, RequestAsync): the *)
(* callback of a call runs once, with the answer to this call, with the    *)
(* error of its timeout, or with that of a send that was refused; and if   *)
(* the call has a timeout, the callback does run.                          *)
(***************************************************************************)
EXTENDS Sequences

CONSTANT CallIds

VARIABLES
  issued,   \* calls made so far
  timed,    \* those that have a timeout and an actor to run it
  ran       \* ran[c]: what the callback of c was given, run by run

vars == <<issued, timed, ran>>

Init == issued = {} /\ timed = {} /\ ran = [c \in CallIds |-> <<>>]

Issue(c) ==
  /\ c \notin issued
  /\ issued' = issued \union {c}
  /\ timed' \in {timed, timed \union {c}}
  /\ UNCHANGED ran

Runs(c, how) == ran[c] = <<>> /\ ran' = [ran EXCEPT ![c] = <<how>>]

Refuse(c) == c \notin issued /\ issued' = issued \union {c} /\ Runs(c, "refused") /\ UNCHANGED timed

Answered(c) == c \in issued /\ Runs(c, "answer")

(* One tick may find several calls of an actor past their time. *)
SomeTimeOut ==
  \E T \in (SUBSET timed) \ {{}} :
    /\ \A c \in T : ran[c] = <<>>
    /\ ran' = [c \in CallIds |-> IF c \in T THEN <<"timeout">> ELSE ran[c]]

Settle == (\/ \E c \in issued : Answered(c)
           \/ SomeTimeOut) /\ UNCHANGED <<issued, timed>>

Next == Settle \/ \E c \in CallIds : Issue(c) \/ Refuse(c)

Spec == Init /\ [][Next]_vars
FairSpec == Spec /\ \A c \in CallIds : WF_vars(c \in timed /\ Settle /\ ran'[c] # ran[c])
=============================================================================
