---------------------------- MODULE VirtualActor ----------------------------
(***************************************************************************)
(* What vactor promises about an actor, without groups, goroutines,        *)
(* batches or recycling: an actor always exists, handles the envelopes     *)
(* accepted for it one at a time in the order of acceptance, and never     *)
(* forgets who watches it.                                                 *)
(***************************************************************************)
EXTENDS Sequences

CONSTANTS Actors, Watchers, Envelopes,
          Registered   \* actors whose type has a creator; the others swallow

VARIABLES accepted,    \* the envelopes some caller was told are on their way
          inbox,       \* inbox[a]: accepted for a and not handled yet, oldest first
          subs         \* subs[a]: the watchers subscribed to a

vars == <<accepted, inbox, subs>>

(* Who watches an actor after it handled e. *)
SubsAfter(e, s) ==
  CASE e.kind = "watch"   -> s \union {e.who}
    [] e.kind = "unwatch" -> s \ {e.who}
    [] OTHER              -> s

Init == /\ accepted = {}
        /\ inbox = [a \in Actors |-> <<>>]
        /\ subs = [a \in Actors |-> {}]

(* The router takes an envelope and reports no error. *)
Accept(e) == /\ e \notin accepted
             /\ accepted' = accepted \union {e}
             /\ inbox' = [inbox EXCEPT ![e.to] = Append(@, e)]
             /\ UNCHANGED subs

(* The actor handles its oldest envelope; an actor without a creator has
   no effect of its own. *)
Handle(a) == /\ inbox[a] # <<>>
             /\ inbox' = [inbox EXCEPT ![a] = Tail(@)]
             /\ subs' = IF a \in Registered
                        THEN [subs EXCEPT ![a] = SubsAfter(Head(inbox[a]), @)]
                        ELSE subs
             /\ UNCHANGED accepted

Next == \/ \E e \in Envelopes : Accept(e)
        \/ \E a \in Actors : Handle(a)

Safety == Init /\ [][Next]_vars

(* Whatever was accepted is handled. *)
Spec == Safety /\ \A a \in Actors : WF_vars(Handle(a))
=============================================================================
