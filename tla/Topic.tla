-------------------------------- MODULE Topic --------------------------------
(***************************************************************************)
(* What watching promises (docs/architecture.md, "strictly ordered";       *)
(* src/envelope_context.go, FireEvent): subscriptions and events take      *)
(* effect one by one in the order they were accepted, and each subscriber  *)
(* gets the events of its subscriptions once and in that order.  An event  *)
(* may be lost on the way to a lossy subscriber; a queue never misses one  *)
(* without losing the subscription it came by.                             *)
(***************************************************************************)
EXTENDS Naturals, Sequences

CONSTANTS Subscribers, Queues, Lossy, Types,
          Operations  \* "watch" and "unwatch" of who and type, "fire" of type

VARIABLES
  asked,    \* accepted, not in effect yet
  members,  \* members[t]: who is subscribed to t
  due       \* due[s]: events for s that it did not receive yet

vars == <<asked, members, due>>

Init == /\ asked = <<>>
        /\ members = [t \in Types |-> {}]
        /\ due = [s \in Subscribers |-> <<>>]

Ask == \E op \in Operations : asked' = Append(asked, op) /\ UNCHANGED <<members, due>>

Join(op) == /\ op.kind = "watch"
            /\ members' = [members EXCEPT ![op.type] = @ \union {op.who}]
            /\ UNCHANGED due

Part(op) == /\ op.kind = "unwatch"
            /\ members' = [members EXCEPT ![op.type] = @ \ {op.who}]
            /\ UNCHANGED due

Publish(op) ==
  /\ op.kind = "fire"
  /\ \E lost \in SUBSET (members[op.type] \intersect Lossy),
        gone \in SUBSET (members[op.type] \intersect Queues) :
       /\ due' = [s \in Subscribers |-> IF s \in members[op.type] \ (lost \union gone)
                                        THEN Append(due[s], op) ELSE due[s]]
       /\ members' = [members EXCEPT ![op.type] = @ \ gone]

Effect == /\ asked # <<>>
          /\ asked' = Tail(asked)
          /\ Join(Head(asked)) \/ Part(Head(asked)) \/ Publish(Head(asked))

Receive(s) == /\ due[s] # <<>>
              /\ due' = [due EXCEPT ![s] = Tail(@)]
              /\ UNCHANGED <<asked, members>>

Lose(s) == /\ s \in Lossy
           /\ \E i \in 1 .. Len(due[s]) :
                due' = [due EXCEPT ![s] = SubSeq(@, 1, i - 1) \o SubSeq(@, i + 1, Len(@))]
           /\ UNCHANGED <<asked, members>>

Next == Ask \/ Effect \/ \E s \in Subscribers : Receive(s) \/ Lose(s)

Spec == Init /\ [][Next]_vars
FairSpec == Spec /\ WF_vars(Effect) /\ \A s \in Subscribers \ Queues : WF_vars(Receive(s))
=============================================================================
