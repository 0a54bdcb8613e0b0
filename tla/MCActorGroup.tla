--------------------------- MODULE MCActorGroup ---------------------------
(* Small instances of ActorGroup for TLC. *)
EXTENDS ActorGroup, TLC

CONSTANTS g1, g2, a1, a2, w1, c1, c2, c3

OneGroup == [a \in Actors |-> g1]
TwoGroups == [a \in Actors |-> IF a = a1 THEN g1 ELSE g2]

Envelope(id, kind, to, who) == [id |-> id, kind |-> kind, to |-> to, who |-> who]

(* A watch and a request for a1, a send for a2. *)
Traffic == {Envelope(1, "watch", a1, w1), Envelope(2, "request", a1, w1),
            Envelope(3, "send", a2, w1)}
WatchTraffic == {Envelope(1, "watch", a1, w1), Envelope(2, "unwatch", a1, w1),
                 Envelope(3, "send", a2, w1)}
Load == {Envelope(1, "senderless", a1, w1), Envelope(2, "request", a1, w1),
         Envelope(3, "send", a1, w1)}
Sends == {Envelope(i, "send", a1, w1) : i \in 1 .. 3}
TwoActorSends == {Envelope(1, "send", a1, w1), Envelope(2, "send", a1, w1),
                  Envelope(3, "send", a2, w1)}

ContextSymmetry == Permutations(Contexts)
=============================================================================
