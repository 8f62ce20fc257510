--------------------------- MODULE MCOutboxRelay ---------------------------
(* Values of the constants of OutboxRelay for model checking. *)
EXTENDS OutboxRelay, TLC

CONSTANTS a1, a2, c1, c2, r1, r2

\* Both events in the stream of one aggregate.
OneStream == [e \in Events |-> a1]

\* c1 takes every event, c2 all but the second.
MCHandles == (Consumers \X Events) \ {<<c2, 2>>}

NoModes == {}
BothModes == {"fresh", "same"}

Interchangeable == Permutations(Relays)
=============================================================================
