-------------------------- MODULE MCCallLifecycle --------------------------
EXTENDS CallLifecycle, TLC

CONSTANTS alice, bob, phone, laptop, c1

MCUsers == {alice, bob}
MCSockets == {phone, laptop}
MCCallerOf == [c \in Calls |-> IF c = c1 THEN alice ELSE bob]
MCCalleeOf == [c \in Calls |-> IF c = c1 THEN bob ELSE alice]
MCOwnerOf == [s \in Sockets |-> IF s = laptop THEN alice ELSE bob]

Symmetry == Permutations(Handlers)
=============================================================================
