------------------------------- MODULE MCRfs --------------------------------
(* Instances of Rfs for TLC.                                               *)
EXTENDS Rfs, TLC

CONSTANTS a, b, c, f, g

Job(op, name, perm, local) == [op |-> op, name |-> name, perm |-> perm, local |-> local]

Two == {a, b}
Three == {a, b, c}
OneName == {f}
TwoNames == {f, g}

AllPresent == {Names}
OnlyG == {{g}}
AnyPresent == SUBSET Names
OnlyRW == {RW}
BothModes == {RW, RO}
NoOctal == {}

Writes == {Job("WRITE", n, p, TRUE) : n \in Names, p \in {RW, RO}}
WritesRW == {Job("WRITE", n, RW, TRUE) : n \in Names}
Gets == {Job("GET", n, RW, TRUE) : n \in Names}
Removes == {Job("RM", n, RW, TRUE) : n \in Names}
Queries == {Job("LS", n, RW, TRUE) : n \in Names}
Others == {Job("STOP", f, RW, TRUE), Job("INVALID", f, RW, TRUE),
           Job("WRITE", f, RW, FALSE), Job("GET", f, RW, FALSE)}

CalmJobs == WritesRW \cup Gets \cup Queries
FileJobs == Writes \cup Gets \cup Removes \cup Queries
(* What a client may ask that never closes before the server has answered, *)
(* and a line that is no command.                                          *)
PatientJobs == Gets \cup {Job("INVALID", f, RW, TRUE)}
AllJobs == FileJobs \cup Others

ClientSymmetry == Permutations(Clients)
=============================================================================
