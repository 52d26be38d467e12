------------------------------- MODULE RfsNet -------------------------------
(***************************************************************************)
(* Practicum2: what c.c and s.c share, the TCP connections between them.   *)
(* A client process opens one connection, so the client names it.  TCP is  *)
(* not in the repository: it is modelled from how the two programs use it, *)
(* as a stream in each direction that keeps order and loses nothing but    *)
(* keeps no boundaries between one send and the next.                      *)
(***************************************************************************)
EXTENDS Integers, Sequences, FiniteSets

CONSTANTS Clients,     \* client processes, each runs c.c once
          Names,       \* file names on the server
          FileLen,     \* length of a file, in the units of the streams
          Octal        \* clients whose local file starts with a digit 0-7

ASSUME NetAssumption ==
    IsFiniteSet(Clients) /\ FileLen \in Nat \ {0} /\ Octal \subseteq Clients

VARIABLES backlog,       \* connections the server has not accepted yet
          up, down,      \* what was sent to, and by, the server and not yet received
          clientClosed,  \* the client has closed its end
          broken         \* the server's next send on it raises SIGPIPE

netVars == <<backlog, up, down, clientClosed, broken>>

(* 0644 and 0444 as S_IRUSR and S_IWUSR show them, and other owner modes.  *)
RW == {"r", "w"}
RO == {"r"}

(* What travels: the command line of a client, the num-th unit of the file *)
(* that w sent (or that the server started with), a reply of the server.   *)
Command(op, name, perm) == [op |-> op, name |-> name, perm |-> perm]
Unit(w, k) == [op |-> "DATA", from |-> w, num |-> k]
Reply(text) == [op |-> text]
IsData(x) == x.op = "DATA"

NetInit == /\ backlog = <<>>
           /\ up = [c \in Clients |-> <<>>]
           /\ down = [c \in Clients |-> <<>>]
           /\ clientClosed = [c \in Clients |-> FALSE]
           /\ broken = [c \in Clients |-> FALSE]

(* send() on the server's side: the first one after the client has closed  *)
(* meets a reset, is answered by one or returns ECONNRESET; the next one   *)
(* finds the connection broken.                                            *)
Sent(c, data) == IF clientClosed[c] THEN down
                 ELSE [down EXCEPT ![c] = @ \o data]
BrokenBySend(c) == [broken EXCEPT ![c] = @ \/ clientClosed[c]]

(* close() on the client's side; what it has not read is lost.             *)
ClientClose(c) ==
    /\ clientClosed' = [clientClosed EXCEPT ![c] = TRUE]
    /\ down' = [down EXCEPT ![c] = <<>>]
    /\ UNCHANGED broken
=============================================================================
