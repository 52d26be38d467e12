----------------------------- MODULE RfsClient ------------------------------
(***************************************************************************)
(* Practicum2/c.c: a client process.  It connects, reads one command line  *)
(* (n is 1), carries the command out over the connection and closes it.    *)
(* A line that is no command ends in the same place, with nothing sent; so *)
(* does a WRITE whose local file cannot be opened.                         *)
(***************************************************************************)
EXTENDS RfsNet

CONSTANT Jobs        \* what users may ask: records [op, name, perm, local],
                     \* local telling whether fopen of the local file succeeds

Ops == {"WRITE", "GET", "RM", "LS", "STOP", "INVALID"}

ASSUME ClientAssumption ==
    Jobs \subseteq [op : Ops, name : Names, perm : SUBSET RW, local : BOOLEAN]

VARIABLES job,       \* what this client's user asks
          step,      \* where its process is
          got,       \* the data or the reply it has received
          sent       \* units of its local file it has sent

clientVars == <<job, step, got, sent>>

ClientInit == /\ job \in [Clients -> Jobs]
              /\ step = [c \in Clients |-> "connect"]
              /\ got = [c \in Clients |-> <<>>]
              /\ sent = [c \in Clients |-> 0]

Then(c, l) == step' = [step EXCEPT ![c] = l]

(* up tells whether the server process runs; connect fails if not.         *)
Connect(c, serverUp) ==
    /\ step[c] = "connect"
    /\ IF serverUp THEN backlog' = Append(backlog, c) /\ Then(c, "command")
                   ELSE UNCHANGED backlog /\ Then(c, "done")
    /\ UNCHANGED <<up, down, clientClosed, broken, job, got, sent>>

SendsNothing(c) ==
    job[c].op = "INVALID" \/ (job[c].op = "WRITE" /\ ~job[c].local)

(* Where send_command leads: WRITE goes on to send data, STOP is finished, *)
(* GET may fail to create its local file, the others wait for the reply.   *)
AfterCommand(c) ==
    CASE SendsNothing(c) -> "close"
      [] job[c].op = "WRITE" -> "data"
      [] job[c].op = "STOP" -> "close"
      [] job[c].op = "GET" -> IF job[c].local THEN "receive" ELSE "close"
      [] OTHER -> "reply"

SendCommand(c) ==
    /\ step[c] = "command"
    /\ up' = IF SendsNothing(c) THEN up
             ELSE [up EXCEPT ![c] = Append(@, Command(job[c].op, job[c].name, job[c].perm))]
    /\ Then(c, AfterCommand(c))
    /\ UNCHANGED <<backlog, down, clientClosed, broken, job, got, sent>>

(* write_file: one fread and send per unit.  ended tells that the server   *)
(* has closed the connection; what is sent then is lost (and may kill the  *)
(* client, which has nothing more to do than to close).                    *)
SendData(c, ended) ==
    /\ step[c] = "data"
    /\ sent[c] < FileLen
    /\ sent' = [sent EXCEPT ![c] = @ + 1]
    /\ up' = IF ended THEN up ELSE [up EXCEPT ![c] = Append(@, Unit(c, sent[c] + 1))]
    /\ UNCHANGED <<backlog, down, clientClosed, broken, job, step, got>>

DataSent(c) ==
    /\ step[c] = "data"
    /\ sent[c] = FileLen
    /\ Then(c, "close")
    /\ UNCHANGED <<netVars, job, got, sent>>

(* get_file: receive until the server closes.                              *)
ReceiveData(c, ended) ==
    /\ step[c] = "receive"
    /\ IF down[c] # <<>>
       THEN /\ got' = [got EXCEPT ![c] = @ \o down[c]]
            /\ down' = [down EXCEPT ![c] = <<>>]
            /\ UNCHANGED step
       ELSE /\ ended
            /\ Then(c, "close")
            /\ UNCHANGED <<got, down>>
    /\ UNCHANGED <<backlog, up, clientClosed, broken, job, sent>>

(* remove_file, check_permission: one recv.                                *)
ReceiveReply(c, ended) ==
    /\ step[c] = "reply"
    /\ down[c] # <<>> \/ ended
    /\ got' = [got EXCEPT ![c] = down[c]]
    /\ down' = [down EXCEPT ![c] = <<>>]
    /\ Then(c, "close")
    /\ UNCHANGED <<backlog, up, clientClosed, broken, job, sent>>

Close(c) ==
    /\ step[c] = "close"
    /\ ClientClose(c)
    /\ Then(c, "done")
    /\ UNCHANGED <<backlog, up, job, got, sent>>

ClientStep(c, ended) ==
    \/ SendCommand(c) \/ SendData(c, ended) \/ DataSent(c)
    \/ ReceiveData(c, ended) \/ ReceiveReply(c, ended) \/ Close(c)
=============================================================================
