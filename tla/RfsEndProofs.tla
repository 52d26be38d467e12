---------------------------- MODULE RfsEndProofs -----------------------------
(***************************************************************************)
(* What can end the server when clients come one at a time (no descriptor  *)
(* left, a send to a client that has gone), and who waits for whom.        *)
(***************************************************************************)
EXTENDS RfsWriterProofs

(* Where a thread may already have sent something.                         *)
Answered == {"gread", "gsend", "gclose", "close", "done"}
(* Where it has received no command.                                       *)
Early == {"new", "start", "recv", "command"}

(* A client sends the command of its job and data; only a client's STOP    *)
(* takes a thread to exit.                                                 *)
AskedInv ==
    /\ \A c \in Clients : \A j \in 1..Len(up[c]) : up[c][j].op \in {"DATA", job[c].op}
    /\ \A t \in Threads : th[t].pc = "stop" => \E c \in Clients : job[c].op = "STOP"

(* Only the accept that waits reserves a descriptor.                       *)
ReservedOnce == \A g \in Fds : fds[g] = Reserved => main = "accepting" /\ g = nextFd

(* Every socket is the one that some thread still has to close, or that a  *)
(* thread which could not be created will never close.                     *)
Uses(t, c, g) ==
    /\ mine[t] = c /\ th[t].pc # "done"
    /\ th[t].pc \notin {"new", "start"} => th[t].sock = g
    /\ th[t].pc = "start" \/ (main = "create" /\ t = accepts) => client_sock = g

LeakInv ==
    \A g \in Fds, c \in Clients :
        fds[g] = Socket(c) => \E t \in 1..accepts : Uses(t, c, g)

(* A connection breaks only once its client has gone, and a client that    *)
(* receives a file stays until the server has closed.                      *)
ClosedInv ==
    \A c \in Clients : /\ clientClosed[c] => step[c] = "done"
                       /\ broken[c] => clientClosed[c]
JobInv == \A c \in Clients : step[c] \in {"data", "reply"} => job[c].op # "GET"
WaitsInv ==
    \A c \in Clients :
        job[c].op = "GET" /\ job[c].local /\ step[c] \in {"close", "done"} => ~ServerHolds(c)

(* A thread carries out the command of its own client.                     *)
OwnCommand ==
    \A t \in Threads : /\ th[t].pc \in Early => th[t].command.op = "INVALID"
                       /\ th[t].command.op \in {job[mine[t]].op, "INVALID"}

(* Nothing is on its way to a client, and its connection is sound, as long *)
(* as no thread of its own has come to the point of answering.             *)
Unanswered(c) == \A t \in 1..accepts : mine[t] = c => th[t].pc \notin Answered
AnswerInv == \A c \in Clients : Unanswered(c) => down[c] = <<>> /\ ~broken[c]

(* main leaves behind no thread that it has created and that has not begun. *)
CreatedInv ==
    ~CreateFails => \A t \in 1..accepts :
                        th[t].pc = "new" => main = "create" /\ t = accepts

EndInv ==
    /\ AskedInv /\ ReservedOnce /\ ClosedInv /\ JobInv /\ WaitsInv /\ CreatedInv
    /\ Spaced => /\ LeakInv /\ EndsForAReason
                 /\ AllOpen => OwnCommand /\ AnswerInv
-----------------------------------------------------------------------------
(* What a thread's step does to the answers, and to the server's life.     *)
Progress(t) ==
    /\ th'[t].command = th[t].command \/ ReceiveCommand(t)
    /\ th'[t].pc = "stop" => th[t].pc = "stop" \/ ReceiveCommand(t)
    /\ th'[t].pc \in Early => th[t].pc \in Early
    /\ th'[t].pc \notin Answered => th[t].pc \notin Answered
    /\ th'[t].pc = "done" => fds' = Closed(th[t].sock)

SendsOf(t) ==
    \/ UNCHANGED <<down, broken>> /\ (alive' = alive \/ th[t].pc = "stop")
    \/ /\ th[t].pc \in {"reply", "gsend"} /\ th'[t].pc \in Answered
       /\ SentTo(fds[th[t].sock], th[t].buf)
    \/ th[t].pc = "data" /\ \E data : SentTo(fds[th[t].file], data)

Outcome(t) == Progress(t) /\ SendsOf(t) /\ clientClosed' = clientClosed

(* Most steps only move the thread on, and send nothing.                   *)
Nearer(k, l) ==
    /\ l \notin {"done", "stop"} \cup Early
    /\ l \notin Answered => k \notin Answered

LEMMA MovesOutcome ==
    ASSUME NEW t \in Threads, NEW l, Moves(t, l), Nearer(th[t].pc, l),
           UNCHANGED <<alive, down, broken, clientClosed>>
    PROVE  Outcome(t)
  BY DEF Outcome, Progress, SendsOf, Moves, Nearer

LEMMA GotoOutcome ==
    ASSUME Inv, NEW t \in Threads, NEW l \in ThreadLocations, Goto(t, l),
           Nearer(th[t].pc, l), UNCHANGED <<alive, netVars>>
    PROVE  Outcome(t)
  BY GotoMoves, MovesOutcome DEF netVars

LEMMA AnswersOutcome ==
    ASSUME Inv, NEW t \in Threads, th[t].pc \notin Answered,
           NEW text \in {"READONLY", "FAIL", "OK", "not found", "read-write", "read-only",
                         "no read permission"},
           Answers(t, text)
    PROVE  Outcome(t)
<1>1. Reply(text) \in Replies
  BY DEF Reply, Replies
<1>2. Moves(t, "reply")
  BY <1>1, AnswersMoves
<1>3. UNCHANGED <<alive, down, broken, clientClosed>>
  BY DEF Answers, KeepsNet, netVars
<1> QED
  BY <1>2, <1>3, MovesOutcome DEF Nearer, Early

LEMMA SimpleOutcome ==
    ASSUME Inv, NEW t \in Threads,
           \/ WriteStat(t) \/ Lock(t) \/ Chmod(t) \/ Unlock(t)
           \/ RemoveStat(t) \/ Remove(t) \/ CheckPermission(t)
    PROVE  Outcome(t)
<1> USE DEF Answered, Early, Nearer
<1>1. CASE WriteStat(t)
  <2>1. /\ th[t].pc = "wstat"
        /\ \/ Answers(t, "READONLY")
           \/ Goto(t, "lock") /\ UNCHANGED <<alive, netVars>>
    BY <1>1 DEF WriteStat, At, KeepsNet
  <2> QED
    BY <2>1, AnswersOutcome, GotoOutcome DEF ThreadLocations
<1>2. CASE Lock(t) \/ Chmod(t) \/ Unlock(t)
  <2>1. /\ UNCHANGED <<alive, netVars>>
        /\ \/ th[t].pc = "lock" /\ Goto(t, "wopen")
           \/ th[t].pc = "chmod" /\ Goto(t, "unlock")
           \/ th[t].pc = "unlock" /\ Goto(t, "close")
    BY <1>2 DEF Lock, Chmod, Unlock, At, KeepsNet
  <2> QED
    BY <2>1, GotoOutcome DEF ThreadLocations
<1>3. CASE RemoveStat(t)
  <2>1. /\ th[t].pc = "rmstat"
        /\ \/ Answers(t, "FAIL")
           \/ Goto(t, "remove") /\ UNCHANGED <<alive, netVars>>
    BY <1>3 DEF RemoveStat, At, KeepsNet
  <2> QED
    BY <2>1, AnswersOutcome, GotoOutcome DEF ThreadLocations
<1>4. CASE Remove(t) \/ CheckPermission(t)
  <2>1. /\ th[t].pc \in {"remove", "ls"}
        /\ \E text \in {"OK", "FAIL", "not found", "read-write", "read-only",
                        "no read permission"} : Answers(t, text)
    BY <1>4 DEF Remove, CheckPermission, At
  <2> QED
    BY <2>1, AnswersOutcome
<1> QED
  BY <1>1, <1>2, <1>3, <1>4

LEMMA OpenAndCloseOutcome ==
    ASSUME Inv, NEW t \in Threads,
           \/ CloseSocket(t) \/ WriteFail(t) \/ CloseFile(t)
           \/ WriteOpen(t) \/ GetOpen(t) \/ GetRead(t)
    PROVE  Outcome(t)
<1> USE DEF Answered, Early, Nearer
<1>1. CASE CloseSocket(t)
  <2>1. /\ th[t].pc = "close" /\ Goto(t, "done") /\ fds' = Closed(th[t].sock)
        /\ UNCHANGED <<alive, down, broken, clientClosed>>
    BY <1>1 DEF CloseSocket, SockToClose, At, KeepsNet, netVars
  <2>2. Moves(t, "done")
    BY <2>1, GotoMoves DEF ThreadLocations
  <2> QED
    BY <2>1, <2>2 DEF Outcome, Progress, SendsOf, Moves
<1>2. CASE CloseFile(t)
  <2>1. /\ UNCHANGED <<alive, netVars>>
        /\ \/ th[t].pc = "fclose" /\ Goto(t, "chmod")
           \/ th[t].pc = "gclose" /\ Goto(t, "close")
    BY <1>2 DEF CloseFile, At, KeepsNet
  <2> QED
    BY <2>1, GotoOutcome DEF ThreadLocations
<1>3. CASE WriteOpen(t)
  <2>1. /\ th[t].pc = "wopen" /\ UNCHANGED <<alive, netVars>>
        /\ \/ Moves(t, "wfail")
           \/ th'[t].pc = "wrecv" /\ th'[t].command = th[t].command
    BY <1>3, WriteOpenEffect
  <2>2. CASE Moves(t, "wfail")
    BY <2>1, <2>2, MovesOutcome DEF netVars
  <2>3. CASE th'[t].pc = "wrecv" /\ th'[t].command = th[t].command
    BY <2>1, <2>3 DEF Outcome, Progress, SendsOf, netVars
  <2> QED
    BY <2>1, <2>2, <2>3
<1>4. CASE GetOpen(t)
  <2>1. /\ th[t].pc = "gopen" /\ UNCHANGED <<alive, netVars>>
        /\ \/ Moves(t, "close")
           \/ th'[t].pc = "gread" /\ th'[t].command = th[t].command
    BY <1>4, GetOpenEffect
  <2>2. CASE Moves(t, "close")
    BY <2>1, <2>2, MovesOutcome DEF netVars
  <2>3. CASE th'[t].pc = "gread" /\ th'[t].command = th[t].command
    BY <2>1, <2>3 DEF Outcome, Progress, SendsOf, netVars
  <2> QED
    BY <2>1, <2>2, <2>3
<1>5. CASE GetRead(t)
  BY <1>5, GetReadEffect, MovesOutcome
<1>6. CASE WriteFail(t)
  <2>1. th[t].pc = "wfail" /\ CloseEarly(t, "unlock")
    BY <1>6 DEF WriteFail, At
  <2>2. Moves(t, "unlock") /\ UNCHANGED <<alive, netVars>>
    BY <2>1, CloseEarlyEffect DEF ThreadLocations
  <2> QED
    BY <2>1, <2>2, MovesOutcome DEF netVars
<1> QED
  BY <1>1, <1>2, <1>3, <1>4, <1>5, <1>6

LEMMA ReceiveAndSendOutcome ==
    ASSUME Inv, NEW t \in Threads,
           \/ ReadArg(t) \/ EnterRecv(t) \/ ReceiveCommand(t) \/ WriteData(t)
           \/ Stop(t) \/ SendReply(t) \/ GetSend(t)
    PROVE  Outcome(t)
<1> USE DEF Answered, Early
<1>1. CASE ReadArg(t) \/ EnterRecv(t)
  <2>1. /\ UNCHANGED <<alive, down, broken, clientClosed>>
        /\ th'[t].command = th[t].command
        /\ \/ th[t].pc = "start" /\ th'[t].pc = "recv"
           \/ th[t].pc = "recv" /\ th'[t].pc \in {"command", "close"}
           \/ th[t].pc = "wrecv" /\ th'[t].pc \in {"data", "fclose"}
    BY <1>1, ReadArgEffect, EnterRecvEffect DEF ReadArg, EnterRecv, KeepsNet, netVars
  <2> QED
    BY <2>1 DEF Outcome, Progress, SendsOf
<1>2. CASE ReceiveCommand(t)
  <2>1. /\ th[t].pc = "command" /\ UNCHANGED <<alive, down, broken, clientClosed>>
        /\ th'[t].pc \in {"wstat", "gopen", "rmstat", "ls", "stop", "close"}
    BY <1>2, ReceiveCommandEffect
  <2> QED
    BY <1>2, <2>1 DEF Outcome, Progress, SendsOf
<1>3. CASE WriteData(t)
  <2>1. /\ th[t].pc = "data" /\ th'[t].pc \in {"fclose", "wrecv"}
        /\ th'[t].command = th[t].command /\ clientClosed' = clientClosed
        /\ \E data : SentTo(fds[th[t].file], data)
    BY <1>3, WriteDataEffect
  <2> QED
    BY <2>1 DEF Outcome, Progress, SendsOf
<1>4. CASE Stop(t)
  <2>1. th[t].pc = "stop" /\ UNCHANGED <<th, down, broken, clientClosed>>
    BY <1>4 DEF Stop, At, KeepsNet, netVars
  <2> QED
    BY <2>1 DEF Outcome, Progress, SendsOf
<1>5. CASE SendReply(t) \/ GetSend(t)
  <2>1. /\ SentTo(fds[th[t].sock], th[t].buf) /\ clientClosed' = clientClosed
        /\ \/ th[t].pc = "reply" /\ th' = [th EXCEPT ![t].pc = "close", ![t].buf = <<>>]
           \/ th[t].pc = "gsend" /\ th' = [th EXCEPT ![t].pc = "gread", ![t].buf = <<>>]
    BY <1>5 DEF SendReply, GetSend, Sends, At
  <2>2. th \in [Threads -> ThreadType]
    BY DEF Inv, TypeInv, ServerType
  <2>3. /\ th'[t].command = th[t].command
        /\ \/ th[t].pc = "reply" /\ th'[t].pc = "close"
           \/ th[t].pc = "gsend" /\ th'[t].pc = "gread"
    BY <2>1, <2>2 DEF ThreadType
  <2> QED
    BY <2>1, <2>3 DEF Outcome, Progress, SendsOf
<1> QED
  BY <1>1, <1>2, <1>3, <1>4, <1>5

LEMMA ThreadOutcome ==
    ASSUME Inv, NEW t \in Threads, ThreadStep(t)
    PROVE  Outcome(t)
  BY SimpleOutcome, OpenAndCloseOutcome, ReceiveAndSendOutcome DEF ThreadStep
-----------------------------------------------------------------------------
(* A command that has been received is its client's.                       *)
LEMMA CommandAsked ==
    ASSUME Inv, AskedInv, NEW t \in Threads, ReceiveCommand(t)
    PROVE  /\ th[t].ref \in Clients
           /\ th'[t].command.op \in {job[th[t].ref].op, "INVALID"}
<1>1. PICK c \in Clients : c = th[t].ref /\ th'[t].command = Scanned(Arrived(c)) /\ Received(c)
  BY ReceiveCommandEffect
<1>2. CASE Arrived(c) = <<>> \/ IsData(Head(Arrived(c)))
  BY <1>1, <1>2 DEF Scanned, Reply
<1>3. CASE Arrived(c) # <<>> /\ ~IsData(Head(Arrived(c)))
  <2>1. PICK k \in 0..Len(up[c]) :
          Len(Arrived(c)) = k /\ \A j \in 1..k : Arrived(c)[j] = up[c][j]
    BY <1>1, ReceivedUp
  <2>2. Len(up[c]) \in Nat /\ Arrived(c) \in Seq(Uploads)
    BY <1>1, ReceivedUp
  <2>3. Head(Arrived(c)) = Arrived(c)[1] /\ Len(Arrived(c)) \in Nat \ {0}
    BY <1>3, <2>2, HeadTailProperties, EmptySeq
  <2>4. Head(Arrived(c)) = up[c][1] /\ 1 \in 1..Len(up[c])
    BY <2>1, <2>2, <2>3
  <2>5. Head(Arrived(c)).op = job[c].op
    BY <1>3, <2>4 DEF AskedInv, IsData
  <2> QED
    BY <1>1, <1>3, <2>5 DEF Scanned, Command
<1> QED
  BY <1>1, <1>2, <1>3

LEMMA ReceivedAsked ==
    ASSUME Inv, AskedInv, NEW d \in Clients, Received(d), NEW c \in Clients,
           NEW j \in 1..Len(up'[c])
    PROVE  up'[c][j].op \in {"DATA", job[c].op}
<1>1. CASE c # d
  <2>1. up'[c] = up[c]
    BY <1>1, ReceivedUp
  <2> QED
    BY <2>1 DEF AskedInv
<1>2. CASE c = d
  <2>1. PICK k \in 0..Len(up[c]) :
          /\ Len(up'[c]) = Len(up[c]) - k
          /\ \A i \in 1..Len(up[c]) - k : up'[c][i] = up[c][k + i]
    BY <1>2, ReceivedUp
  <2>2. Len(up[c]) \in Nat
    BY <1>2, ReceivedUp
  <2>3. j \in 1..Len(up[c]) - k /\ k + j \in 1..Len(up[c])
    BY <2>1, <2>2
  <2> QED
    BY <2>1, <2>3 DEF AskedInv
<1> QED
  BY <1>1, <1>2

LEMMA AskedThread ==
    ASSUME Inv, AskedInv, NEW t \in Threads, ThreadStep(t), Effect(t), Outcome(t),
           UNCHANGED clientVars
    PROVE  AskedInv'
<1>1. UNCHANGED job
  BY DEF clientVars
<1>2. ASSUME NEW c \in Clients, NEW j \in 1..Len(up'[c])
      PROVE  up'[c][j].op \in {"DATA", job[c].op}
  <2>1. CASE UNCHANGED up
    BY <1>2, <2>1 DEF AskedInv
  <2>2. CASE th[t].pc \in {"command", "data"} /\ Received(th[t].ref)
    <3>1. th[t].ref \in Clients
      BY <2>2 DEF Inv, LocalInv, TypeInv, ServerType, ThreadType
    <3> QED
      BY <1>2, <2>2, <3>1, ReceivedAsked
  <2>3. CASE /\ th[t].pc = "gread" /\ fds[th[t].file].kind = "socket"
             /\ Received(fds[th[t].file].of)
    <3>1. th[t].file \in Fds
      BY <2>3 DEF Inv, LocalInv, HasFile
    <3>2. fds[th[t].file].of \in Clients
      BY <2>3, <3>1, SocketOf DEF Inv, TypeInv, ServerType
    <3> QED
      BY <1>2, <2>3, <3>2, ReceivedAsked
  <2> QED
    BY <2>1, <2>2, <2>3 DEF Effect, StreamsOf
<1>3. ASSUME NEW u \in Threads, th'[u].pc = "stop"
      PROVE  \E c \in Clients : job[c].op = "STOP"
  <2>1. CASE th[u].pc = "stop"
    BY <2>1 DEF AskedInv
  <2>2. CASE u = t /\ ReceiveCommand(t)
    <3>1. th'[t].command.op = "STOP"
      BY <1>3, <2>2, ReceiveCommandEffect DEF Dispatch
    <3> QED
      BY <2>2, <3>1, CommandAsked
  <2> QED
    BY <1>3, <2>1, <2>2 DEF Outcome, Progress, Effect, FrameOf, SameLocals
<1> QED
  BY <1>1, <1>2, <1>3 DEF AskedInv

LEMMA AskedClient ==
    ASSUME Inv, AskedInv, NEW c \in Clients, ClientActs(c)
    PROVE  AskedInv'
<1>1. UNCHANGED th
  BY ServerUnchanged DEF ClientActs
<1>2. /\ UNCHANGED job
      /\ \/ UNCHANGED up
         \/ up' = [up EXCEPT ![c] = Append(@, Command(job[c].op, job[c].name, job[c].perm))]
         \/ up' = [up EXCEPT ![c] = Append(@, Unit(c, sent[c] + 1))]
  BY DEF ClientActs, ClientStep, Connect, SendCommand, SendData, DataSent, ReceiveData,
         ReceiveReply, Close, netVars
<1>3. up \in [Clients -> Seq(Uploads)] /\ job[c] \in Jobs /\ sent[c] \in Nat
  BY DEF Inv, TypeInv, NetType, ClientType
<1>4. ASSUME NEW x \in Uploads, x.op \in {"DATA", job[c].op}, up' = [up EXCEPT ![c] = Append(@, x)],
             NEW d \in Clients, NEW j \in 1..Len(up'[d])
      PROVE  up'[d][j].op \in {"DATA", job[d].op}
  <2>1. CASE d # c
    <3>1. up'[d] = up[d]
      BY <1>3, <1>4, <2>1
    <3> QED
      BY <3>1 DEF AskedInv
  <2>2. CASE d = c
    <3>1. up'[c] = Append(up[c], x) /\ up[c] \in Seq(Uploads)
      BY <1>3, <1>4
    <3>2. /\ Len(up'[c]) = Len(up[c]) + 1 /\ up'[c][Len(up[c]) + 1] = x
          /\ \A i \in 1..Len(up[c]) : up'[c][i] = up[c][i]
          /\ Len(up[c]) \in Nat
      BY <3>1, AppendProperties, LenProperties
    <3>3. j = Len(up[c]) + 1 \/ j \in 1..Len(up[c])
      BY <2>2, <3>2
    <3> QED
      BY <1>4, <2>2, <3>2, <3>3 DEF AskedInv
  <2> QED
    BY <2>1, <2>2
<1>5. Unit(c, sent[c] + 1) \in Uploads /\ Unit(c, sent[c] + 1).op = "DATA"
  BY <1>3 DEF Unit, Uploads, Units
<1>6. /\ Command(job[c].op, job[c].name, job[c].perm) \in Uploads
      /\ Command(job[c].op, job[c].name, job[c].perm).op = job[c].op
  BY <1>3, ClientAssumption DEF Command, Uploads, Requests
<1>7. ASSUME NEW d \in Clients, NEW j \in 1..Len(up'[d])
      PROVE  up'[d][j].op \in {"DATA", job[d].op}
  <2>1. CASE UNCHANGED up
    BY <1>7, <2>1 DEF AskedInv
  <2> QED
    BY <1>2, <1>4, <1>5, <1>6, <1>7, <2>1
<1> QED
  BY <1>1, <1>2, <1>7 DEF AskedInv

LEMMA AskedMain ==
    ASSUME Inv, AskedInv, MainStep, UNCHANGED clientVars
    PROVE  AskedInv'
<1>1. UNCHANGED <<up, job>>
  BY DEF clientVars, MainStep, EnterAccept, Accept, CreateThread, netVars
<1>2. th' = th \/ (main = "create" /\ Goto(accepts, "start"))
  BY DEF MainStep, EnterAccept, Accept, CreateThread
<1>3. main = "create" => accepts \in Threads
  BY DEF Inv, TypeInv, ServerType, MainInv, Threads
<1>4. \A u \in Threads : th'[u].pc = "stop" => th[u].pc = "stop"
  <2>1. th \in [Threads -> ThreadType]
    BY DEF Inv, TypeInv, ServerType
  <2> QED
    BY <1>2, <1>3, <2>1, GotoTypes DEF ThreadLocations
<1> QED
  BY <1>1, <1>4 DEF AskedInv
-----------------------------------------------------------------------------
(* What main does to the descriptors and the threads.                      *)
LEMMA MainEffect ==
    ASSUME Inv, Inv', ReservedInv, MainStep
    PROVE  /\ alive /\ UNCHANGED <<down, clientClosed, broken>>
           /\ \/ /\ main = "accept" /\ FreeFds = {} /\ alive' = FALSE
                 /\ UNCHANGED <<main, accepts, client_sock, nextFd, mine, fds, th>>
              \/ /\ main = "accept" /\ main' = "accepting" /\ alive'
                 /\ nextFd' \in Fds /\ fds'[nextFd'] = Reserved
                 /\ \A g \in Fds \ {nextFd'} : fds'[g] = fds[g]
                 /\ UNCHANGED <<accepts, client_sock, mine, th>>
              \/ /\ main = "accepting" /\ main' = "create" /\ alive' /\ backlog # <<>>
                 /\ nextFd \in Fds /\ accepts' = accepts + 1 /\ client_sock' = nextFd
                 /\ accepts' \in Threads /\ th[accepts'].pc = "new"
                 /\ \A g \in Fds \ {nextFd} : fds'[g] = fds[g]
                 /\ fds'[nextFd] = Socket(mine'[accepts'])
                 /\ \A t \in Threads \ {accepts'} : mine'[t] = mine[t]
                 /\ UNCHANGED <<nextFd, th>>
              \/ /\ main = "create" /\ main' = "accept" /\ alive'
                 /\ accepts \in Threads /\ th[accepts].pc = "new"
                 /\ \A t \in Threads \ {accepts} : th'[t] = th[t]
                 /\ th'[accepts].pc \in {"new", "start"}
                 /\ th'[accepts].command = th[accepts].command
                 /\ UNCHANGED <<accepts, client_sock, nextFd, mine, fds>>
<1> USE DEF Inv, TypeInv, ServerType, MainInv
<1>1. alive /\ UNCHANGED <<down, clientClosed, broken>>
  BY DEF MainStep, EnterAccept, Accept, CreateThread, netVars
<1>2. CASE EnterAccept /\ FreeFds = {}
  BY <1>1, <1>2 DEF EnterAccept
<1>3. CASE EnterAccept /\ FreeFds # {}
  <2>1. /\ fds' = [fds EXCEPT ![LowestFree] = Reserved] /\ nextFd' = LowestFree
        /\ main = "accept" /\ main' = "accepting" /\ alive' = alive
        /\ UNCHANGED <<accepts, client_sock, mine, th>>
    BY <1>3 DEF EnterAccept
  <2>2. LowestFree \in Fds
    BY <1>3, LowestFreeIsFree
  <2>3. fds'[nextFd'] = Reserved /\ \A g \in Fds \ {nextFd'} : fds'[g] = fds[g]
    BY <2>1, <2>2
  <2> QED
    BY <1>1, <2>1, <2>2, <2>3
<1>4. CASE Accept
  <2>1. /\ main = "accepting" /\ main' = "create" /\ backlog # <<>> /\ alive' = alive
        /\ fds' = [fds EXCEPT ![nextFd] = Socket(Head(backlog))]
        /\ client_sock' = nextFd /\ accepts' = accepts + 1
        /\ mine' = [mine EXCEPT ![accepts + 1] = Head(backlog)]
        /\ UNCHANGED <<nextFd, th>>
    BY <1>4 DEF Accept
  <2>2. nextFd \in Fds
    BY <2>1
  <2>3. accepts' \in Threads /\ th[accepts'].pc = "new"
    <3>1. accepts' \in Nat \ {0} /\ accepts' <= Cardinality(Clients) /\ Cardinality(Clients) \in Nat
      BY <2>1, ConstantTypes
    <3>2. accepts' > accepts
      BY <2>1
    <3> QED
      BY <3>1, <3>2 DEF Threads
  <2>4. mine'[accepts'] = Head(backlog) /\ \A t \in Threads \ {accepts'} : mine'[t] = mine[t]
    BY <2>1, <2>3
  <2>5. /\ fds'[nextFd] = Socket(mine'[accepts'])
        /\ \A g \in Fds \ {nextFd} : fds'[g] = fds[g]
    BY <2>1, <2>2, <2>4
  <2> QED
    BY <1>1, <2>1, <2>2, <2>3, <2>4, <2>5
<1>5. CASE CreateThread
  <2>1. /\ main = "create" /\ main' = "accept" /\ alive' = alive
        /\ th' = th \/ Goto(accepts, "start")
        /\ UNCHANGED <<accepts, client_sock, nextFd, mine, fds>>
    BY <1>5 DEF CreateThread
  <2>2. accepts \in Threads /\ th[accepts].pc = "new"
    BY <2>1 DEF Threads
  <2>3. /\ \A t \in Threads \ {accepts} : th'[t] = th[t]
        /\ th'[accepts].pc \in {"new", "start"}
        /\ th'[accepts].command = th[accepts].command
    BY <2>1, <2>2, GotoTypes DEF ThreadLocations
  <2> QED
    BY <1>1, <2>1, <2>2, <2>3
<1> QED
  BY <1>2, <1>3, <1>4, <1>5 DEF MainStep
-----------------------------------------------------------------------------
LEMMA ReservedOnceStep ==
    ASSUME Inv, Inv', ReservedInv, ReservedOnce, [Next]_vars
    PROVE  ReservedOnce'
<1>1. CASE \E t \in Threads : Effect(t)
  <2>1. PICK t \in Threads : Effect(t)
    BY <1>1
  <2>2. \A g \in Fds : fds'[g] = Reserved => fds[g] = Reserved
    BY <2>1 DEF Effect, FdsOf, Reserved, Open, Free
  <2> QED
    BY <2>1, <2>2 DEF Effect, FrameOf, ReservedOnce
<1>2. CASE MainStep
  <2>1. \A c : Socket(c) # Reserved
    BY DEF Socket, Reserved
  <2> QED
    BY <1>2, <2>1, MainEffect DEF ReservedOnce
<1>3. CASE UNCHANGED serverVars
  BY <1>3, ServerUnchanged DEF ReservedOnce
<1> QED
  BY <1>1, <1>2, <1>3, StepCases, NothingChanged DEF ClientActs

LEMMA LeakThread ==
    ASSUME Inv, LeakInv, NEW t \in Threads, Effect(t), Outcome(t)
    PROVE  LeakInv'
<1>1. /\ UNCHANGED <<accepts, client_sock, mine, main>>
      /\ \A u \in Threads \ {t} : SameLocals(u)
      /\ th[t].pc \notin {"new", "done"} /\ th'[t].pc \notin {"new", "start"}
      /\ th[t].pc # "start" => th'[t].sock = th[t].sock
      /\ th[t].pc = "start" => th'[t].sock = client_sock /\ th'[t].pc = "recv"
  BY DEF Effect, FrameOf
<1>2. main = "create" => th[accepts].pc = "new"
  BY DEF Inv, MainInv
<1>3. accepts \in 0..Cardinality(Clients) /\ Cardinality(Clients) \in Nat
  BY ConstantTypes DEF Inv, TypeInv, ServerType
<1>4. ASSUME NEW g \in Fds, NEW c \in Clients, fds'[g] = Socket(c)
      PROVE  \E u \in 1..accepts : Uses(u, c, g)'
  <2>1. fds[g] = Socket(c)
    BY <1>4 DEF Effect, FdsOf, Socket, Free, Open
  <2>2. PICK u \in 1..accepts : Uses(u, c, g)
    BY <2>1 DEF LeakInv
  <2>3. u \in Threads
    BY <1>3, <2>2 DEF Threads
  <2>4. CASE u # t
    BY <1>1, <2>2, <2>3, <2>4 DEF Uses, SameLocals
  <2>5. CASE u = t
    <3>1. th[t].pc # "start" => th[t].sock = g
      BY <1>1, <2>2, <2>5 DEF Uses
    <3>2. th'[t].sock = g
      BY <1>1, <2>2, <2>5, <3>1 DEF Uses
    <3>3. th'[t].pc # "done"
      <4>1. SUFFICES ASSUME th'[t].pc = "done" PROVE FALSE
        OBVIOUS
      <4>2. th[t].sock = g /\ fds' = Closed(g)
        BY <1>1, <3>1, <4>1 DEF Outcome, Progress
      <4>3. fds \in [Fds -> Objects] /\ fds[g] # Reserved /\ Socket(c) # Free
        BY <2>1 DEF Inv, TypeInv, ServerType, Socket, Reserved, Free
      <4> QED
        BY <1>4, <4>2, <4>3, ClosedType
    <3> QED
      BY <1>1, <1>2, <2>2, <2>5, <3>2, <3>3 DEF Uses
  <2> QED
    BY <2>4, <2>5
<1> QED
  BY <1>1, <1>4 DEF LeakInv

LEMMA LeakMain ==
    ASSUME Inv, Inv', SpacedInv, ReservedInv, LeakInv, MainStep
    PROVE  LeakInv'
<1>1. /\ accepts \in 0..Cardinality(Clients) /\ Cardinality(Clients) \in Nat
      /\ 1..accepts \subseteq Threads
  BY ConstantTypes DEF Inv, TypeInv, ServerType, Threads
<1>2. \A c : Socket(c) # Reserved /\ \A d : Socket(c) = Socket(d) => c = d
  BY DEF Socket, Reserved
<1> SUFFICES ASSUME NEW g \in Fds, NEW c \in Clients, fds'[g] = Socket(c)
             PROVE  \E u \in 1..accepts' : Uses(u, c, g)'
  BY DEF LeakInv
<1>3. CASE /\ main = "accepting" /\ main' = "create" /\ backlog # <<>>
           /\ nextFd \in Fds /\ accepts' = accepts + 1 /\ client_sock' = nextFd
           /\ accepts' \in Threads /\ th[accepts'].pc = "new"
           /\ \A f \in Fds \ {nextFd} : fds'[f] = fds[f]
           /\ fds'[nextFd] = Socket(mine'[accepts'])
           /\ \A t \in Threads \ {accepts'} : mine'[t] = mine[t]
           /\ UNCHANGED <<nextFd, th>>
  <2>1. CASE g = nextFd
    <3>1. PICK u \in Threads : u = accepts'
      BY <1>3
    <3>2. mine'[u] = c /\ th'[u].pc = "new" /\ client_sock' = g
      BY <1>2, <1>3, <2>1, <3>1
    <3>3. Uses(u, c, g)'
      BY <3>2 DEF Uses
    <3>4. u \in 1..accepts'
      BY <1>1, <1>3, <3>1
    <3> QED
      BY <3>3, <3>4
  <2>2. CASE g # nextFd
    <3>1. PICK u \in 1..accepts : Uses(u, c, g)
      BY <1>3, <2>2 DEF LeakInv
    <3>2. u \in 1..accepts' /\ u # accepts' /\ u \in Threads
      BY <1>1, <1>3, <3>1
    <3>3. th[u].pc # "start"
      BY <1>3, <3>2 DEF SpacedInv
    <3>4. Uses(u, c, g)'
      BY <1>3, <3>1, <3>2, <3>3 DEF Uses
    <3> QED
      BY <3>2, <3>4
  <2> QED
    BY <2>1, <2>2
<1>4. CASE /\ main = "create" /\ main' = "accept"
           /\ accepts \in Threads /\ th[accepts].pc = "new"
           /\ \A t \in Threads \ {accepts} : th'[t] = th[t]
           /\ th'[accepts].pc \in {"new", "start"}
           /\ UNCHANGED <<accepts, client_sock, nextFd, mine, fds>>
  <2>1. PICK u \in 1..accepts : Uses(u, c, g)
    BY <1>4 DEF LeakInv
  <2>2. u \in Threads
    BY <1>1
  <2>3. Uses(u, c, g)'
    BY <1>4, <2>1, <2>2 DEF Uses
  <2> QED
    BY <1>4, <2>3
<1>5. CASE main = "accept" /\ main' \in {"accept", "accepting"} /\ fds'[g] = fds[g]
           /\ UNCHANGED <<accepts, client_sock, mine, th>>
  <2>1. PICK u \in 1..accepts : Uses(u, c, g)
    BY <1>5 DEF LeakInv
  <2>2. Uses(u, c, g)'
    BY <1>5, <2>1 DEF Uses
  <2> QED
    BY <1>5, <2>2
<1> QED
  BY <1>2, <1>3, <1>4, <1>5, MainEffect

LEMMA LeakStep ==
    ASSUME Inv, Inv', SpacedInv, ReservedInv, LeakInv, [Next]_vars
    PROVE  LeakInv'
<1>1. CASE UNCHANGED serverVars
  BY <1>1, ServerUnchanged DEF LeakInv, Uses
<1> QED
  BY <1>1, LeakThread, LeakMain, ThreadOutcome, StepCases, NothingChanged DEF ClientActs
-----------------------------------------------------------------------------
(* What send() does to the connections.                                    *)
LEMMA SentToEffect ==
    ASSUME Inv, NEW o \in Objects, NEW data, SentTo(o, data)
    PROVE  \/ UNCHANGED <<alive, down, broken>>
           \/ /\ o.of \in Clients /\ o = Socket(o.of)
              /\ alive' = ~broken[o.of]
              /\ \A c \in Clients \ {o.of} : down'[c] = down[c] /\ broken'[c] = broken[c]
              /\ broken'[o.of] <=> broken[o.of] \/ clientClosed[o.of]
<1>1. CASE o.kind = "socket" /\ data # <<>>
  <2>1. PICK c \in Clients : c = o.of /\ o = Socket(c)
    BY <1>1, SocketOf
  <2>2. /\ alive' = ~broken[c] /\ down' = Sent(c, data) /\ broken' = BrokenBySend(c)
    BY <1>1, <2>1 DEF SentTo
  <2>3. /\ down \in [Clients -> Seq(Packets)] /\ broken \in [Clients -> BOOLEAN]
        /\ clientClosed \in [Clients -> BOOLEAN]
    BY DEF Inv, TypeInv, NetType
  <2>4. \A d \in Clients \ {c} : down'[d] = down[d] /\ broken'[d] = broken[d]
    BY <2>2, <2>3 DEF Sent, BrokenBySend
  <2>5. broken'[c] <=> broken[c] \/ clientClosed[c]
    BY <2>2, <2>3 DEF BrokenBySend
  <2> QED
    BY <2>1, <2>2, <2>4, <2>5
<1>2. CASE ~(o.kind = "socket" /\ data # <<>>)
  BY <1>2 DEF SentTo
<1> QED
  BY <1>1, <1>2

(* ... and a thread's step.                                                *)
LEMMA SendingEffect ==
    ASSUME Inv, NEW t \in Threads, Outcome(t)
    PROVE  \/ UNCHANGED <<down, broken>> /\ (alive' = alive \/ th[t].pc = "stop")
           \/ \E f \in Fds, c \in Clients :
                /\ fds[f] = Socket(c)
                /\ \/ f = th[t].sock /\ th[t].pc \in {"reply", "gsend"} /\ th'[t].pc \in Answered
                   \/ f = th[t].file /\ th[t].pc = "data"
                /\ alive' = ~broken[c]
                /\ \A d \in Clients \ {c} : down'[d] = down[d] /\ broken'[d] = broken[d]
                /\ broken'[c] <=> broken[c] \/ clientClosed[c]
<1>1. fds \in [Fds -> Objects]
  BY DEF Inv, TypeInv, ServerType
<1>2. ASSUME NEW f \in Fds, NEW data, SentTo(fds[f], data),
             \/ f = th[t].sock /\ th[t].pc \in {"reply", "gsend"} /\ th'[t].pc \in Answered
             \/ f = th[t].file /\ th[t].pc = "data",
             ~ UNCHANGED <<alive, down, broken>>
      PROVE  \E c \in Clients :
                /\ fds[f] = Socket(c)
                /\ alive' = ~broken[c]
                /\ \A d \in Clients \ {c} : down'[d] = down[d] /\ broken'[d] = broken[d]
                /\ broken'[c] <=> broken[c] \/ clientClosed[c]
  <2>1. PICK o \in Objects : o = fds[f]
    BY <1>1
  <2> QED
    BY <1>2, <2>1, SentToEffect
<1>3. CASE /\ th[t].pc \in {"reply", "gsend"} /\ th'[t].pc \in Answered
           /\ SentTo(fds[th[t].sock], th[t].buf)
  <2>1. th[t].sock \in Fds
    BY <1>3 DEF Inv, LocalInv
  <2> QED
    BY <1>2, <1>3, <2>1
<1>4. ASSUME th[t].pc = "data", NEW data, SentTo(fds[th[t].file], data)
      PROVE  \/ UNCHANGED <<alive, down, broken>>
             \/ \E f \in Fds, c \in Clients :
                  /\ fds[f] = Socket(c) /\ f = th[t].file
                  /\ alive' = ~broken[c]
                  /\ \A d \in Clients \ {c} : down'[d] = down[d] /\ broken'[d] = broken[d]
                  /\ broken'[c] <=> broken[c] \/ clientClosed[c]
  <2>1. th[t].file \in Fds
    BY <1>4 DEF Inv, LocalInv, HasFile
  <2> QED
    BY <1>2, <1>4, <2>1
<1>5. CASE th[t].pc = "data" /\ \E data : SentTo(fds[th[t].file], data)
  BY <1>4, <1>5
<1> QED
  BY <1>3, <1>5 DEF Outcome, SendsOf
-----------------------------------------------------------------------------
(* A step of a client, as the server's threads may notice it.              *)
LEMMA ClientGoes ==
    ASSUME Inv, JobInv, NEW c \in Clients, ClientActs(c)
    PROVE  /\ UNCHANGED job /\ step[c] # "done"
           /\ broken' = broken
           /\ \A d \in Clients \ {c} : /\ step'[d] = step[d] /\ clientClosed'[d] = clientClosed[d]
                                       /\ down'[d] = down[d]
           /\ step'[c] \in {"close", "done"} /\ step[c] \notin {"close", "done"} =>
                  ~ServerHolds(c) \/ ~(job[c].op = "GET" /\ job[c].local)
           /\ \/ clientClosed'[c] = clientClosed[c]
              \/ clientClosed'[c] /\ step'[c] = "done"
           /\ down'[c] \in {down[c], <<>>}
           /\ JobInv'
<1> USE DEF Inv, TypeInv, NetType, ClientType, JobInv
<1>1. CASE Connect(c, alive)
  <2>1. /\ step[c] = "connect" /\ UNCHANGED <<down, clientClosed, broken, job>>
        /\ \/ alive /\ step' = [step EXCEPT ![c] = "command"]
           \/ ~alive /\ step' = [step EXCEPT ![c] = "done"]
    BY <1>1 DEF Connect, Then
  <2> QED
    BY <2>1 DEF ServerHolds
<1>2. CASE SendCommand(c)
  <2>1. /\ step[c] = "command" /\ UNCHANGED <<down, clientClosed, broken, job>>
        /\ step' = [step EXCEPT ![c] = AfterCommand(c)]
    BY <1>2 DEF SendCommand, Then
  <2>2. job[c].op = "GET" => AfterCommand(c) = IF job[c].local THEN "receive" ELSE "close"
    BY DEF AfterCommand, SendsNothing
  <2> QED
    BY <2>1, <2>2
<1>3. CASE SendData(c, ~ServerHolds(c))
  <2>1. step[c] = "data" /\ UNCHANGED <<step, down, clientClosed, broken, job>>
    BY <1>3 DEF SendData
  <2> QED
    BY <2>1
<1>4. CASE DataSent(c)
  <2>1. /\ step[c] = "data" /\ UNCHANGED <<down, clientClosed, broken, job>>
        /\ step' = [step EXCEPT ![c] = "close"]
    BY <1>4 DEF DataSent, Then, netVars
  <2> QED
    BY <2>1
<1>5. CASE ReceiveData(c, ~ServerHolds(c))
  <2>1. /\ step[c] = "receive" /\ UNCHANGED <<clientClosed, broken, job>>
        /\ \/ step' = step /\ down' = [down EXCEPT ![c] = <<>>]
           \/ down' = down /\ ~ServerHolds(c) /\ step' = [step EXCEPT ![c] = "close"]
    BY <1>5 DEF ReceiveData, Then
  <2> QED
    BY <2>1
<1>6. CASE ReceiveReply(c, ~ServerHolds(c))
  <2>1. /\ step[c] = "reply" /\ UNCHANGED <<clientClosed, broken, job>>
        /\ down' = [down EXCEPT ![c] = <<>>] /\ step' = [step EXCEPT ![c] = "close"]
    BY <1>6 DEF ReceiveReply, Then
  <2> QED
    BY <2>1
<1>7. CASE Close(c)
  <2>1. /\ step[c] = "close" /\ UNCHANGED job
        /\ clientClosed' = [clientClosed EXCEPT ![c] = TRUE]
        /\ broken' = broken
        /\ down' = [down EXCEPT ![c] = <<>>]
        /\ step' = [step EXCEPT ![c] = "done"]
    BY <1>7 DEF Close, ClientClose, Then
  <2> QED
    BY <2>1
<1> QED
  BY <1>1, <1>2, <1>3, <1>4, <1>5, <1>6, <1>7 DEF ClientActs, ClientStep

LEMMA ClosedAndWaitsStep ==
    ASSUME Inv, Inv', ReservedInv, ClosedInv, JobInv, WaitsInv, [Next]_vars
    PROVE  ClosedInv' /\ JobInv' /\ WaitsInv'
<1>1. ASSUME NEW t \in Threads, Effect(t), Outcome(t), UNCHANGED clientVars
      PROVE  ClosedInv' /\ JobInv' /\ WaitsInv'
  <2>1. UNCHANGED <<job, step, clientClosed>>
    BY <1>1 DEF clientVars, Outcome
  <2>2. \A c \in Clients : broken'[c] => broken[c] \/ clientClosed[c]
    BY <1>1, SendingEffect
  <2>3. \A c \in Clients : ServerHolds(c)' => ServerHolds(c)
    BY <1>1, HoldsBefore
  <2>4. JobInv' /\ WaitsInv'
    BY <2>1, <2>3 DEF JobInv, WaitsInv
  <2> QED
    BY <2>1, <2>2, <2>4 DEF ClosedInv
<1>2. CASE MainStep /\ UNCHANGED clientVars
  <2>1. UNCHANGED <<job, step, clientClosed, broken>>
    BY <1>2, MainEffect DEF clientVars
  <2>2. \A c \in Clients : ServerHolds(c)' => ServerHolds(c)
    BY <1>2, HoldsBeforeMain
  <2> QED
    BY <2>1, <2>2 DEF ClosedInv, JobInv, WaitsInv
<1>3. ASSUME NEW c \in Clients, ClientActs(c)
      PROVE  ClosedInv' /\ JobInv' /\ WaitsInv'
  <2>1. /\ UNCHANGED <<job, broken>> /\ step[c] # "done"
        /\ \A d \in Clients \ {c} : step'[d] = step[d] /\ clientClosed'[d] = clientClosed[d]
        /\ step'[c] \in {"close", "done"} /\ step[c] \notin {"close", "done"} =>
               ~ServerHolds(c) \/ ~(job[c].op = "GET" /\ job[c].local)
        /\ \/ clientClosed'[c] = clientClosed[c]
           \/ clientClosed'[c] /\ step'[c] = "done"
        /\ JobInv'
    BY <1>3, ClientGoes
  <2>2. ClosedInv'
    BY <2>1 DEF ClosedInv
  <2>3. ASSUME NEW d \in Clients, ServerHolds(d)',
               Connect(c, alive) => d # c
        PROVE  ServerHolds(d)
    <3>1. UNCHANGED serverVars
      BY <1>3 DEF ClientActs
    <3>2. CASE Connect(c, alive)
      BY <2>3, <3>1, <3>2, HoldsBeforeConnect
    <3>3. CASE ClientStep(c, ~ServerHolds(c))
      <4>1. backlog' = backlog
        BY <3>3, ClientEffect
      <4> QED
        BY <2>3, <3>1, <4>1, ServerUnchanged DEF ServerHolds
    <3> QED
      BY <1>3, <3>2, <3>3 DEF ClientActs
  <2>4. WaitsInv'
    <3>1. SUFFICES ASSUME NEW d \in Clients, job[d].op = "GET", job[d].local,
                          step'[d] \in {"close", "done"}, ServerHolds(d)'
                   PROVE  FALSE
      BY <2>1 DEF WaitsInv
    <3>2. ~(Connect(c, alive) /\ d = c)
      <4>1. SUFFICES ASSUME Connect(c, alive), d = c PROVE FALSE
        OBVIOUS
      <4>2. step \in [Clients -> Steps] /\ (alive => step'[c] = "command")
        BY <4>1 DEF Connect, Then, Inv, TypeInv, ClientType
      <4>3. alive' = alive
        BY <1>3, ServerUnchanged DEF ClientActs
      <4> QED
        BY <3>1, <4>1, <4>2, <4>3 DEF ServerHolds
    <3>3. ServerHolds(d)
      BY <2>3, <3>1, <3>2
    <3> QED
      BY <2>1, <3>1, <3>3 DEF WaitsInv
  <2> QED
    BY <2>1, <2>2, <2>4
<1>4. CASE UNCHANGED vars
  <2>1. UNCHANGED <<job, step, clientClosed, broken, backlog, alive, fds, th>>
    BY <1>4, NothingChanged, ServerUnchanged
  <2> QED
    BY <2>1 DEF ClosedInv, JobInv, WaitsInv, ServerHolds
<1> QED
  BY <1>1, <1>2, <1>3, <1>4, ThreadOutcome, StepCases

LEMMA OwnCommandStep ==
    ASSUME Inv, Inv', ReservedInv, AskedInv, OwnInv, OwnCommand, [Next]_vars,
           UNCHANGED job
    PROVE  OwnCommand'
<1>1. ASSUME NEW t \in Threads, Effect(t), Outcome(t) PROVE OwnCommand'
  <2>1. /\ mine' = mine /\ \A u \in Threads \ {t} : SameLocals(u)
        /\ th'[t].command = th[t].command \/ ReceiveCommand(t)
        /\ th'[t].pc \in Early => th[t].pc \in Early
    BY <1>1 DEF Effect, FrameOf, Outcome, Progress
  <2>2. \A u \in Threads \ {t} : th'[u].pc = th[u].pc /\ th'[u].command = th[u].command
    BY <2>1 DEF SameLocals
  <2>3. CASE th'[t].command = th[t].command
    BY <2>1, <2>2, <2>3 DEF OwnCommand
  <2>4. CASE ReceiveCommand(t)
    <3>1. /\ th[t].ref \in Clients /\ th'[t].command.op \in {job[th[t].ref].op, "INVALID"}
          /\ th'[t].pc \notin Early
      BY <2>4, CommandAsked, ReceiveCommandEffect DEF Early
    <3>2. th[t].ref = mine[t]
      BY <3>1, ConstantTypes DEF OwnInv
    <3> QED
      BY <2>1, <2>2, <3>1, <3>2 DEF OwnCommand
  <2> QED
    BY <2>1, <2>3, <2>4
<1>2. CASE MainStep
  <2>1. \A u \in Threads : /\ th'[u].command = th[u].command
                           /\ th'[u].pc = th[u].pc \/ (th[u].pc = "new" /\ th'[u].pc = "start")
                           /\ mine'[u] = mine[u] \/ th[u].pc = "new"
    BY <1>2, MainEffect
  <2> QED
    BY <2>1 DEF OwnCommand, Early
<1>3. CASE UNCHANGED serverVars
  BY <1>3, ServerUnchanged DEF OwnCommand
<1> QED
  BY <1>1, <1>2, <1>3, ThreadOutcome, StepCases, NothingChanged DEF ClientActs

LEMMA AnswerStep ==
    ASSUME Inv, Inv', ReservedInv, JobInv, OwnInv, AnswerInv, [Next]_vars
    PROVE  AnswerInv'
<1>1. /\ accepts \in 0..Cardinality(Clients) /\ Cardinality(Clients) \in Nat
      /\ 1..accepts \subseteq Threads
  BY ConstantTypes DEF Inv, TypeInv, ServerType, Threads
<1>2. ASSUME NEW t \in Threads, Effect(t), Outcome(t) PROVE AnswerInv'
  <2>1. /\ UNCHANGED <<mine, accepts>> /\ \A u \in Threads \ {t} : SameLocals(u)
        /\ th[t].pc # "new"
        /\ th'[t].pc \notin Answered => th[t].pc \notin Answered
    BY <1>2 DEF Effect, FrameOf, Outcome, Progress
  <2>2. \A c \in Clients : Unanswered(c)' => Unanswered(c)
    BY <1>1, <2>1 DEF Unanswered, SameLocals
  <2>3. ASSUME NEW f \in Fds, NEW c \in Clients, fds[f] = Socket(c),
               \/ f = th[t].sock /\ th[t].pc \in {"reply", "gsend"} /\ th'[t].pc \in Answered
               \/ f = th[t].file /\ th[t].pc = "data"
        PROVE  ~Unanswered(c)'
    <3>1. CASE f = th[t].file /\ th[t].pc = "data"
      <4>1. fds[f] = Open(t)
        BY <3>1 DEF OwnInv, HasFile
      <4> QED
        BY <2>3, <4>1 DEF Open, Socket
    <3>2. CASE f = th[t].sock /\ th[t].pc \in {"reply", "gsend"} /\ th'[t].pc \in Answered
      <4>1. mine[t] = c
        <5>1. fds[f] = Socket(mine[t])
          BY <3>2 DEF OwnInv, OwnThread
        <5> QED
          BY <2>3, <5>1 DEF Socket
      <4>2. t \in 1..accepts
        BY <1>1, <2>1 DEF Inv, MainInv, Threads
      <4> QED
        BY <2>1, <3>2, <4>1, <4>2 DEF Unanswered
    <3> QED
      BY <2>3, <3>1, <3>2
  <2>4. ASSUME NEW c \in Clients, Unanswered(c)'
        PROVE  down'[c] = down[c] /\ broken'[c] = broken[c]
    BY <1>2, <2>3, <2>4, SendingEffect
  <2> QED
    BY <2>2, <2>4 DEF AnswerInv
<1>3. CASE MainStep
  <2>1. /\ UNCHANGED <<down, broken>>
        /\ \/ accepts' = accepts /\ mine' = mine
           \/ accepts' = accepts + 1 /\ \A u \in Threads \ {accepts'} : mine'[u] = mine[u]
        /\ \A u \in Threads : th'[u] = th[u] \/ th[u].pc = "new"
    BY <1>3, MainEffect
  <2>2. /\ accepts' \in {accepts, accepts + 1}
        /\ \A u \in 1..accepts : mine'[u] = mine[u]
    <3>1. CASE accepts' = accepts /\ mine' = mine
      BY <3>1
    <3>2. CASE accepts' = accepts + 1 /\ \A u \in Threads \ {accepts'} : mine'[u] = mine[u]
      <4>1. \A u \in 1..accepts : u \in Threads /\ u # accepts + 1
        BY <1>1
      <4> QED
        BY <3>2, <4>1
    <3> QED
      BY <2>1, <3>1, <3>2
  <2>3. \A u \in 1..accepts : th[u].pc \in Answered => th'[u].pc \in Answered
    BY <1>1, <2>1 DEF Answered
  <2>4. \A c \in Clients : Unanswered(c)' => Unanswered(c)
    <3>1. 1..accepts \subseteq 1..accepts'
      BY <1>1, <2>2
    <3> QED
      BY <2>2, <2>3, <3>1 DEF Unanswered
  <2> QED
    BY <2>1, <2>4 DEF AnswerInv
<1>4. ASSUME NEW c \in Clients, ClientActs(c) PROVE AnswerInv'
  <2>1. \A d \in Clients : Unanswered(d)' => Unanswered(d)
    BY <1>4, ServerUnchanged DEF ClientActs, Unanswered
  <2>2. /\ broken' = broken /\ down'[c] \in {down[c], <<>>}
        /\ \A d \in Clients \ {c} : down'[d] = down[d]
    BY <1>4, ClientGoes
  <2> QED
    BY <2>1, <2>2 DEF AnswerInv
<1>5. CASE UNCHANGED vars
  BY <1>5, NothingChanged, ServerUnchanged DEF AnswerInv, Unanswered
<1> QED
  BY <1>2, <1>3, <1>4, <1>5, ThreadOutcome, StepCases

LEMMA AskedStep ==
    ASSUME Inv, AskedInv, [Next]_vars
    PROVE  AskedInv'
<1>1. CASE UNCHANGED vars
  BY <1>1, NothingChanged, ServerUnchanged DEF AskedInv
<1> QED
  BY <1>1, AskedThread, AskedMain, AskedClient, ThreadOutcome, StepCases

LEMMA CreatedStep ==
    ASSUME Inv, Inv', ReservedInv, CreatedInv, [Next]_vars
    PROVE  CreatedInv'
<1>1. accepts \in Nat
  BY ConstantTypes DEF Inv, TypeInv, ServerType
<1>2. ASSUME NEW t \in Threads, Effect(t) PROVE CreatedInv'
  <2>1. /\ UNCHANGED <<main, accepts>> /\ th'[t].pc # "new"
        /\ \A u \in Threads \ {t} : th'[u].pc = th[u].pc
    BY <1>2 DEF Effect, FrameOf, SameLocals
  <2>2. 1..accepts \subseteq Threads
    BY ConstantTypes DEF Inv, TypeInv, ServerType, Threads
  <2> QED
    BY <2>1, <2>2 DEF CreatedInv
<1>3. CASE MainStep
  <2>1. SUFFICES ASSUME ~CreateFails, NEW t \in 1..accepts', th'[t].pc = "new"
                 PROVE  main' = "create" /\ t = accepts'
    BY DEF CreatedInv
  <2>2. CASE main = "accepting" /\ main' = "create" /\ accepts' = accepts + 1 /\ th' = th
    BY <1>1, <2>1, <2>2 DEF CreatedInv
  <2>3. CASE main = "accept" /\ accepts' = accepts /\ th' = th
    BY <2>1, <2>3 DEF CreatedInv
  <2>4. CASE main = "create"
    <3>1. /\ accepts' = accepts /\ accepts \in Threads
          /\ \A u \in Threads \ {accepts} : th'[u] = th[u]
      BY <1>3, <2>4, MainEffect
    <3>2. Goto(accepts, "start")
      BY <1>3, <2>1, <2>4 DEF MainStep, EnterAccept, Accept, CreateThread
    <3>3. th'[accepts].pc = "start"
      BY <3>1, <3>2 DEF Goto, Inv, TypeInv, ServerType
    <3>4. t \in Threads \ {accepts}
      BY <2>1, <3>1, <3>3, ConstantTypes DEF Inv, TypeInv, ServerType, Threads
    <3> QED
      BY <2>1, <3>1, <3>4 DEF CreatedInv
  <2> QED
    BY <1>3, <2>2, <2>3, <2>4, MainEffect
<1>4. CASE UNCHANGED serverVars
  BY <1>4, ServerUnchanged DEF CreatedInv
<1> QED
  BY <1>2, <1>3, <1>4, StepCases, NothingChanged DEF ClientActs

LEMMA JobKept ==
    ASSUME Inv, JobInv, [Next]_vars
    PROVE  UNCHANGED job
  BY StepCases, ClientGoes, NothingChanged DEF clientVars
-----------------------------------------------------------------------------
(* The steps that end the server.  An accept that finds no descriptor:     *)
(* none is reserved, and each is used for a connection or a file.          *)
LEMMA MainEnds ==
    ASSUME Inv, Inv', ReservedInv, ReservedOnce, LeakInv, CreatedInv, MainStep, ~alive'
    PROVE  EndsForAReason'
<1>1. main = "accept" /\ FreeFds = {} /\ UNCHANGED <<accepts, mine, fds, th>>
  BY MainEffect
<1>2. ASSUME NEW g \in Fds
      PROVE  \E u \in Threads : \/ Working(u) /\ fds[g] \in {Socket(mine[u]), Open(u)}
                                \/ Uncreated(u) /\ fds[g] = Socket(mine[u])
  <2>1. fds[g] \in Objects \ {Free, Reserved}
    BY <1>1 DEF Inv, TypeInv, ServerType, FreeFds, ReservedOnce
  <2>2. CASE \E c \in Clients : fds[g] = Socket(c)
    <3>1. PICK u \in 1..accepts : th[u].pc # "done" /\ fds[g] = Socket(mine[u])
      BY <2>2 DEF LeakInv, Uses
    <3>2. u \in Threads /\ u <= accepts
      BY ConstantTypes DEF Inv, TypeInv, ServerType, Threads
    <3>3. th[u].pc = "new" => CreateFails
      BY <1>1 DEF CreatedInv
    <3> QED
      BY <3>1, <3>2, <3>3 DEF Working, Uncreated
  <2>3. ASSUME NEW u \in Threads, fds[g] = Open(u)
        PROVE  Working(u)
    BY <2>3 DEF Inv, OpenInv, HasFile, Working
  <2> QED
    BY <2>1, <2>2, <2>3 DEF Objects
<1>3. Fds = InUse \cup LeftOpen
  BY <1>2 DEF InUse, LeftOpen
<1>4. (Fds = InUse \cup LeftOpen)'
  BY <1>1, <1>3 DEF InUse, LeftOpen, Working, Uncreated
<1> QED
  BY <1>4 DEF EndsForAReason

(* A thread: STOP, or a send to a client that has gone.                    *)
LEMMA ThreadEnds ==
    ASSUME Inv, Inv', AskedInv, ClosedInv, WaitsInv,
           AllOpen => OwnInv /\ OwnCommand /\ AnswerInv,
           NEW t \in Threads, Effect(t), Outcome(t), UNCHANGED clientVars, ~alive'
    PROVE  EndsForAReason'
<1>1. alive /\ job' = job /\ th[t].pc # "new"
  BY DEF Effect, FrameOf
<1>2. CASE th[t].pc = "stop"
  BY <1>1, <1>2 DEF AskedInv, EndsForAReason
<1>3. ASSUME NEW f \in Fds, NEW c \in Clients, fds[f] = Socket(c), broken[c], broken'[c],
             \/ f = th[t].sock /\ th[t].pc \in {"reply", "gsend"}
             \/ f = th[t].file /\ th[t].pc = "data"
      PROVE  EndsForAReason'
  <2>1. CASE ~AllOpen'
    BY <1>3, <2>1 DEF EndsForAReason
  <2>2. CASE AllOpen'
    <3>1. OwnInv /\ OwnCommand /\ AnswerInv
      BY <2>2, AllOpenBefore DEF Effect
    <3>2. f = th[t].sock /\ th[t].pc \in {"reply", "gsend"}
      <4>1. th[t].pc = "data" => fds[th[t].file] = Open(t)
        BY <3>1 DEF OwnInv, HasFile
      <4> QED
        BY <1>3, <4>1 DEF Open, Socket
    <3>3. mine[t] = c
      <4>1. fds[f] = Socket(mine[t])
        BY <3>1, <3>2 DEF OwnInv, OwnThread
      <4> QED
        BY <1>3, <4>1 DEF Socket
    <3>4. th[t].pc = "gsend"
      <4>1. PICK u \in 1..accepts : mine[u] = c /\ th[u].pc \in Answered
        BY <1>3, <3>1 DEF AnswerInv, Unanswered
      <4>2. t \in 1..accepts
        BY <1>1 DEF Inv, MainInv, TypeInv, ServerType, Threads
      <4>3. u = t
        BY <3>3, <4>1, <4>2 DEF Inv, QueueInv
      <4> QED
        BY <3>2, <4>1, <4>3 DEF Answered
    <3>5. job[c].op = "GET"
      <4>1. th[t].command.op = "GET"
        BY <3>4 DEF Inv, LocalInv, OpOf
      <4> QED
        BY <3>1, <3>3, <4>1 DEF OwnCommand
    <3>6. ~job[c].local
      <4>1. step[c] = "done"
        BY <1>3 DEF ClosedInv
      <4>2. ServerHolds(c)
        BY <1>1, <3>1, <3>3, <3>4, HoldsOwn
      <4> QED
        BY <3>5, <4>1, <4>2 DEF WaitsInv
    <3> QED
      BY <1>1, <1>3, <3>5, <3>6 DEF EndsForAReason
  <2> QED
    BY <2>1, <2>2
<1>4. CASE \E f \in Fds, c \in Clients :
             /\ fds[f] = Socket(c) /\ alive' = ~broken[c]
             /\ broken'[c] <=> broken[c] \/ clientClosed[c]
             /\ \/ f = th[t].sock /\ th[t].pc \in {"reply", "gsend"}
                \/ f = th[t].file /\ th[t].pc = "data"
  BY <1>3, <1>4
<1> QED
  BY <1>1, <1>2, <1>4, SendingEffect

(* Nothing that happens to a server that has ended takes its reason away.  *)
LEMMA EndedStep ==
    ASSUME Inv, JobInv, ~alive, EndsForAReason, [Next]_vars
    PROVE  EndsForAReason'
<1>1. UNCHANGED job /\ UNCHANGED serverVars
  BY JobKept, StepCases, NothingChanged
     DEF Effect, FrameOf, MainStep, EnterAccept, Accept, CreateThread, ClientActs
<1>2. UNCHANGED <<alive, accepts, mine, fds, th>>
  BY <1>1, ServerUnchanged
<1>3. broken' = broken
  BY <1>2, StepCases, ClientGoes, NothingChanged
     DEF Effect, FrameOf, MainStep, EnterAccept, Accept, CreateThread
<1> QED
  BY <1>1, <1>2, <1>3 DEF EndsForAReason, AllOpen, InUse, LeftOpen, Working, Uncreated

LEMMA EndsStep ==
    ASSUME Inv, Inv', ReservedInv, AskedInv, ReservedOnce, ClosedInv, JobInv, WaitsInv, LeakInv,
           CreatedInv, AllOpen => OwnInv /\ OwnCommand /\ AnswerInv,
           EndsForAReason, [Next]_vars
    PROVE  EndsForAReason'
<1>1. CASE ~alive
  BY <1>1, EndedStep
<1>2. CASE alive'
  BY <1>2 DEF EndsForAReason
<1>3. CASE alive /\ ~alive'
  <2>1. ~UNCHANGED serverVars
    BY <1>3, ServerUnchanged
  <2> QED
    BY <1>3, <2>1, MainEnds, ThreadEnds, ThreadOutcome, StepCases, NothingChanged DEF ClientActs
<1> QED
  BY <1>1, <1>2, <1>3
-----------------------------------------------------------------------------
LEMMA InitEnd ==
    ASSUME Init
    PROVE  EndInv
<1>1. /\ main = "accept" /\ accepts = 0 /\ alive
      /\ up = [c \in Clients |-> <<>>] /\ down = [c \in Clients |-> <<>>]
      /\ clientClosed = [c \in Clients |-> FALSE] /\ broken = [c \in Clients |-> FALSE]
      /\ step = [c \in Clients |-> "connect"]
      /\ th = [t \in Threads |-> NewThread] /\ fds = [f \in Fds |-> Free]
  BY DEF Init, NetInit, ClientInit, ServerInit
<1>2. \A t \in Threads : th[t].pc = "new" /\ th[t].command.op = "INVALID"
  BY <1>1 DEF NewThread, Reply
<1>3. AskedInv
  <2>1. \A c \in Clients : up[c] = <<>> /\ Len(<<>>) = 0
    BY <1>1, EmptySeq
  <2>2. \A c \in Clients : \A j \in 1..Len(up[c]) : FALSE
    BY <2>1
  <2> QED
    BY <1>2, <2>2 DEF AskedInv
<1>4. ReservedOnce /\ LeakInv
  <2>1. \A c : Socket(c) # Free /\ Free # Reserved
    BY DEF Socket, Free, Reserved
  <2> QED
    BY <1>1, <2>1 DEF ReservedOnce, LeakInv
<1>5. ClosedInv /\ JobInv /\ WaitsInv
  BY <1>1 DEF ClosedInv, JobInv, WaitsInv
<1>6. EndsForAReason /\ OwnCommand /\ AnswerInv
  BY <1>1, <1>2 DEF EndsForAReason, OwnCommand, AnswerInv
<1>7. CreatedInv
  BY <1>1 DEF CreatedInv
<1> QED
  BY <1>3, <1>4, <1>5, <1>6, <1>7 DEF EndInv

LEMMA EndInvariance == Spec => []EndInv
<1>1. Init => EndInv
  BY InitEnd
<1>2. Inv /\ Inv' /\ SharedInv /\ EndInv /\ [Next]_vars => EndInv'
  <2> SUFFICES ASSUME Inv, Inv', SharedInv, EndInv, [Next]_vars PROVE EndInv'
    OBVIOUS
  <2>1. AskedInv' /\ ReservedOnce' /\ ClosedInv' /\ JobInv' /\ WaitsInv' /\ CreatedInv'
    BY AskedStep, ReservedOnceStep, ClosedAndWaitsStep, CreatedStep DEF SharedInv, EndInv
  <2>2. ASSUME Spaced PROVE LeakInv' /\ EndsForAReason'
    BY <2>2, LeakStep, EndsStep DEF SharedInv, OwnersInv, EndInv
  <2>3. ASSUME Spaced, AllOpen' PROVE OwnCommand' /\ AnswerInv'
    <3>1. AllOpen /\ UNCHANGED job
      BY <2>3, AliveAndAllOpenBefore, JobKept DEF EndInv
    <3> QED
      BY <2>3, <3>1, OwnCommandStep, AnswerStep DEF SharedInv, OwnersInv, EndInv
  <2> QED
    BY <2>1, <2>2, <2>3 DEF EndInv
<1> QED
  BY <1>1, <1>2, Invariance, SharedInvariance, PTL DEF Spec

(* When clients come one at a time, the server ends for a STOP (s.c:146);  *)
(* for an accept that finds every descriptor in a thread that is at work,  *)
(* or left open by one that pthread_create did not make (s.c:83-92); or    *)
(* for the SIGPIPE of a second send to a client that has closed.  The last *)
(* takes a GET whose client could not create its local file (s.c:223-243), *)
(* unless some handler has closed its socket (s.c:187, s.c:226), which     *)
(* handle_client closes again (s.c:151).  So it is whatever the number of  *)
(* clients and descriptors, WRITEs refused as read-only included.          *)
THEOREM EndsCorrect == Spec => [](Spaced => EndsForAReason)
<1>1. EndInv => (Spaced => EndsForAReason)
  BY DEF EndInv
<1> QED
  BY <1>1, EndInvariance, PTL
-----------------------------------------------------------------------------
(* Who waits for whom.  The mutex is kept by a thread that writes.         *)
KeptInv == file_mutex # Nobody => InWriteSection(file_mutex)

(* A client that waits for an answer sends no file and has not closed.     *)
AsksInv ==
    \A c \in Clients : /\ step[c] \in {"receive", "reply"} => job[c].op # "WRITE"
                       /\ alive /\ step[c] = "done" => clientClosed[c]

(* What it waits for has been asked: until its thread receives it, the     *)
(* command is on its way.                                                  *)
Unheard(c) == \A t \in 1..accepts : mine[t] = c => th[t].pc \in Early
PendingInv ==
    \A c \in Clients : step[c] \in {"receive", "reply"} /\ Unheard(c) => up[c] # <<>>

WaitInv ==
    /\ KeptInv /\ AsksInv
    /\ Spaced /\ AllOpen => PendingInv

LEMMA KeptThread ==
    ASSUME Inv, KeptInv, NEW t \in Threads, ThreadStep(t), Effect(t)
    PROVE  KeptInv'
<1>1. th \in [Threads -> ThreadType] /\ file_mutex \in Threads \cup {Nobody}
  BY DEF Inv, TypeInv, ServerType
<1>2. ASSUME NEW k \in {"wfail", "fclose", "chmod"}, NEW l \in {"unlock", "chmod"},
             th[t].pc = k, Moves(t, l), file_mutex' = file_mutex
      PROVE  KeptInv'
  <2>1. th'[t].pc = l /\ \A u \in Threads \ {t} : th'[u].pc = th[u].pc
    BY <1>2 DEF Moves, SameLocals
  <2> QED
    BY <1>1, <1>2, <2>1 DEF KeptInv, InWriteSection
<1>3. ASSUME ~InWriteSection(t), \A u \in Threads \ {t} : th'[u].pc = th[u].pc,
             file_mutex' = file_mutex
      PROVE  KeptInv'
  BY <1>1, <1>3 DEF KeptInv, InWriteSection
<1>4. CASE Lock(t) \/ Unlock(t)
  <2>1. \/ th' = [th EXCEPT ![t].pc = "wopen"] /\ file_mutex' = t
        \/ file_mutex' = Nobody
    BY <1>4 DEF Lock, Unlock, Goto
  <2>2. th' = [th EXCEPT ![t].pc = "wopen"] => th'[t].pc = "wopen"
    BY <1>1
  <2> QED
    BY <2>1, <2>2 DEF KeptInv, InWriteSection
<1>5. CASE WriteFail(t) \/ CloseFile(t) \/ Chmod(t)
  <2>1. /\ file_mutex' = file_mutex
        /\ \/ th[t].pc = "wfail" /\ CloseEarly(t, "unlock")
           \/ th[t].pc = "fclose" /\ Goto(t, "chmod")
           \/ th[t].pc = "chmod" /\ Goto(t, "unlock")
           \/ th[t].pc = "gclose" /\ Goto(t, "close")
    BY <1>5 DEF WriteFail, CloseEarly, CloseFile, Chmod, At
  <2>2. \/ th[t].pc = "wfail" /\ Moves(t, "unlock")
        \/ th[t].pc = "fclose" /\ Moves(t, "chmod")
        \/ th[t].pc = "chmod" /\ Moves(t, "unlock")
        \/ th[t].pc = "gclose" /\ Moves(t, "close")
    BY <2>1, GotoMoves, CloseEarlyEffect DEF ThreadLocations
  <2>3. CASE th[t].pc = "gclose" /\ Moves(t, "close")
    BY <1>3, <2>1, <2>3 DEF InWriteSection, Moves, SameLocals
  <2> QED
    BY <1>2, <2>1, <2>2, <2>3
<1>6. CASE WriteOpen(t) \/ EnterRecv(t) \/ WriteData(t)
  <2>1. /\ file_mutex' = file_mutex /\ \A u \in Threads \ {t} : th'[u].pc = th[u].pc
        /\ InWriteSection(t) => th'[t].pc \in {"wfail", "wrecv", "data", "fclose"}
    BY <1>6, WriteOpenEffect, EnterRecvEffect, WriteDataEffect
       DEF Moves, SameLocals, InWriteSection
  <2> QED
    BY <1>1, <2>1 DEF KeptInv, InWriteSection
<1>7. CASE \/ ReadArg(t) \/ ReceiveCommand(t) \/ Stop(t) \/ CloseSocket(t) \/ SendReply(t)
           \/ WriteStat(t) \/ GetOpen(t) \/ GetRead(t) \/ GetSend(t)
           \/ RemoveStat(t) \/ Remove(t) \/ CheckPermission(t)
  <2>1. \A u \in Threads \ {t} : th'[u].pc = th[u].pc
    BY DEF Effect, FrameOf, SameLocals
  <2>2. ~InWriteSection(t) /\ file_mutex' = file_mutex
    BY <1>7 DEF ReadArg, ReceiveCommand, Stop, CloseSocket, SendReply, Sends, WriteStat, GetOpen,
       GetRead, GetSend, RemoveStat, Remove, CheckPermission, Answers, CloseEarly, At, InWriteSection
  <2> QED
    BY <1>3, <2>1, <2>2
<1> QED
  BY <1>4, <1>5, <1>6, <1>7 DEF ThreadStep

LEMMA KeptStep ==
    ASSUME Inv, Inv', ReservedInv, KeptInv, [Next]_vars
    PROVE  KeptInv'
<1>1. CASE MainStep
  <2>1. /\ file_mutex' = file_mutex
        /\ \A u \in Threads : th'[u] = th[u] \/ th[u].pc = "new"
    BY <1>1, MainEffect DEF MainStep, EnterAccept, Accept, CreateThread
  <2>2. file_mutex \in Threads \cup {Nobody}
    BY DEF Inv, TypeInv, ServerType
  <2> QED
    BY <2>1, <2>2 DEF KeptInv, InWriteSection
<1>2. CASE UNCHANGED serverVars
  BY <1>2, ServerUnchanged DEF KeptInv, InWriteSection
<1> QED
  BY <1>1, <1>2, KeptThread, StepCases, NothingChanged DEF ClientActs

(* What a client's step does to what it has asked for.                     *)
LEMMA ClientAsks ==
    ASSUME Inv, NEW c \in Clients, ClientActs(c)
    PROVE  /\ UNCHANGED job
           /\ \A d \in Clients \ {c} : /\ step'[d] = step[d] /\ up'[d] = up[d]
                                       /\ clientClosed'[d] = clientClosed[d]
           /\ step'[c] \in {"receive", "reply"} =>
                 \/ step'[c] = step[c] /\ up'[c] = up[c]
                 \/ job[c].op # "WRITE" /\ up'[c] # <<>>
           /\ alive /\ step'[c] = "done" => clientClosed'[c]
<1> USE DEF Inv, TypeInv, NetType, ClientType
<1>1. CASE Connect(c, alive)
  <2>1. /\ UNCHANGED <<up, clientClosed, job>>
        /\ \/ alive /\ step' = [step EXCEPT ![c] = "command"]
           \/ ~alive /\ step' = [step EXCEPT ![c] = "done"]
    BY <1>1 DEF Connect, Then
  <2> QED
    BY <2>1
<1>2. CASE SendCommand(c)
  <2>1. /\ step' = [step EXCEPT ![c] = AfterCommand(c)] /\ UNCHANGED <<clientClosed, job>>
        /\ IF SendsNothing(c) THEN up' = up
           ELSE up' = [up EXCEPT ![c] = Append(@, Command(job[c].op, job[c].name, job[c].perm))]
    BY <1>2 DEF SendCommand, Then
  <2>2. /\ AfterCommand(c) # "done"
        /\ AfterCommand(c) \in {"receive", "reply"} => ~SendsNothing(c) /\ job[c].op # "WRITE"
    <3>1. CASE job[c].op = "INVALID"
      BY <3>1 DEF AfterCommand, SendsNothing
    <3>2. CASE job[c].op = "WRITE"
      BY <3>2 DEF AfterCommand, SendsNothing
    <3>3. CASE job[c].op \notin {"INVALID", "WRITE"}
      <4>1. ~SendsNothing(c)
        BY <3>3 DEF SendsNothing
      <4>2. AfterCommand(c) # "done"
        BY DEF AfterCommand
      <4> QED
        BY <3>3, <4>1, <4>2
    <3> QED
      BY <3>1, <3>2, <3>3
  <2>3. Command(job[c].op, job[c].name, job[c].perm) \in Uploads
    BY ClientAssumption DEF Command, Uploads, Requests
  <2>4. \A x \in Uploads : Append(up[c], x) # <<>>
    <3>1. up[c] \in Seq(Uploads)
      OBVIOUS
    <3>2. SUFFICES ASSUME NEW x \in Uploads PROVE Append(up[c], x) # <<>>
      OBVIOUS
    <3>3. Len(Append(up[c], x)) = Len(up[c]) + 1 /\ Len(up[c]) \in Nat
      BY <3>1, AppendProperties, LenProperties
    <3>4. Len(<<>>) = 0
      BY EmptySeq
    <3>5. Len(up[c]) + 1 # 0
      BY ONLY <3>3
    <3> QED
      BY ONLY <3>3, <3>4, <3>5
  <2> QED
    BY <2>1, <2>2, <2>3, <2>4
<1>3. CASE SendData(c, ~ServerHolds(c))
  <2>1. /\ step[c] = "data" /\ UNCHANGED <<step, clientClosed, job>>
        /\ up' = up \/ up' = [up EXCEPT ![c] = Append(@, Unit(c, sent[c] + 1))]
    BY <1>3 DEF SendData
  <2> QED
    BY <2>1
<1>4. CASE DataSent(c) \/ ReceiveData(c, ~ServerHolds(c)) \/ ReceiveReply(c, ~ServerHolds(c))
  <2>1. /\ UNCHANGED <<up, clientClosed, job>>
        /\ \/ step[c] = "receive" /\ step' = step
           \/ step' = [step EXCEPT ![c] = "close"]
    BY <1>4 DEF DataSent, ReceiveData, ReceiveReply, Then, netVars
  <2> QED
    BY <2>1
<1>5. CASE Close(c)
  <2>1. /\ UNCHANGED <<up, job>>
        /\ clientClosed' = [clientClosed EXCEPT ![c] = TRUE]
        /\ step' = [step EXCEPT ![c] = "done"]
    BY <1>5 DEF Close, ClientClose, Then
  <2> QED
    BY <2>1
<1> QED
  BY <1>1, <1>2, <1>3, <1>4, <1>5 DEF ClientActs, ClientStep

LEMMA AsksStep ==
    ASSUME Inv, Inv', ReservedInv, AsksInv, [Next]_vars
    PROVE  AsksInv'
<1>1. alive' => alive
  BY AliveAndAllOpenBefore
<1>2. CASE UNCHANGED clientVars /\ clientClosed' = clientClosed
  BY <1>1, <1>2 DEF AsksInv, clientVars
<1>3. ASSUME NEW t \in Threads, ThreadStep(t) PROVE clientClosed' = clientClosed
  BY <1>3, ThreadOutcome DEF Outcome
<1>4. MainStep => clientClosed' = clientClosed
  BY MainEffect
<1>5. ASSUME NEW c \in Clients, ClientActs(c) PROVE AsksInv'
  BY <1>1, <1>5, ClientAsks DEF AsksInv
<1>6. UNCHANGED vars => UNCHANGED clientVars /\ clientClosed' = clientClosed
  BY DEF vars, netVars
<1> QED
  BY <1>2, <1>3, <1>4, <1>5, <1>6, StepCases

LEMMA PendingStep ==
    ASSUME Inv, Inv', ReservedInv, OwnInv, PendingInv, [Next]_vars
    PROVE  PendingInv'
<1>1. /\ accepts \in 0..Cardinality(Clients) /\ Cardinality(Clients) \in Nat
      /\ 1..accepts \subseteq Threads
  BY ConstantTypes DEF Inv, TypeInv, ServerType, Threads
<1>2. ASSUME NEW t \in Threads, ThreadStep(t), Effect(t), Outcome(t), UNCHANGED clientVars
      PROVE  PendingInv'
  <2>1. /\ UNCHANGED <<mine, accepts, step>> /\ \A u \in Threads \ {t} : SameLocals(u)
        /\ th[t].pc # "new" /\ (th'[t].pc \in Early => th[t].pc \in Early)
    BY <1>2 DEF Effect, FrameOf, Outcome, Progress
  <2>2. \A c \in Clients : Unheard(c)' => Unheard(c)
    BY <1>1, <2>1 DEF Unheard, SameLocals
  <2>3. t \in 1..accepts
    BY <1>1, <2>1 DEF Inv, MainInv, Threads
  <2>4. ASSUME NEW c \in Clients, Unheard(c)' PROVE up'[c] = up[c]
    <3>1. CASE /\ th[t].pc \in {"command", "data"} /\ Received(th[t].ref)
               /\ ReceiveCommand(t) \/ WriteData(t)
      <4>1. th[t].ref \in Clients /\ th'[t].pc \notin Early
        BY <3>1, ReceiveCommandEffect, WriteDataEffect DEF Early
      <4>2. th[t].ref = mine[t]
        BY <4>1, ConstantTypes DEF OwnInv
      <4>3. th[t].ref # c
        BY <2>1, <2>3, <2>4, <4>1, <4>2 DEF Unheard
      <4> QED
        BY <3>1, <4>1, <4>3, ReceivedUp
    <3>2. CASE th[t].pc = "gread" /\ fds[th[t].file].kind = "socket"
      <4>1. fds[th[t].file] = Open(t) /\ Open(t).kind = "file"
        BY <3>2 DEF OwnInv, HasFile, Open
      <4> QED
        BY <3>2, <4>1
    <3> QED
      BY <1>2, <3>1, <3>2 DEF Effect, StreamsOf
  <2> QED
    BY <2>1, <2>2, <2>4 DEF PendingInv
<1>3. CASE MainStep /\ UNCHANGED clientVars
  <2>1. UNCHANGED <<up, step>>
    BY <1>3 DEF clientVars, MainStep, EnterAccept, Accept, CreateThread, netVars
  <2>2. /\ accepts' \in {accepts, accepts + 1}
        /\ \A u \in Threads : mine'[u] = mine[u] \/ u = accepts + 1
        /\ \A u \in Threads : /\ th'[u] = th[u] \/ th[u].pc = "new"
                              /\ th[u].pc \in Early => th'[u].pc \in Early
    BY <1>3, MainEffect DEF Early
  <2>3. \A u \in 1..accepts : u \in Threads /\ u # accepts + 1 /\ u \in 1..accepts'
    BY <1>1, <2>2
  <2>4. \A u \in Threads : th'[u].pc \in Early => th[u].pc \in Early
    BY <2>2 DEF Early
  <2>5. \A c \in Clients : Unheard(c)' => Unheard(c)
    BY <2>2, <2>3, <2>4 DEF Unheard
  <2> QED
    BY <2>1, <2>5 DEF PendingInv
<1>4. ASSUME NEW c \in Clients, ClientActs(c) PROVE PendingInv'
  <2>1. \A d \in Clients : Unheard(d)' => Unheard(d)
    BY <1>4, ServerUnchanged DEF ClientActs, Unheard
  <2> QED
    BY <1>4, <2>1, ClientAsks DEF PendingInv
<1>5. CASE UNCHANGED vars
  BY <1>5, NothingChanged, ServerUnchanged DEF PendingInv, Unheard
<1> QED
  BY <1>2, <1>3, <1>4, <1>5, ThreadOutcome, StepCases

(* A thread that waits has a client that is not waiting for it.            *)
LEMMA WaitsOnWorker ==
    ASSUME Inv, EndInv, WaitInv, Spaced, AllOpen, OwnInv,
           NEW t \in Threads, NEW c \in Clients, WaitsOn(t, c)
    PROVE  /\ mine[t] = c /\ t \in 1..accepts
           /\ step[c] \in {"command", "data", "close"}
<1>1. th[t].ref = c
  <2>1. th[t].pc = "gread" => fds[th[t].file] = Open(t)
    BY DEF OwnInv, HasFile
  <2>2. Open(t) # Socket(c)
    BY DEF Open, Socket
  <2> QED
    BY <2>1, <2>2 DEF WaitsOn
<1>2. c # Nobody /\ mine[t] = c /\ th[t].pc \in {"command", "data"}
  BY <1>1, ConstantTypes DEF OwnInv, Inv, LocalInv
<1>3. t \in 1..accepts
  BY <1>2 DEF Inv, MainInv, TypeInv, ServerType, Threads
<1>4. alive /\ up[c] = <<>> /\ ~clientClosed[c]
  BY DEF WaitsOn, Ready
<1>5. step[c] \in Steps /\ step[c] # "connect" /\ step[c] # "done"
  BY <1>2, <1>3, <1>4 DEF Inv, TypeInv, ClientType, QueueInv, WaitInv, AsksInv
<1>6. step[c] \notin {"receive", "reply"}
  <2>1. CASE th[t].pc = "command"
    <3>1. \A u \in 1..accepts : mine[u] = c => u = t
      BY <1>2, <1>3 DEF Inv, QueueInv
    <3>2. Unheard(c)
      BY <2>1, <3>1 DEF Unheard, Early
    <3> QED
      BY <1>4, <3>2 DEF WaitInv, PendingInv
  <2>2. CASE th[t].pc = "data"
    <3>1. th[t].command.op = "WRITE"
      BY <2>2 DEF Inv, LocalInv, OpOf
    <3>2. job[c].op = "WRITE"
      BY <1>2, <3>1 DEF EndInv, OwnCommand
    <3> QED
      BY <3>2 DEF WaitInv, AsksInv
  <2> QED
    BY <1>2, <2>1, <2>2
<1> QED
  BY <1>2, <1>3, <1>5, <1>6 DEF Steps

LEMMA NoCircleNow ==
    ASSUME Inv, SharedInv, EndInv, WaitInv, Spaced
    PROVE  NoCircleOfWaits
<1>1. SUFFICES ASSUME AllOpen
               PROVE  /\ \A t \in Threads : At(t, "lock") /\ ~MutexFree => InWriteSection(file_mutex)
                      /\ \A t \in Threads, c \in Clients :
                            WaitsOn(t, c) => step[c] \in {"command", "data", "close"}
                      /\ \A c \in Clients :
                            step[c] \in {"receive", "reply"} /\ down[c] = <<>> /\ ServerHolds(c)
                               => Served(c)
  BY DEF NoCircleOfWaits
<1>2. OwnInv
  BY <1>1 DEF SharedInv, OwnersInv
<1>3. \A t \in Threads, c \in Clients :
         WaitsOn(t, c) => mine[t] = c /\ step[c] \in {"command", "data", "close"}
  BY <1>1, <1>2, WaitsOnWorker
<1>4. ~MutexFree => InWriteSection(file_mutex)
  BY DEF MutexFree, WaitInv, KeptInv
<1>5. ASSUME NEW c \in Clients, step[c] \in {"receive", "reply"}, ServerHolds(c),
             c \notin Range(backlog)
      PROVE  Served(c)
  <2>1. \E t \in 1..accepts : mine[t] = c /\ th[t].pc # "done"
    <3>1. CASE \E g \in Fds : fds[g] = Socket(c)
      BY <3>1 DEF EndInv, LeakInv, Uses
    <3>2. ASSUME NEW t \in Threads, th[t].ref = c
          PROVE  \E u \in 1..accepts : mine[u] = c /\ th[u].pc # "done"
      <4>1. c # Nobody /\ mine[t] = c /\ th[t].pc \in {"command", "data"}
        BY <1>2, <3>2, ConstantTypes DEF OwnInv, Inv, LocalInv
      <4>2. t \in 1..accepts
        BY <4>1 DEF Inv, MainInv, TypeInv, ServerType, Threads
      <4> QED
        BY <4>1, <4>2
    <3> QED
      BY <1>5, <3>1, <3>2 DEF ServerHolds
  <2>2. PICK t \in 1..accepts : mine[t] = c /\ th[t].pc # "done"
    BY <2>1
  <2>3. t \in Threads
    BY ConstantTypes DEF Inv, TypeInv, ServerType, Threads
  <2>4. \A d \in Clients : ~WaitsOn(t, d)
    BY <1>3, <1>5, <2>2, <2>3
  <2>5. th[t].pc = "new" => CreateFails \/ (main = "create" /\ t = accepts)
    BY DEF EndInv, CreatedInv
  <2> QED
    BY <2>2, <2>4, <2>5 DEF Served
<1> QED
  BY <1>3, <1>4, <1>5 DEF Served

LEMMA WaitInvariance == Spec => []WaitInv
<1>1. Init => WaitInv
  <2> SUFFICES ASSUME Init PROVE WaitInv
    OBVIOUS
  <2>1. /\ accepts = 0 /\ file_mutex = Nobody /\ step = [c \in Clients |-> "connect"]
    BY DEF Init, ServerInit, ClientInit
  <2> QED
    BY <2>1 DEF WaitInv, KeptInv, AsksInv, PendingInv
<1>2. Inv /\ Inv' /\ SharedInv /\ WaitInv /\ [Next]_vars => WaitInv'
  <2> SUFFICES ASSUME Inv, Inv', SharedInv, WaitInv, [Next]_vars PROVE WaitInv'
    OBVIOUS
  <2>1. KeptInv' /\ AsksInv'
    BY KeptStep, AsksStep DEF SharedInv, WaitInv
  <2>2. ASSUME Spaced, AllOpen' PROVE PendingInv'
    <3>1. AllOpen
      BY <2>2, AliveAndAllOpenBefore
    <3> QED
      BY <2>2, <3>1, PendingStep DEF SharedInv, OwnersInv, WaitInv
  <2> QED
    BY <2>1, <2>2 DEF WaitInv
<1> QED
  BY <1>1, <1>2, Invariance, SharedInvariance, PTL DEF Spec

(* The mutex that is kept while recv waits (s.c:183-206) and the recvs of  *)
(* both programs (s.c:122, s.c:194) never close a circle, whatever the     *)
(* number of clients and whatever they ask, when clients come one at a     *)
(* time and no thread has closed its socket in its handler.  A WRITE that  *)
(* is refused as read-only does not: it closes once, at the end.           *)
THEOREM NoCircleCorrect == Spec => [](Spaced => NoCircleOfWaits)
<1>1. Inv /\ SharedInv /\ EndInv /\ WaitInv => (Spaced => NoCircleOfWaits)
  BY NoCircleNow
<1> QED
  BY <1>1, Invariance, SharedInvariance, EndInvariance, WaitInvariance, PTL
=============================================================================
