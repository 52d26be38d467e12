--------------------------- MODULE RfsWriterProofs ---------------------------
(***************************************************************************)
(* What the server's threads do to each other's connections and files when *)
(* clients come one at a time (Spaced) and no thread has closed its socket *)
(* in its handler (AllOpen), which is what a failed fopen leads to.        *)
(***************************************************************************)
EXTENDS RfsProofs

(* Nobody closes the descriptor a pending accept has reserved.             *)
ReservedInv == main = "accepting" => fds[nextFd] = Reserved

(* A connection comes only once the thread of the one before has begun.    *)
SpacedInv ==
    /\ Len(backlog) <= 1
    /\ backlog # <<>> => main = "accepting" /\ \A t \in Threads : th[t].pc # "start"
    /\ \A t \in Threads : th[t].pc = "start" => t = accepts

(* The threads' descriptors are their own.                                 *)
OwnInv ==
    /\ OwnThread
    /\ \A t \in Threads : th[t].pc \in HasFile => fds[th[t].file] = Open(t)
    /\ \A t \in Threads : th[t].ref \in {mine[t], Nobody}
    /\ accepts > 0 /\ th[accepts].pc \in {"new", "start"} =>
           fds[client_sock] = Socket(mine[accepts])

(* What is on its way to the server is the last of what the client sent: a *)
(* command, and units in their order.  Base counts those already received. *)
Base(c) == sent[c] - Len(up[c])

StreamOf(c) ==
    /\ step[c] \in {"connect", "command"} => up[c] = <<>> /\ sent[c] = 0
    /\ ServerHolds(c) => \A j \in 1..Len(up[c]) :
           IF IsData(up[c][j]) THEN up[c][j] = Unit(c, Base(c) + j) ELSE j = 1

StreamInv == \A c \in Clients : StreamOf(c)

(* A thread that writes has received its client's command; what it has     *)
(* written are the units received last.                                    *)
Writing == {"wstat", "lock", "wopen", "wfail", "wrecv", "data", "fclose"}
Filling == {"wrecv", "data", "fclose"}

OnlyData(c) ==
    /\ step[c] \notin {"connect", "command"}
    /\ \A j \in 1..Len(up[c]) : IsData(up[c][j])

Run(s, c, base) == \A j \in 1..Len(s) : s[j] = Unit(c, base - Len(s) + j)

WriteInv(t) ==
    /\ th[t].pc \in Writing => OnlyData(mine[t])
    /\ th[t].pc \in Filling => Run(content[th[t].inode], mine[t], Base(mine[t]))
-----------------------------------------------------------------------------
(* What a step of a thread does to the others' state.                      *)
FrameOf(t) ==
    /\ alive
    /\ UNCHANGED <<backlog, job, step, sent, main, accepts, client_sock, nextFd, mine>>
    /\ \A u \in Threads \ {t} : SameLocals(u)
    /\ th[t].pc \notin {"new", "done"} /\ th'[t].pc \notin {"new", "start"}
    /\ th[t].pc \in {"unlock", "close"} =>
           th'[t].pc \in {"close", "done"}
    /\ th[t].early => th'[t].early
    /\ th[t].pc # "start" => th'[t].sock = th[t].sock
    /\ th[t].pc = "start" => /\ th'[t].sock = client_sock /\ fds' = fds
                             /\ th'[t].pc = "recv" /\ th'[t].ref = th[t].ref

FdsOf(t) ==
    /\ \A g \in Fds : \/ fds'[g] = fds[g]
                      \/ fds[g] = Free /\ fds'[g] = Open(t)
                      \/ fds[g] # Reserved /\ fds'[g] = Free
    /\ \/ th'[t].early
       \/ \A g \in Fds : fds[g] # Free /\ fds'[g] # fds[g] =>
              \/ g = th[t].sock /\ th[t].pc = "close" /\ th'[t].pc = "done"
              \/ g = th[t].file /\ th[t].pc \in HasFile /\ th'[t].pc \notin HasFile
    /\ th'[t].pc \in HasFile => \/ th[t].pc \in HasFile /\ th'[t].file = th[t].file
                                \/ fds'[th'[t].file] = Open(t)
    /\ \/ th'[t].ref \in {Nobody, th[t].ref}
       \/ th[t].pc \in {"recv", "wrecv"} /\ fds[th[t].sock] = Socket(th'[t].ref)

StreamsOf(t) ==
    \/ UNCHANGED up
    \/ /\ th[t].pc \in {"command", "data"} /\ Received(th[t].ref)
       /\ ReceiveCommand(t) \/ WriteData(t)
    \/ /\ th[t].pc = "gread" /\ fds[th[t].file].kind = "socket"
       /\ Received(fds[th[t].file].of)

ContentOf(t) ==
    /\ UNCHANGED content \/ WriteOpen(t) \/ WriteData(t)
    /\ th'[t].pc \in Writing => th[t].pc \in Writing \/ ReceiveCommand(t)
    /\ th'[t].pc \in Filling => \/ th[t].pc \in Filling /\ th'[t].inode = th[t].inode
                                \/ WriteOpen(t)

Effect(t) == FrameOf(t) /\ FdsOf(t) /\ StreamsOf(t) /\ ContentOf(t)

(* Most steps only move the thread on.                                     *)
Onward(k, l) ==
    /\ k \notin {"new", "start", "done"} /\ l \notin {"new", "start"}
    /\ k \in {"unlock", "close"} => l \in {"close", "done"}
    /\ l \in HasFile => k \in HasFile
    /\ l \in Writing => k \in Writing
    /\ l \in Filling => k \in Filling

LEMMA MovesEffect ==
    ASSUME Inv, NEW t \in Threads, NEW l, Moves(t, l), Onward(th[t].pc, l), alive,
           UNCHANGED <<clientVars, mainVars, backlog>>
    PROVE  /\ FrameOf(t)
           /\ th'[t].ref = th[t].ref
           /\ th'[t].pc \in HasFile => th[t].pc \in HasFile /\ th'[t].file = th[t].file
           /\ th'[t].pc \in Writing => th[t].pc \in Writing
           /\ th'[t].pc \in Filling => th[t].pc \in Filling /\ th'[t].inode = th[t].inode
<1>1. /\ UNCHANGED <<backlog, job, step, sent, main, accepts, client_sock, nextFd, mine>>
      /\ \A u \in Threads \ {t} : SameLocals(u)
      /\ th'[t].pc = l /\ th'[t].sock = th[t].sock /\ th'[t].command = th[t].command
      /\ th'[t].ref = th[t].ref /\ th'[t].file = th[t].file /\ th'[t].inode = th[t].inode
      /\ th[t].early => th'[t].early
  BY DEF Moves, clientVars, mainVars
<1>2. FrameOf(t)
  BY <1>1 DEF FrameOf, Onward
<1> QED
  BY <1>1, <1>2 DEF Onward

LEMMA QuietEffect ==
    ASSUME Inv, NEW t \in Threads, NEW l, Moves(t, l), Onward(th[t].pc, l), alive,
           UNCHANGED <<clientVars, mainVars, backlog, fds, up, content>>
    PROVE  Effect(t)
<1>1. /\ FrameOf(t)
      /\ th'[t].ref = th[t].ref
      /\ th'[t].pc \in HasFile => th[t].pc \in HasFile /\ th'[t].file = th[t].file
      /\ th'[t].pc \in Writing => th[t].pc \in Writing
      /\ th'[t].pc \in Filling => th[t].pc \in Filling /\ th'[t].inode = th[t].inode
  BY MovesEffect
<1>2. FdsOf(t)
  BY <1>1 DEF FdsOf
<1>3. StreamsOf(t) /\ ContentOf(t)
  BY <1>1 DEF StreamsOf, ContentOf
<1> QED
  BY <1>1, <1>2, <1>3 DEF Effect

(* Steps that close a descriptor.                                          *)
LEMMA CloseEffect ==
    ASSUME Inv, NEW t \in Threads, NEW l, Moves(t, l),
           Onward(th[t].pc, l), alive, NEW f, fds' = Closed(f),
           \/ th'[t].early
           \/ f = th[t].sock /\ th[t].pc = "close" /\ l = "done"
           \/ f = th[t].file /\ th[t].pc \in HasFile /\ l \notin HasFile,
           UNCHANGED <<clientVars, mainVars, backlog, up, content>>
    PROVE  Effect(t)
<1>2. /\ FrameOf(t)
      /\ th'[t].ref = th[t].ref
      /\ th'[t].pc \in HasFile => th[t].pc \in HasFile /\ th'[t].file = th[t].file
      /\ th'[t].pc \in Writing => th[t].pc \in Writing
      /\ th'[t].pc \in Filling => th[t].pc \in Filling /\ th'[t].inode = th[t].inode
  BY MovesEffect
<1>3. th'[t].pc = l
  BY DEF Moves
<1>4. \A g \in Fds : fds'[g] = fds[g] \/ (fds[g] # Reserved /\ fds'[g] = Free /\ g = f)
  <2>1. fds \in [Fds -> Objects]
    BY DEF Inv, TypeInv, ServerType
  <2> QED
    BY <2>1 DEF Closed
<1>5. FdsOf(t)
  BY <1>2, <1>3, <1>4 DEF FdsOf
<1>6. StreamsOf(t) /\ ContentOf(t)
  BY <1>2 DEF StreamsOf, ContentOf
<1> QED
  BY <1>2, <1>5, <1>6 DEF Effect

LEMMA SimpleStepsEffect ==
    ASSUME Inv, NEW t \in Threads, UNCHANGED clientVars,
           \/ Stop(t) \/ WriteStat(t) \/ Lock(t) \/ Chmod(t) \/ Unlock(t)
           \/ RemoveStat(t) \/ Remove(t) \/ CheckPermission(t)
    PROVE  Effect(t)
<1> USE DEF Onward, HasFile, Writing, Filling
<1>1. CASE Stop(t)
  <2>1. /\ th[t].pc = "stop" /\ alive /\ th' = th
        /\ UNCHANGED <<clientVars, mainVars, backlog, fds, up, content>>
    BY <1>1 DEF Stop, At, KeepsMain, KeepsNet, netVars, files
  <2>2. Moves(t, "stop")
    BY <2>1 DEF Moves, SameLocals, Inv, TypeInv, ServerType
  <2> QED
    BY <2>1, <2>2, QuietEffect
<1>2. ASSUME NEW l \in ThreadLocations, Goto(t, l), Onward(th[t].pc, l), alive,
             UNCHANGED <<mainVars, netVars, fds, content>>
      PROVE  Effect(t)
  BY <1>2, GotoMoves, QuietEffect DEF netVars
<1>3. ASSUME NEW text, Reply(text) \in Replies, Answers(t, text),
             Onward(th[t].pc, "reply"), alive, UNCHANGED content
      PROVE  Effect(t)
  <2>1. Moves(t, "reply")
    BY <1>3, AnswersMoves
  <2> QED
    BY <1>3, <2>1, QuietEffect DEF Answers, KeepsMain, KeepsNet, netVars
<1>4. \A text \in {"READONLY", "FAIL", "OK", "not found", "read-write", "read-only",
                   "no read permission"} : Reply(text) \in Replies
  BY DEF Reply, Replies
<1>5. CASE WriteStat(t)
  <2>1. /\ alive /\ th[t].pc = "wstat"
        /\ \/ Answers(t, "READONLY") /\ UNCHANGED content
           \/ Goto(t, "lock") /\ UNCHANGED <<mainVars, netVars, fds, content>>
    BY <1>5 DEF WriteStat, At, KeepsMain, KeepsNet, files
  <2> QED
    BY <1>2, <1>3, <1>4, <2>1 DEF ThreadLocations
<1>6. CASE Lock(t) \/ Chmod(t) \/ Unlock(t)
  <2>1. /\ alive /\ UNCHANGED <<mainVars, netVars, fds, content>>
        /\ \/ th[t].pc = "lock" /\ Goto(t, "wopen")
           \/ th[t].pc = "chmod" /\ Goto(t, "unlock")
           \/ th[t].pc = "unlock" /\ Goto(t, "close")
    BY <1>6 DEF Lock, Chmod, Unlock, At, KeepsMain, KeepsNet, files
  <2> QED
    BY <1>2, <2>1 DEF ThreadLocations
<1>7. CASE RemoveStat(t)
  <2>1. /\ alive /\ th[t].pc = "rmstat"
        /\ \/ Answers(t, "FAIL") /\ UNCHANGED content
           \/ Goto(t, "remove") /\ UNCHANGED <<mainVars, netVars, fds, content>>
    BY <1>7 DEF RemoveStat, At, KeepsMain, KeepsNet, files
  <2> QED
    BY <1>2, <1>3, <1>4, <2>1 DEF ThreadLocations
<1>8. CASE Remove(t) \/ CheckPermission(t)
  <2>1. /\ alive /\ th[t].pc \in {"remove", "ls"} /\ UNCHANGED content
        /\ \E text \in {"OK", "FAIL", "not found", "read-write", "read-only",
                        "no read permission"} : Answers(t, text)
    BY <1>8 DEF Remove, CheckPermission, At, files
  <2> QED
    BY <1>3, <1>4, <2>1
<1> QED
  BY <1>1, <1>5, <1>6, <1>7, <1>8

LEMMA SendsEffect ==
    ASSUME Inv, NEW t \in Threads, UNCHANGED clientVars, SendReply(t) \/ GetSend(t)
    PROVE  Effect(t)
<1>1. ASSUME NEW l \in ThreadLocations, Sends(t, th[t].buf, l), Onward(th[t].pc, l), alive
      PROVE  Effect(t)
  <2>1. /\ th' = [th EXCEPT ![t].pc = l, ![t].buf = <<>>]
        /\ UNCHANGED <<mainVars, backlog, up, fds, content>>
    BY <1>1 DEF Sends, KeepsMain, files
  <2>2. Moves(t, l)
    <3>1. th' = [th EXCEPT ![t].buf = <<>>, ![t].pc = l]
      BY <2>1
    <3>2. <<>> \in Seq(Packets)
      BY EmptySeq
    <3> QED
      BY <3>1, <3>2, BufMoves
  <2> QED
    BY <1>1, <2>1, <2>2, QuietEffect
<1>2. /\ alive
      /\ \/ th[t].pc = "reply" /\ Sends(t, th[t].buf, "close")
         \/ th[t].pc = "gsend" /\ Sends(t, th[t].buf, "gread")
  BY DEF SendReply, GetSend, At
<1> QED
  BY <1>1, <1>2 DEF Onward, HasFile, Writing, Filling, ThreadLocations

LEMMA ClosesEffect ==
    ASSUME Inv, NEW t \in Threads, UNCHANGED clientVars,
           CloseSocket(t) \/ WriteFail(t) \/ CloseFile(t)
    PROVE  Effect(t)
<1> USE DEF Onward, HasFile, Writing, Filling, ThreadLocations
<1>1. alive /\ UNCHANGED <<mainVars, backlog, up, content>>
  BY DEF CloseSocket, WriteFail, CloseEarly, CloseFile, At, KeepsMain, KeepsNet, netVars, files
<1>2. CASE CloseSocket(t)
  <2>1. th[t].pc = "close" /\ Goto(t, "done") /\ fds' = Closed(th[t].sock)
    BY <1>2 DEF CloseSocket, SockToClose, At
  <2> QED
    BY <1>1, <2>1, GotoMoves, CloseEffect
<1>3. CASE WriteFail(t)
  <2>1. th[t].pc = "wfail" /\ CloseEarly(t, "unlock")
    BY <1>3 DEF WriteFail, At
  <2>2. Moves(t, "unlock") /\ th'[t].early /\ fds' = Closed(th[t].sock)
    BY <2>1, CloseEarlyEffect
  <2> QED
    BY <1>1, <2>1, <2>2, CloseEffect
<1>4. CASE CloseFile(t)
  <2>1. /\ fds' = Closed(th[t].file)
        /\ \/ th[t].pc = "fclose" /\ Goto(t, "chmod")
           \/ th[t].pc = "gclose" /\ Goto(t, "close")
    BY <1>4 DEF CloseFile, At
  <2> QED
    BY <1>1, <2>1, GotoMoves, CloseEffect
<1> QED
  BY <1>2, <1>3, <1>4

LEMMA ReceivesEffect ==
    ASSUME Inv, NEW t \in Threads, UNCHANGED clientVars,
           ReadArg(t) \/ EnterRecv(t) \/ ReceiveCommand(t) \/ WriteData(t)
    PROVE  Effect(t)
<1> USE DEF HasFile, Writing, Filling
<1>1. CASE ReadArg(t)
  <2>1. /\ alive /\ th[t].pc = "start"
        /\ \A u \in Threads \ {t} : th'[u] = th[u]
        /\ th'[t].pc = "recv" /\ th'[t].sock = client_sock /\ th'[t].ref = th[t].ref
        /\ th'[t].early = th[t].early
        /\ UNCHANGED <<mainVars, netVars, fds, content>>
    BY <1>1, ReadArgEffect DEF ReadArg, At
  <2>2. FrameOf(t)
    BY <2>1 DEF FrameOf, SameLocals, mainVars, netVars, clientVars
  <2> QED
    BY <2>1, <2>2 DEF Effect, FdsOf, StreamsOf, ContentOf, netVars
<1>2. CASE EnterRecv(t)
  <2>1. /\ alive
        /\ \A u \in Threads \ {t} : th'[u] = th[u]
        /\ \/ /\ th[t].pc = "recv" /\ th'[t].pc = "command"
              /\ fds[th[t].sock] = Socket(th'[t].ref)
           \/ /\ th[t].pc = "wrecv" /\ th'[t].pc = "data"
              /\ fds[th[t].sock] = Socket(th'[t].ref)
           \/ th[t].pc = "recv" /\ th'[t].pc = "close" /\ th'[t].ref = th[t].ref
           \/ th[t].pc = "wrecv" /\ th'[t].pc = "fclose" /\ th'[t].ref = th[t].ref
        /\ th'[t].sock = th[t].sock /\ th'[t].file = th[t].file
        /\ th'[t].inode = th[t].inode /\ th'[t].early = th[t].early
        /\ UNCHANGED <<mainVars, netVars, fds, content>>
    BY <1>2, EnterRecvEffect DEF EnterRecv, At
  <2>2. FrameOf(t)
    BY <2>1 DEF FrameOf, SameLocals, mainVars, netVars, clientVars
  <2>3. FdsOf(t)
    BY <2>1 DEF FdsOf
  <2> QED
    BY <2>1, <2>2, <2>3 DEF Effect, StreamsOf, ContentOf, netVars
<1>3. CASE ReceiveCommand(t)
  <2>1. /\ alive /\ th[t].pc = "command" /\ Received(th[t].ref)
        /\ \A u \in Threads \ {t} : th'[u] = th[u]
        /\ th'[t].pc \in {"wstat", "gopen", "rmstat", "ls", "stop", "close"}
        /\ th'[t].sock = th[t].sock /\ th'[t].ref = Nobody
        /\ th'[t].early = th[t].early
        /\ UNCHANGED <<mainVars, backlog, fds, content>>
    BY <1>3, ReceiveCommandEffect DEF ReceiveCommand, At
  <2>2. FrameOf(t)
    BY <2>1 DEF FrameOf, SameLocals, mainVars, clientVars
  <2> QED
    BY <1>3, <2>1, <2>2 DEF Effect, FdsOf, StreamsOf, ContentOf
<1>4. CASE WriteData(t)
  <2>1. /\ alive /\ th[t].pc = "data" /\ Received(th[t].ref)
        /\ \A u \in Threads \ {t} : th'[u] = th[u]
        /\ th'[t].pc \in {"fclose", "wrecv"} /\ th'[t].ref = Nobody
        /\ th'[t].sock = th[t].sock /\ th'[t].file = th[t].file
        /\ th'[t].inode = th[t].inode /\ th'[t].early = th[t].early
        /\ UNCHANGED <<mainVars, backlog, fds>>
    BY <1>4, WriteDataEffect DEF WriteData, At
  <2>2. FrameOf(t)
    BY <2>1 DEF FrameOf, SameLocals, mainVars, clientVars
  <2> QED
    BY <1>4, <2>1, <2>2 DEF Effect, FdsOf, StreamsOf, ContentOf
<1> QED
  BY <1>1, <1>2, <1>3, <1>4

LEMMA OpensEffect ==
    ASSUME Inv, NEW t \in Threads, UNCHANGED clientVars, WriteOpen(t) \/ GetOpen(t)
    PROVE  Effect(t)
<1> USE DEF HasFile, Writing, Filling
<1>1. fds \in [Fds -> Objects]
  BY DEF Inv, TypeInv, ServerType
<1>2. ASSUME NEW f \in Fds, fds[f] = Free, fds' = [fds EXCEPT ![f] = Open(t)],
             alive, \A u \in Threads \ {t} : th'[u] = th[u],
             th'[t].file = f, th'[t].sock = th[t].sock, th'[t].ref = th[t].ref,
             th'[t].early = th[t].early, UNCHANGED <<mainVars, backlog, up>>,
             \/ th[t].pc = "wopen" /\ th'[t].pc = "wrecv" /\ WriteOpen(t)
             \/ th[t].pc = "gopen" /\ th'[t].pc = "gread" /\ UNCHANGED content
      PROVE  Effect(t)
  <2>1. FrameOf(t)
    BY <1>2 DEF FrameOf, SameLocals, mainVars, clientVars
  <2>2. FdsOf(t)
    BY <1>1, <1>2 DEF FdsOf
  <2> QED
    BY <1>2, <2>1, <2>2 DEF Effect, StreamsOf, ContentOf
<1>3. CASE WriteOpen(t)
  <2>1. alive /\ th[t].pc = "wopen" /\ UNCHANGED <<mainVars, netVars>>
    BY Zenon, <1>3, WriteOpenEffect DEF WriteOpen, At
  <2>2. CASE Moves(t, "wfail") /\ UNCHANGED <<fds, dir, content>>
    <3>1. Onward(th[t].pc, "wfail")
      BY <2>1 DEF Onward
    <3> QED
      BY <2>1, <2>2, <3>1, QuietEffect DEF netVars
  <2>3. CASE ~(Moves(t, "wfail") /\ UNCHANGED <<fds, dir, content>>)
    <3>1. PICK f \in Fds :
            /\ fds[f] = Free /\ fds' = [fds EXCEPT ![f] = Open(t)]
            /\ \A u \in Threads \ {t} : th'[u] = th[u]
            /\ th'[t].pc = "wrecv" /\ th'[t].file = f
            /\ th'[t].sock = th[t].sock /\ th'[t].ref = th[t].ref
            /\ th'[t].early = th[t].early
      BY <1>3, <2>3, WriteOpenEffect
    <3> QED
      BY Zenon, <1>2, <1>3, <2>1, <3>1 DEF netVars
  <2> QED
    BY Zenon, <2>2, <2>3
<1>4. CASE GetOpen(t)
  <2>1. alive /\ th[t].pc = "gopen" /\ UNCHANGED <<mainVars, netVars, content>>
    BY <1>4, GetOpenEffect DEF GetOpen, At, files
  <2>2. CASE Moves(t, "close") /\ th'[t].early /\ fds' = Closed(th[t].sock)
    <3>1. Onward(th[t].pc, "close")
      BY <2>1 DEF Onward
    <3> QED
      BY <2>1, <2>2, <3>1, CloseEffect DEF netVars
  <2>3. CASE ~(Moves(t, "close") /\ th'[t].early /\ fds' = Closed(th[t].sock))
    <3>1. PICK f \in Fds :
            /\ fds[f] = Free /\ fds' = [fds EXCEPT ![f] = Open(t)]
            /\ \A u \in Threads \ {t} : th'[u] = th[u]
            /\ th'[t].pc = "gread" /\ th'[t].file = f
            /\ th'[t].sock = th[t].sock /\ th'[t].ref = th[t].ref
            /\ th'[t].early = th[t].early
      BY <1>4, <2>3, GetOpenEffect
    <3> QED
      BY <1>2, <2>1, <3>1 DEF netVars
  <2> QED
    BY <2>2, <2>3
<1> QED
  BY <1>3, <1>4

LEMMA GetReadsEffect ==
    ASSUME Inv, NEW t \in Threads, UNCHANGED clientVars, GetRead(t)
    PROVE  Effect(t)
<1>1. /\ alive /\ th[t].pc = "gread"
      /\ \/ fds[th[t].file].kind = "socket" /\ Received(fds[th[t].file].of)
         \/ UNCHANGED up
      /\ UNCHANGED <<backlog, fds, content, mainVars>>
  BY GetReadEffect DEF GetRead, At
<1>2. PICK l \in {"gclose", "gsend"} : Moves(t, l)
  BY GetReadEffect
<1>3. Onward(th[t].pc, l)
  BY <1>1, <1>2 DEF Onward, HasFile, Writing, Filling
<1>4. /\ FrameOf(t)
      /\ th'[t].ref = th[t].ref
      /\ th'[t].pc \in HasFile => th[t].pc \in HasFile /\ th'[t].file = th[t].file
      /\ th'[t].pc \in Writing => th[t].pc \in Writing
      /\ th'[t].pc \in Filling => th[t].pc \in Filling /\ th'[t].inode = th[t].inode
  BY <1>1, <1>2, <1>3, MovesEffect
<1> QED
  BY <1>1, <1>4 DEF Effect, FdsOf, StreamsOf, ContentOf

LEMMA ThreadEffect ==
    ASSUME Inv, NEW t \in Threads, ThreadStep(t), UNCHANGED clientVars
    PROVE  Effect(t)
  BY SimpleStepsEffect, SendsEffect, ClosesEffect, ReceivesEffect, OpensEffect,
     GetReadsEffect DEF ThreadStep
-----------------------------------------------------------------------------
(* That a thread has closed its socket early is not forgotten.             *)
LEMMA AllOpenBefore ==
    ASSUME Inv, NEW t \in Threads, FrameOf(t), AllOpen'
    PROVE  AllOpen
<1> SUFFICES ASSUME NEW u \in Threads, th[u].early PROVE FALSE
  BY DEF AllOpen
<1>1. ~th'[u].early
  BY DEF AllOpen
<1> QED
  BY <1>1 DEF FrameOf, SameLocals

LEMMA AllOpenBeforeMain ==
    ASSUME Inv, MainStep, AllOpen'
    PROVE  AllOpen
<1> SUFFICES ASSUME NEW u \in Threads, th[u].early PROVE FALSE
  BY DEF AllOpen
<1>1. ~th'[u].early
  BY DEF AllOpen
<1>2. CASE th' = th
  BY <1>1, <1>2
<1>3. CASE main = "create" /\ Goto(accepts, "start")
  BY <1>1, <1>3 DEF Goto, Inv, TypeInv, ServerType
<1> QED
  BY <1>2, <1>3 DEF MainStep, EnterAccept, Accept, CreateThread

(* The server's end of a connection is not opened again.                   *)
LEMMA HoldsBefore ==
    ASSUME Inv, NEW t \in Threads, Effect(t), NEW c \in Clients, ServerHolds(c)'
    PROVE  ServerHolds(c)
<1>1. alive /\ backlog' = backlog
  BY DEF Effect, FrameOf
<1>2. CASE c \in Range(backlog')
  BY <1>1, <1>2 DEF ServerHolds
<1>3. ASSUME NEW f \in Fds, fds'[f] = Socket(c) PROVE ServerHolds(c)
  <2>1. fds[f] = Socket(c)
    BY <1>3 DEF Effect, FdsOf, Socket, Free, Open
  <2> QED
    BY <1>1, <2>1 DEF ServerHolds
<1>4. ASSUME NEW u \in Threads, th'[u].ref = c PROVE ServerHolds(c)
  <2>1. CASE u # t \/ th'[u].ref = th[u].ref
    <3>1. th[u].ref = c
      BY <1>4, <2>1 DEF Effect, FrameOf, SameLocals
    <3> QED
      BY <1>1, <3>1 DEF ServerHolds
  <2>2. CASE u = t /\ th'[u].ref # th[u].ref
    <3>1. c # Nobody
      BY ConstantTypes
    <3>2. fds[th[t].sock] = Socket(c) /\ th[t].pc \in {"recv", "wrecv"}
      BY <1>4, <2>2, <3>1 DEF Effect, FdsOf
    <3>3. th[t].sock \in Fds
      BY <3>2 DEF Inv, LocalInv
    <3> QED
      BY <1>1, <3>2, <3>3 DEF ServerHolds
  <2> QED
    BY <2>1, <2>2
<1> QED
  BY <1>1, <1>2, <1>3, <1>4 DEF ServerHolds, Range

LEMMA StepCases ==
    ASSUME Inv, [Next]_vars
    PROVE  \/ \E t \in Threads : ThreadStep(t) /\ Effect(t) /\ UNCHANGED clientVars
           \/ MainStep /\ UNCHANGED clientVars
           \/ \E c \in Clients : ClientActs(c)
           \/ UNCHANGED vars
  BY ThreadEffect DEF Next, ServerActs

(* What the steps of the clients, and no step at all, leave alone.         *)
LEMMA ServerUnchanged ==
    ASSUME UNCHANGED serverVars
    PROVE  UNCHANGED <<alive, main, accepts, client_sock, nextFd, mine, fds, th, file_mutex,
                       dir, content, mode>>
  BY DEF serverVars, mainVars, files

LEMMA NothingChanged ==
    ASSUME UNCHANGED vars
    PROVE  /\ UNCHANGED <<backlog, up, down, clientClosed, broken, job, step, sent>>
           /\ UNCHANGED serverVars
  BY DEF vars, netVars, clientVars
-----------------------------------------------------------------------------
LEMMA ReservedStep ==
    ASSUME Inv, ReservedInv, [Next]_vars
    PROVE  ReservedInv'
<1> USE DEF Inv, TypeInv, ServerType, MainInv
<1>1. CASE \E t \in Threads : Effect(t)
  <2>1. PICK t \in Threads : Effect(t)
    BY <1>1
  <2>2. main' = main /\ nextFd' = nextFd
    BY <2>1 DEF Effect, FrameOf
  <2>3. \A g \in Fds : fds[g] = Reserved => fds'[g] = Reserved
    BY <2>1 DEF Effect, FdsOf, Reserved, Free
  <2> QED
    BY <2>2, <2>3 DEF ReservedInv
<1>2. CASE MainStep
  <2>1. CASE EnterAccept /\ FreeFds # {}
    <3>1. fds' = [fds EXCEPT ![LowestFree] = Reserved] /\ nextFd' = LowestFree
      BY <2>1 DEF EnterAccept
    <3>2. LowestFree \in Fds
      BY <2>1, LowestFreeIsFree
    <3> QED
      BY <3>1, <3>2 DEF ReservedInv
  <2>2. CASE ~(EnterAccept /\ FreeFds # {})
    <3>1. main' # "accepting"
      BY <1>2, <2>2 DEF MainStep, EnterAccept, Accept, CreateThread
    <3> QED
      BY <3>1 DEF ReservedInv
  <2> QED
    BY <2>1, <2>2
<1>3. CASE UNCHANGED serverVars
  BY <1>3, ServerUnchanged DEF ReservedInv
<1> QED
  BY <1>1, <1>2, <1>3, StepCases, NothingChanged DEF ClientActs

LEMMA TailOfOne ==
    ASSUME NEW S, NEW s \in Seq(S), s # <<>>, Len(s) <= 1
    PROVE  Tail(s) = <<>>
<1>1. Len(s) \in Nat \ {0}
  BY EmptySeq
<1>2. Len(s) = 1
  BY <1>1
<1>3. Tail(s) \in Seq(S) /\ Len(Tail(s)) = Len(s) - 1
  BY HeadTailProperties
<1>4. Len(Tail(s)) \notin Nat \ {0}
  BY <1>2, <1>3
<1> QED
  BY <1>3, <1>4, EmptySeq

LEMMA SpacedStep ==
    ASSUME Inv, Spaced, SpacedInv, [Next]_vars
    PROVE  SpacedInv'
<1> USE DEF Inv, TypeInv, ServerType, NetType
<1>1. CASE \E t \in Threads : Effect(t)
  <2>1. PICK t \in Threads : Effect(t)
    BY <1>1
  <2>2. /\ UNCHANGED <<backlog, main, accepts>>
        /\ \A u \in Threads : th'[u].pc = "start" => th[u].pc = "start"
    BY <2>1 DEF Effect, FrameOf, SameLocals
  <2> QED
    BY <2>2 DEF SpacedInv
<1>2. CASE EnterAccept
  BY <1>2 DEF SpacedInv, EnterAccept, netVars
<1>3. CASE Accept
  <2>1. /\ backlog # <<>> /\ backlog' = Tail(backlog) /\ th' = th
    BY <1>3 DEF Accept
  <2>2. backlog' = <<>>
    <3>1. backlog \in Seq(Clients) /\ Len(backlog) <= 1
      BY DEF SpacedInv
    <3> QED
      BY <2>1, <3>1, TailOfOne
  <2>3. Len(backlog') = 0
    BY <2>2, EmptySeq
  <2> QED
    BY <2>1, <2>2, <2>3 DEF SpacedInv
<1>4. CASE CreateThread
  <2>1. /\ main = "create" /\ backlog' = backlog /\ accepts' = accepts
        /\ th' = th \/ Goto(accepts, "start")
    BY <1>4 DEF CreateThread, netVars
  <2>2. backlog = <<>> /\ Len(backlog) <= 1
    BY <2>1 DEF SpacedInv
  <2>3. th[accepts].pc = "new" /\ accepts \in Threads
    BY <2>1 DEF MainInv, Threads
  <2>4. \A u \in Threads : th'[u].pc = "start" => u = accepts
    BY <2>1, <2>3 DEF Goto, SpacedInv
  <2> QED
    BY <2>1, <2>2, <2>4 DEF SpacedInv
<1>5. ASSUME NEW c \in Clients, ClientActs(c) PROVE SpacedInv'
  <2>1. UNCHANGED <<alive, main, accepts, th>>
    BY <1>5, ServerUnchanged DEF ClientActs
  <2>2. CASE backlog' = backlog
    BY <2>1, <2>2 DEF SpacedInv
  <2>3. CASE backlog' # backlog
    <3>1. Connect(c, alive)
      BY <1>5, <2>3, ClientStepTypes DEF ClientActs
    <3>2. alive /\ backlog' = Append(backlog, c)
      BY <2>3, <3>1 DEF Connect
    <3>3. Quiet
      BY <1>5, <3>1, <3>2 DEF ClientActs, ClientStep, Connect, SendCommand, SendData, DataSent,
              ReceiveData, ReceiveReply, Close
    <3>4. Len(backlog') = 1
      BY <3>2, <3>3, AppendProperties, EmptySeq DEF Quiet
    <3> QED
      BY <2>1, <3>3, <3>4 DEF Quiet, SpacedInv
  <2> QED
    BY <2>2, <2>3
<1>6. CASE UNCHANGED vars
  BY <1>6, NothingChanged, ServerUnchanged DEF SpacedInv
<1> QED
  BY <1>1, <1>2, <1>3, <1>4, <1>5, <1>6, StepCases DEF MainStep
-----------------------------------------------------------------------------
LEMMA ReceivedUp ==
    ASSUME Inv, NEW c \in Clients, Received(c)
    PROVE  /\ Len(up[c]) \in Nat /\ Arrived(c) \in Seq(Uploads)
           /\ \A d \in Clients \ {c} : up'[d] = up[d]
           /\ \E k \in 0..Len(up[c]) :
                 /\ k = 0 <=> up[c] = <<>>
                 /\ Len(Arrived(c)) = k /\ Len(up'[c]) = Len(up[c]) - k
                 /\ \A j \in 1..k : Arrived(c)[j] = up[c][j]
                 /\ \A j \in 1..Len(up[c]) - k : up'[c][j] = up[c][k + j]
<1>1. up \in [Clients -> Seq(Uploads)]
  BY DEF Inv, TypeInv, NetType
<1>2. PICK s \in Seq(Uploads) : s = up[c]
  BY <1>1
<1>3. PICK k : k = Min({RecvMax, Len(s)})
  OBVIOUS
<1>4. /\ k \in 0..Len(s) /\ (k = 0 <=> s = <<>>)
      /\ SubSeq(s, 1, k) \in Seq(Uploads) /\ Len(SubSeq(s, 1, k)) = k
      /\ Len(SubSeq(s, k + 1, Len(s))) = Len(s) - k
      /\ \A j \in 1..k : SubSeq(s, 1, k)[j] = s[j]
      /\ \A j \in 1..Len(s) - k : SubSeq(s, k + 1, Len(s))[j] = s[k + j]
  BY <1>3, PrefixType
<1>5. Arrived(c) = SubSeq(s, 1, k)
  BY <1>2, <1>3 DEF Arrived
<1>6. /\ up'[c] = SubSeq(s, k + 1, Len(s))
      /\ \A d \in Clients \ {c} : up'[d] = up[d]
  BY <1>1, <1>2, <1>4, <1>5 DEF Received
<1>7. Len(up[c]) \in Nat /\ Arrived(c) \in Seq(Uploads)
  BY <1>2, <1>4, <1>5, LenProperties
<1>8. /\ k \in 0..Len(up[c]) /\ (k = 0 <=> up[c] = <<>>)
      /\ Len(Arrived(c)) = k /\ Len(up'[c]) = Len(up[c]) - k
  BY <1>2, <1>4, <1>5, <1>6
<1>9. /\ \A j \in 1..k : Arrived(c)[j] = up[c][j]
      /\ \A j \in 1..Len(up[c]) - k : up'[c][j] = up[c][k + j]
  BY <1>2, <1>4, <1>5, <1>6
<1> QED
  BY <1>6, <1>7, <1>8, <1>9

LEMMA ReceivedStream ==
    ASSUME Inv, NEW d \in Clients, Received(d), UNCHANGED <<step, sent>>,
           NEW c \in Clients, StreamOf(c), ServerHolds(c)' => ServerHolds(c)
    PROVE  StreamOf(c)'
<1>1. CASE c # d
  <2>1. up'[c] = up[c]
    BY <1>1, ReceivedUp
  <2> QED
    BY <2>1 DEF StreamOf, Base
<1>2. CASE c = d
  <2>1. PICK k \in 0..Len(up[c]) :
          /\ k = 0 <=> up[c] = <<>>
          /\ Len(up'[c]) = Len(up[c]) - k
          /\ \A j \in 1..Len(up[c]) - k : up'[c][j] = up[c][k + j]
    BY <1>2, ReceivedUp
  <2>2. /\ Len(up[c]) \in Nat /\ sent[c] \in Nat
        /\ up[c] \in Seq(Uploads) /\ up' \in [Clients -> Seq(Uploads)]
    BY <1>2, ReceivedUp, ReceivedTypes DEF Inv, TypeInv, NetType, ClientType
  <2>3. up[c] = <<>> => up'[c] = <<>>
    <3>1. up'[c] \in Seq(Uploads)
      BY <2>2
    <3>2. Len(<<>>) = 0
      BY EmptySeq
    <3>3. up[c] = <<>> => Len(up'[c]) = 0
      BY <2>1, <2>2, <3>2
    <3> QED
      BY <3>1, <3>3, EmptySeq
  <2>4. Base(c)' = Base(c) + k
    BY <2>1, <2>2 DEF Base
  <2>5. Base(c) \in Int
    BY <2>2 DEF Base
  <2>6. ASSUME ServerHolds(c), NEW j \in 1..Len(up'[c])
        PROVE  IF IsData(up'[c][j]) THEN up'[c][j] = Unit(c, Base(c)' + j) ELSE j = 1
    <3>1. /\ j \in 1..Len(up[c]) - k /\ k + j \in 1..Len(up[c])
          /\ up'[c][j] = up[c][k + j]
      BY <2>1, <2>2, <2>6
    <3>2. IF IsData(up[c][k + j]) THEN up[c][k + j] = Unit(c, Base(c) + (k + j))
                                  ELSE k + j = 1
      BY <2>6, <3>1 DEF StreamOf
    <3>3. Base(c) + (k + j) = Base(c)' + j
      BY <2>4, <2>5, <3>1
    <3>4. k + j = 1 => j = 1
      BY <2>1, <3>1
    <3> QED
      BY <3>1, <3>2, <3>3, <3>4
  <2> QED
    BY <2>3, <2>6 DEF StreamOf
<1> QED
  BY <1>1, <1>2

LEMMA StreamThread ==
    ASSUME Inv, StreamInv, NEW t \in Threads, Effect(t)
    PROVE  StreamInv'
<1> SUFFICES ASSUME NEW c \in Clients PROVE StreamOf(c)'
  BY DEF StreamInv
<1>1. StreamOf(c) /\ UNCHANGED <<step, sent>>
  BY DEF StreamInv, Effect, FrameOf
<1>2. ServerHolds(c)' => ServerHolds(c)
  BY HoldsBefore
<1>3. CASE UNCHANGED up
  BY <1>1, <1>2, <1>3 DEF StreamOf, Base
<1>4. CASE th[t].pc \in {"command", "data"} /\ Received(th[t].ref)
  <2>1. th[t].ref \in Clients
    BY <1>4 DEF Inv, LocalInv, TypeInv, ServerType, ThreadType
  <2> QED
    BY <1>1, <1>2, <1>4, <2>1, ReceivedStream
<1>5. CASE /\ th[t].pc = "gread" /\ fds[th[t].file].kind = "socket"
           /\ Received(fds[th[t].file].of)
  <2>1. th[t].file \in Fds
    BY <1>5 DEF Inv, LocalInv, HasFile
  <2>2. fds[th[t].file].of \in Clients
    BY <1>5, <2>1, SocketOf DEF Inv, TypeInv, ServerType
  <2> QED
    BY <1>1, <1>2, <1>5, <2>2, ReceivedStream
<1> QED
  BY <1>3, <1>4, <1>5 DEF Effect, StreamsOf

LEMMA HoldsBeforeMain ==
    ASSUME Inv, MainStep, NEW c \in Clients, ServerHolds(c)'
    PROVE  ServerHolds(c)
<1>1. CASE EnterAccept
  <2>1. alive /\ backlog' = backlog /\ th' = th
    BY <1>1 DEF EnterAccept, netVars
  <2>2. fds' = fds \/ fds' = [fds EXCEPT ![LowestFree] = Reserved]
    BY <1>1 DEF EnterAccept
  <2>3. fds \in [Fds -> Objects] /\ Reserved # Socket(c)
    BY DEF Inv, TypeInv, ServerType, Socket, Reserved
  <2>4. \A f \in Fds : fds'[f] = Socket(c) => fds[f] = Socket(c)
    BY <2>2, <2>3
  <2> QED
    BY <2>1, <2>4 DEF ServerHolds
<1>2. CASE Accept
  <2>1. /\ alive /\ th' = th /\ backlog # <<>> /\ backlog' = Tail(backlog)
        /\ fds' = [fds EXCEPT ![nextFd] = Socket(Head(backlog))]
    BY <1>2 DEF Accept
  <2>2. backlog \in Seq(Clients) /\ fds \in [Fds -> Objects]
    BY DEF Inv, TypeInv, NetType, ServerType
  <2>3. Len(backlog) \in Nat \ {0} /\ Head(backlog) = backlog[1]
    BY <2>1, <2>2, HeadTailProperties, EmptySeq
  <2>4. DOMAIN backlog = 1..Len(backlog)
    BY <2>2, LenProperties
  <2>5. Head(backlog) \in Range(backlog)
    BY <2>3, <2>4 DEF Range
  <2>6. Range(Tail(backlog)) \subseteq Range(backlog)
    <3>1. /\ Tail(backlog) \in Seq(Clients) /\ Len(Tail(backlog)) = Len(backlog) - 1
          /\ \A i \in 1..Len(Tail(backlog)) : Tail(backlog)[i] = backlog[i + 1]
      BY <2>1, <2>2, HeadTailProperties
    <3>2. DOMAIN Tail(backlog) = 1..Len(Tail(backlog))
      BY <3>1, LenProperties
    <3>3. \A i \in 1..Len(Tail(backlog)) : i + 1 \in 1..Len(backlog)
      BY <2>3, <3>1
    <3> QED
      BY <2>4, <3>1, <3>2, <3>3 DEF Range
  <2>7. \A f \in Fds : fds'[f] = Socket(c) => fds[f] = Socket(c) \/ c \in Range(backlog)
    BY <2>1, <2>2, <2>5 DEF Socket
  <2> QED
    BY <2>1, <2>6, <2>7 DEF ServerHolds
<1>3. CASE CreateThread
  <2>1. alive /\ UNCHANGED <<backlog, fds>> /\ main = "create"
        /\ (th' = th \/ Goto(accepts, "start"))
    BY <1>3 DEF CreateThread, netVars
  <2>2. th \in [Threads -> ThreadType] /\ accepts \in Threads
    BY <2>1 DEF Inv, TypeInv, ServerType, MainInv, Threads
  <2>3. \A u \in Threads : th'[u].ref = th[u].ref
    BY <2>1, <2>2, GotoTypes DEF ThreadLocations
  <2> QED
    BY <2>1, <2>3 DEF ServerHolds
<1> QED
  BY <1>1, <1>2, <1>3 DEF MainStep

LEMMA StreamMain ==
    ASSUME Inv, StreamInv, MainStep, UNCHANGED clientVars
    PROVE  StreamInv'
<1> SUFFICES ASSUME NEW c \in Clients PROVE StreamOf(c)'
  BY DEF StreamInv
<1>1. StreamOf(c)
  BY DEF StreamInv
<1>2. UNCHANGED <<step, sent, up>>
  BY DEF clientVars, MainStep, EnterAccept, Accept, CreateThread, netVars
<1>3. ServerHolds(c)' => ServerHolds(c)
  BY HoldsBeforeMain
<1> QED
  BY <1>1, <1>2, <1>3 DEF StreamOf, Base

(* A new connection is the server's, the others stay as they are.          *)
LEMMA HoldsBeforeConnect ==
    ASSUME Inv, NEW c \in Clients, NEW d \in Clients \ {c}, Connect(c, alive),
           UNCHANGED serverVars, ServerHolds(d)'
    PROVE  ServerHolds(d)
<1>1. d \in Range(backlog') => d \in Range(backlog)
  <2>1. CASE backlog' = backlog
    BY <2>1
  <2>2. CASE backlog' = Append(backlog, c)
    <3>1. backlog \in Seq(Clients)
      BY DEF Inv, TypeInv, NetType
    <3>2. /\ backlog' \in Seq(Clients) /\ Len(backlog') = Len(backlog) + 1
          /\ backlog'[Len(backlog) + 1] = c
          /\ \A j \in 1..Len(backlog) : backlog'[j] = backlog[j]
      BY <2>2, <3>1, AppendProperties
    <3>3. /\ DOMAIN backlog' = 1..Len(backlog') /\ DOMAIN backlog = 1..Len(backlog)
          /\ Len(backlog) \in Nat
      BY <3>1, <3>2, LenProperties
    <3> QED
      BY <3>2, <3>3 DEF Range
  <2> QED
    BY <2>1, <2>2 DEF Connect
<1> QED
  BY <1>1, ServerUnchanged DEF ServerHolds

LEMMA ClientEffect ==
    ASSUME Inv, NEW c \in Clients, NEW ended, ClientStep(c, ended)
    PROVE  /\ backlog' = backlog /\ step[c] # "connect"
           /\ step'[c] \notin {"connect", "command"}
           /\ \A d \in Clients \ {c} :
                 step'[d] = step[d] /\ up'[d] = up[d] /\ sent'[d] = sent[d]
           /\ \/ up'[c] = up[c] /\ sent'[c] = sent[c]
              \/ /\ step[c] = "command" /\ sent'[c] = sent[c]
                 /\ \E x \in Uploads : ~IsData(x) /\ up'[c] = Append(up[c], x)
              \/ /\ step[c] = "data" /\ sent'[c] = sent[c] + 1
                 /\ up'[c] = IF ended THEN up[c] ELSE Append(up[c], Unit(c, sent[c] + 1))
<1>1. /\ step \in [Clients -> Steps] /\ up \in [Clients -> Seq(Uploads)]
      /\ sent \in [Clients -> Nat] /\ job[c] \in Jobs
  BY DEF Inv, TypeInv, NetType, ClientType
<1>2. CASE SendCommand(c)
  <2>1. PICK x : x = Command(job[c].op, job[c].name, job[c].perm)
    OBVIOUS
  <2>2. x \in Uploads /\ ~IsData(x)
    BY <1>1, <2>1, ClientAssumption DEF Command, Uploads, Requests, IsData, Ops
  <2>3. AfterCommand(c) \notin {"connect", "command"}
    BY DEF AfterCommand
  <2>4. /\ step[c] = "command" /\ UNCHANGED <<backlog, sent>>
        /\ step' = [step EXCEPT ![c] = AfterCommand(c)]
        /\ up' = up \/ up' = [up EXCEPT ![c] = Append(@, x)]
    BY <1>2, <2>1 DEF SendCommand, Then
  <2> QED
    BY <1>1, <2>2, <2>3, <2>4
<1>3. CASE SendData(c, ended)
  BY <1>1, <1>3 DEF SendData
<1>4. CASE DataSent(c) \/ ReceiveData(c, ended) \/ ReceiveReply(c, ended) \/ Close(c)
  <2>1. /\ step[c] \in {"data", "receive", "reply", "close"}
        /\ UNCHANGED <<backlog, up, sent>>
        /\ \/ step' = step
           \/ \E l \in {"close", "done"} : step' = [step EXCEPT ![c] = l]
    BY <1>4 DEF DataSent, ReceiveData, ReceiveReply, Close, Then, netVars
  <2> QED
    BY <1>1, <2>1
<1> QED
  BY <1>2, <1>3, <1>4 DEF ClientStep

LEMMA StreamClient ==
    ASSUME Inv, StreamInv, NEW c \in Clients, ClientActs(c)
    PROVE  StreamInv'
<1> SUFFICES ASSUME NEW d \in Clients PROVE StreamOf(d)'
  BY DEF StreamInv
<1>1. StreamOf(d) /\ StreamOf(c) /\ UNCHANGED <<alive, fds, th>>
  BY ServerUnchanged DEF StreamInv, ClientActs
<1>2. CASE Connect(c, alive)
  <2>1. /\ step[c] = "connect" /\ UNCHANGED <<up, sent>>
        /\ backlog' = backlog \/ backlog' = Append(backlog, c)
        /\ \A e \in Clients \ {c} : step'[e] = step[e]
    BY <1>2 DEF Connect, Then, Inv, TypeInv, ClientType
  <2>2. CASE d = c
    <3>1. up[c] = <<>> /\ sent[c] = 0 /\ Len(<<>>) = 0
      BY <1>1, <2>1, EmptySeq DEF StreamOf
    <3>2. \A j \in 1..Len(up[c]) : FALSE
      BY <3>1
    <3> QED
      BY <2>1, <2>2, <3>1, <3>2 DEF StreamOf
  <2>3. CASE d # c
    <3>1. ServerHolds(d)' => ServerHolds(d)
      BY <1>2, <2>3, HoldsBeforeConnect DEF ClientActs
    <3> QED
      BY <1>1, <2>1, <2>3, <3>1 DEF StreamOf, Base
  <2> QED
    BY <2>2, <2>3
<1>3. CASE ClientStep(c, ~ServerHolds(c))
  <2>1. /\ backlog' = backlog /\ step'[c] \notin {"connect", "command"}
        /\ \A e \in Clients \ {c} :
              step'[e] = step[e] /\ up'[e] = up[e] /\ sent'[e] = sent[e]
    BY <1>3, ClientEffect
  <2>2. ServerHolds(d)' <=> ServerHolds(d)
    BY <1>1, <2>1 DEF ServerHolds
  <2>3. CASE d # c \/ (up'[d] = up[d] /\ sent'[d] = sent[d])
    BY <1>1, <2>1, <2>2, <2>3 DEF StreamOf, Base
  <2>4. up[c] \in Seq(Uploads) /\ Len(up[c]) \in Nat /\ sent[c] \in Nat
    BY LenProperties DEF Inv, TypeInv, NetType, ClientType
  <2>5. ASSUME d = c, step[c] = "command", sent'[c] = sent[c],
               NEW x \in Uploads, ~IsData(x), up'[c] = Append(up[c], x)
        PROVE  StreamOf(d)'
    <3>1. up[c] = <<>> /\ Len(<<>>) = 0
      BY <1>1, <2>5, EmptySeq DEF StreamOf
    <3>2. Len(up'[c]) = 1 /\ up'[c][1] = x
      BY <2>4, <2>5, <3>1, AppendProperties
    <3>3. \A j \in 1..Len(up'[c]) : j = 1 /\ ~IsData(up'[c][j])
      BY <2>5, <3>2
    <3> QED
      BY <2>1, <2>5, <3>3 DEF StreamOf
  <2>6. ASSUME d = c, step[c] = "data", sent'[c] = sent[c] + 1,
               up'[c] = IF ~ServerHolds(c) THEN up[c] ELSE Append(up[c], Unit(c, sent[c] + 1))
        PROVE  StreamOf(d)'
    <3>1. CASE ~ServerHolds(c)
      BY <2>1, <2>2, <2>6, <3>1 DEF StreamOf
    <3>2. CASE ServerHolds(c)
      <4>1. Unit(c, sent[c] + 1) \in Uploads
        BY <2>4 DEF Unit, Uploads, Units
      <4>2. /\ Len(up'[c]) = Len(up[c]) + 1
            /\ up'[c][Len(up[c]) + 1] = Unit(c, sent[c] + 1)
            /\ \A j \in 1..Len(up[c]) : up'[c][j] = up[c][j]
        BY <2>4, <2>6, <3>2, <4>1, AppendProperties
      <4>3. Base(c)' = Base(c) /\ Base(c) \in Int /\ Base(c) + (Len(up[c]) + 1) = sent[c] + 1
        <5>1. Base(c) = sent[c] - Len(up[c]) /\ Base(c)' = sent'[c] - Len(up'[c])
          BY DEF Base
        <5> QED
          BY <2>4, <2>6, <4>2, <5>1
      <4>4. ASSUME NEW j \in 1..Len(up'[c])
            PROVE  IF IsData(up'[c][j]) THEN up'[c][j] = Unit(c, Base(c)' + j) ELSE j = 1
        <5>1. CASE j = Len(up[c]) + 1
          BY <4>2, <4>3, <5>1 DEF IsData, Unit
        <5>2. CASE j \in 1..Len(up[c])
          BY <1>1, <3>2, <4>2, <4>3, <5>2 DEF StreamOf
        <5> QED
          BY <2>4, <4>2, <5>1, <5>2
      <4> QED
        BY <2>1, <2>6, <4>4 DEF StreamOf
    <3> QED
      BY <3>1, <3>2
  <2> QED
    BY <1>3, <2>3, <2>5, <2>6, ClientEffect
<1> QED
  BY <1>2, <1>3 DEF ClientActs

LEMMA StreamStep ==
    ASSUME Inv, StreamInv, [Next]_vars
    PROVE  StreamInv'
<1>1. CASE UNCHANGED vars
  <2>1. UNCHANGED <<step, up, sent, alive, backlog, fds, th>>
    BY <1>1, NothingChanged, ServerUnchanged
  <2> QED
    BY <2>1 DEF StreamInv, StreamOf, Base, ServerHolds
<1> QED
  BY <1>1, StreamThread, StreamMain, StreamClient, StepCases
-----------------------------------------------------------------------------
(* No two threads have been created for the same connection.               *)
LEMMA MineDistinct ==
    ASSUME Inv, NEW t \in Threads, NEW u \in Threads, mine[t] = mine[u],
           th[t].pc # "new", th[u].pc # "new" \/ u = accepts
    PROVE  t = u
<1>1. accepts \in Nat /\ t \in Nat \ {0} /\ u \in Nat \ {0}
  BY DEF Inv, TypeInv, ServerType, Threads
<1>2. t <= accepts /\ u <= accepts
  BY <1>1 DEF Inv, MainInv
<1> QED
  BY <1>1, <1>2 DEF Inv, QueueInv

LEMMA OwnThreadStep ==
    ASSUME Inv, Spaced, SpacedInv, OwnInv, NEW t \in Threads, Effect(t), AllOpen'
    PROVE  OwnInv'
<1>1. /\ UNCHANGED <<accepts, client_sock, mine>>
      /\ \A u \in Threads \ {t} : SameLocals(u)
      /\ th[t].pc \notin {"new", "done"} /\ th'[t].pc \notin {"new", "start"}
      /\ th[t].pc # "start" => th'[t].sock = th[t].sock
      /\ th[t].pc = "start" => /\ th'[t].sock = client_sock /\ fds' = fds
                               /\ th'[t].pc = "recv" /\ th'[t].ref = th[t].ref
  BY DEF Effect, FrameOf
<1>2. \A u \in Threads : /\ th[u].pc \notin {"new", "start", "done"} =>
                               th[u].sock \in Fds /\ fds[th[u].sock] = Socket(mine[u])
                         /\ th[u].pc \in HasFile =>
                               th[u].file \in Fds /\ fds[th[u].file] = Open(u)
                         /\ th[u].ref \in {mine[u], Nobody}
  BY DEF OwnInv, OwnThread, Inv, LocalInv
<1>3. th[t].pc = "start" => t = accepts
  BY DEF SpacedInv
<1>4. \A g \in Fds : fds[g] # Free /\ fds'[g] # fds[g] =>
         \/ g = th[t].sock /\ th[t].pc = "close" /\ th'[t].pc = "done"
         \/ g = th[t].file /\ th[t].pc \in HasFile /\ th'[t].pc \notin HasFile
  BY DEF Effect, FdsOf, AllOpen
<1>5. \A c, u : Socket(c) # Free /\ Open(u) # Free /\ Socket(c) # Open(u)
  BY DEF Socket, Open, Free
<1>6. \A c, d : Socket(c) = Socket(d) => c = d
  BY DEF Socket
<1>7. \A u, v : Open(u) = Open(v) => u = v
  BY DEF Open
(* The socket of another thread's connection stays open.                   *)
<1>8. ASSUME NEW u \in Threads, u # t, NEW g \in Fds, fds[g] = Socket(mine[u]),
             th[u].pc # "new" \/ u = accepts
      PROVE  fds'[g] = fds[g]
  <2>1. SUFFICES ASSUME fds'[g] # fds[g] PROVE FALSE
    OBVIOUS
  <2>2. CASE g = th[t].sock /\ th[t].pc = "close"
    <3>1. mine[t] = mine[u]
      BY <1>2, <1>6, <1>8, <2>2
    <3> QED
      BY <1>1, <1>8, <3>1, MineDistinct
  <2>3. CASE g = th[t].file /\ th[t].pc \in HasFile
    BY <1>2, <1>5, <1>8, <2>3
  <2> QED
    BY <1>4, <1>5, <1>8, <2>1, <2>2, <2>3
<1>9. OwnThread'
  <2>1. ASSUME NEW u \in Threads, th'[u].pc \notin {"new", "start", "done"}
        PROVE  fds'[th'[u].sock] = Socket(mine[u])
    <3>1. CASE u # t
      <4>1. th'[u].sock = th[u].sock /\ th'[u].pc = th[u].pc
        BY <1>1, <3>1 DEF SameLocals
      <4>2. th[u].sock \in Fds /\ fds[th[u].sock] = Socket(mine[u]) /\ th[u].pc # "new"
        BY <1>2, <2>1, <4>1
      <4> QED
        BY <1>8, <3>1, <4>1, <4>2
    <3>2. CASE u = t /\ th[t].pc = "start"
      BY <1>1, <1>3, <3>2, ConstantTypes DEF OwnInv, Threads
    <3>3. CASE u = t /\ th[t].pc # "start"
      BY <1>1, <1>2, <1>4, <1>5, <2>1, <3>3
    <3> QED
      BY <3>1, <3>2, <3>3
  <2> QED
    BY <1>1, <2>1 DEF OwnThread
<1>10. ASSUME NEW u \in Threads, th'[u].pc \in HasFile
       PROVE  fds'[th'[u].file] = Open(u)
  <2>1. CASE u # t
    <3>1. th'[u].file = th[u].file /\ th[u].pc \in HasFile
      BY <1>1, <1>10, <2>1 DEF SameLocals
    <3>2. th[u].file \in Fds /\ fds[th[u].file] = Open(u)
      BY <1>2, <3>1
    <3>3. ~(th[u].file = th[t].sock /\ th[t].pc = "close")
      BY <1>2, <1>5, <3>2
    <3>4. ~(th[u].file = th[t].file /\ th[t].pc \in HasFile)
      BY <1>2, <1>7, <2>1, <3>2
    <3> QED
      BY <1>4, <1>5, <3>1, <3>2, <3>3, <3>4
  <2>2. CASE u = t
    <3>1. CASE fds'[th'[t].file] = Open(t)
      BY <2>2, <3>1
    <3>2. CASE th[t].pc \in HasFile /\ th'[t].file = th[t].file
      <4>1. th[t].file \in Fds /\ fds[th[t].file] = Open(t)
        BY <1>2, <3>2
      <4>2. ~(th[t].pc = "close")
        BY <3>2 DEF HasFile
      <4> QED
        BY <1>4, <1>5, <1>10, <2>2, <3>2, <4>1, <4>2
    <3> QED
      BY <1>10, <2>2, <3>1, <3>2 DEF Effect, FdsOf
  <2> QED
    BY <2>1, <2>2
<1>11. ASSUME NEW u \in Threads PROVE th'[u].ref \in {mine[u], Nobody}
  <2>1. CASE u # t \/ th'[u].ref \in {Nobody, th[u].ref}
    BY <1>1, <1>2, <2>1 DEF SameLocals
  <2>2. CASE u = t /\ th[t].pc \in {"recv", "wrecv"} /\ fds[th[t].sock] = Socket(th'[t].ref)
    BY <1>2, <1>6, <2>2
  <2> QED
    BY <2>1, <2>2 DEF Effect, FdsOf
<1>12. ASSUME accepts > 0, th'[accepts].pc \in {"new", "start"}
       PROVE  fds'[client_sock] = Socket(mine[accepts])
  <2>1. accepts \in Threads /\ client_sock \in Fds
    BY <1>12 DEF Inv, MainInv, TypeInv, ServerType, Threads
  <2>2. accepts # t
    BY <1>1, <1>12
  <2>3. th[accepts].pc \in {"new", "start"}
    BY <1>1, <1>12, <2>1, <2>2 DEF SameLocals
  <2>4. fds[client_sock] = Socket(mine[accepts])
    BY <1>12, <2>3 DEF OwnInv
  <2> QED
    BY <1>8, <2>1, <2>2, <2>4
<1>13. OwnThread' /\ UNCHANGED <<accepts, client_sock, mine>>
  BY <1>1, <1>9
<1> QED
  BY <1>10, <1>11, <1>12, <1>13 DEF OwnInv, HasFile

LEMMA OwnMainStep ==
    ASSUME Inv, Inv', ReservedInv, OwnInv, MainStep
    PROVE  OwnInv'
<1>1. /\ fds \in [Fds -> Objects] /\ th \in [Threads -> ThreadType]
      /\ accepts \in Nat
  BY DEF Inv, TypeInv, ServerType
<1>2. \A u \in Threads : /\ th[u].pc \notin {"new", "start", "done"} =>
                               th[u].sock \in Fds /\ fds[th[u].sock] = Socket(mine[u])
                         /\ th[u].pc \in HasFile =>
                               th[u].file \in Fds /\ fds[th[u].file] = Open(u)
                         /\ th[u].ref \in {mine[u], Nobody}
  BY DEF OwnInv, OwnThread, Inv, LocalInv
<1>3. /\ \A c : Socket(c) \notin {Free, Reserved}
      /\ \A u : Open(u) \notin {Free, Reserved}
  BY DEF Socket, Open, Free, Reserved
<1>4. accepts > 0 => client_sock \in Fds
  BY DEF Inv, MainInv
<1>5. CASE EnterAccept
  <2>1. UNCHANGED <<accepts, client_sock, mine, th>>
    BY <1>5 DEF EnterAccept
  <2>2. \A g \in Fds : fds[g] # Free => fds'[g] = fds[g]
    <3>1. CASE fds' = fds
      BY <3>1
    <3>2. CASE FreeFds # {} /\ fds' = [fds EXCEPT ![LowestFree] = Reserved]
      <4>1. fds[LowestFree] = Free
        BY <3>2, LowestFreeIsFree
      <4> QED
        BY <1>1, <3>2, <4>1
    <3> QED
      BY <1>5, <3>1, <3>2 DEF EnterAccept
  <2>3. OwnThread'
    BY <1>2, <1>3, <2>1, <2>2 DEF OwnThread
  <2>4. \A u \in Threads : th[u].pc \in HasFile => fds'[th[u].file] = Open(u)
    BY <1>2, <1>3, <2>2
  <2>5. accepts > 0 /\ th[accepts].pc \in {"new", "start"} =>
           fds'[client_sock] = Socket(mine[accepts])
    BY <1>3, <1>4, <2>2 DEF OwnInv
  <2> QED
    BY <1>2, <2>1, <2>3, <2>4, <2>5 DEF OwnInv, HasFile
<1>6. CASE Accept
  <2>1. /\ th' = th /\ accepts' = accepts + 1 /\ client_sock' = nextFd /\ main = "accepting"
        /\ fds' = [fds EXCEPT ![nextFd] = Socket(Head(backlog))]
        /\ mine' = [mine EXCEPT ![accepts + 1] = Head(backlog)]
    BY <1>6 DEF Accept
  <2>2. fds[nextFd] = Reserved /\ nextFd \in Fds
    BY <2>1 DEF ReservedInv, Inv, MainInv
  <2>3. \A g \in Fds : fds[g] # Reserved => fds'[g] = fds[g]
    BY <1>1, <2>1, <2>2
  <2>4. \A u \in Threads : th[u].pc # "new" => mine'[u] = mine[u]
    <3>1. ASSUME NEW u \in Threads, th[u].pc # "new" PROVE u # accepts + 1
      <4>1. u \in Nat /\ ~(u > accepts)
        BY <3>1 DEF Inv, MainInv, Threads
      <4> QED
        BY <1>1, <4>1
    <3>2. mine \in [Threads -> Clients \cup {Nobody}]
      BY DEF Inv, TypeInv, ServerType
    <3> QED
      BY <2>1, <3>1, <3>2
  <2>5. OwnThread'
    BY <1>2, <1>3, <2>1, <2>3, <2>4 DEF OwnThread
  <2>6. \A u \in Threads : th[u].pc \in HasFile => fds'[th[u].file] = Open(u)
    BY <1>2, <1>3, <2>3
  <2>7. \A u \in Threads : th[u].ref \in {mine'[u], Nobody}
    <3>1. ASSUME NEW u \in Threads, th[u].pc = "new" PROVE th[u].ref = Nobody
      BY <3>1 DEF Inv, LocalInv
    <3> QED
      BY <1>2, <2>4, <3>1
  <2>8. accepts' > 0 /\ th[accepts'].pc \in {"new", "start"} =>
           fds'[client_sock'] = Socket(mine'[accepts'])
    <3>1. fds'[nextFd] = Socket(Head(backlog))
      BY <1>1, <2>1, <2>2
    <3>2. mine'[accepts + 1] = Head(backlog)
      <4>1. accepts' \in 0..Cardinality(Clients)
        BY DEF Inv, TypeInv, ServerType
      <4>2. accepts + 1 \in Threads
        BY <1>1, <2>1, <4>1, ConstantTypes DEF Threads
      <4> QED
        BY <2>1, <4>2 DEF Inv, TypeInv, ServerType
    <3> QED
      BY <2>1, <3>1, <3>2
  <2> QED
    BY <2>1, <2>5, <2>6, <2>7, <2>8 DEF OwnInv, HasFile
<1>7. CASE CreateThread
  <2>1. /\ UNCHANGED <<accepts, client_sock, mine, fds>> /\ main = "create"
        /\ th' = th \/ Goto(accepts, "start")
    BY <1>7 DEF CreateThread
  <2>2. accepts \in Threads /\ th[accepts].pc = "new"
    BY <2>1 DEF Inv, MainInv, TypeInv, ServerType, Threads
  <2>3. \A u \in Threads :
           /\ th'[u].sock = th[u].sock /\ th'[u].file = th[u].file /\ th'[u].ref = th[u].ref
           /\ th'[u].pc = th[u].pc \/ (u = accepts /\ th'[u].pc = "start")
    BY <1>1, <2>1, <2>2, GotoTypes DEF ThreadLocations
  <2>4. OwnThread'
    BY <2>1, <2>3 DEF OwnThread, OwnInv
  <2>5. \A u \in Threads : th'[u].pc \in HasFile => fds'[th'[u].file] = Open(u)
    BY <1>2, <2>1, <2>3 DEF HasFile
  <2>6. accepts > 0 => fds'[client_sock] = Socket(mine[accepts])
    BY <2>1, <2>2 DEF OwnInv
  <2> QED
    BY <1>2, <2>1, <2>3, <2>4, <2>5, <2>6 DEF OwnInv, HasFile
<1> QED
  BY <1>5, <1>6, <1>7 DEF MainStep

LEMMA OwnStep ==
    ASSUME Inv, Inv', Spaced, SpacedInv, ReservedInv, AllOpen => OwnInv, [Next]_vars, AllOpen'
    PROVE  OwnInv'
<1>1. CASE \E t \in Threads : Effect(t)
  BY <1>1, AllOpenBefore, OwnThreadStep DEF Effect
<1>2. CASE MainStep
  BY <1>2, AllOpenBeforeMain, OwnMainStep
<1>3. CASE UNCHANGED serverVars
  <2>1. UNCHANGED <<accepts, client_sock, mine, fds, th>>
    BY <1>3, ServerUnchanged
  <2>2. AllOpen
    BY <2>1 DEF AllOpen
  <2> QED
    BY <2>1, <2>2 DEF OwnInv, OwnThread, HasFile
<1> QED
  BY <1>1, <1>2, <1>3, StepCases, NothingChanged DEF ClientActs
-----------------------------------------------------------------------------
LEMMA RunExtends ==
    ASSUME NEW s \in Seq(Uploads), NEW a \in Seq(Uploads), NEW c, NEW base \in Int,
           Run(s, c, base), \A j \in 1..Len(a) : a[j] = Unit(c, base + j)
    PROVE  Run(s \o a, c, base + Len(a))
<1>1. Len(s) \in Nat /\ Len(a) \in Nat
  BY LenProperties
<1>2. /\ Len(s \o a) = Len(s) + Len(a)
      /\ \A i \in 1..Len(s) + Len(a) :
            (s \o a)[i] = IF i <= Len(s) THEN s[i] ELSE a[i - Len(s)]
  BY ConcatProperties
<1>3. ASSUME NEW i \in 1..Len(s) + Len(a)
      PROVE  (s \o a)[i] = Unit(c, base + Len(a) - (Len(s) + Len(a)) + i)
  <2>1. CASE i <= Len(s)
    <3>1. i \in 1..Len(s) /\ base + Len(a) - (Len(s) + Len(a)) + i = base - Len(s) + i
      BY <1>1, <2>1
    <3>2. s[i] = Unit(c, base - Len(s) + i)
      BY <3>1 DEF Run
    <3> QED
      BY <1>2, <2>1, <3>1, <3>2
  <2>2. CASE i > Len(s)
    <3>1. /\ i - Len(s) \in 1..Len(a) /\ ~(i <= Len(s))
          /\ base + Len(a) - (Len(s) + Len(a)) + i = base + (i - Len(s))
      BY <1>1, <2>2
    <3>2. a[i - Len(s)] = Unit(c, base + (i - Len(s)))
      BY <3>1
    <3> QED
      BY <1>2, <3>1, <3>2
  <2> QED
    BY <1>1, <2>1, <2>2
<1> QED
  BY <1>2, <1>3 DEF Run

LEMMA RunHasOneSource ==
    ASSUME NEW s \in Seq(Uploads), NEW c, NEW base \in Int, Run(s, c, base),
           NEW j \in 1..Len(s) - 1
    PROVE  /\ IsData(s[j]) /\ IsData(s[j+1])
           /\ s[j+1].from = s[j].from /\ s[j+1].num = s[j].num + 1
<1>1. Len(s) \in Nat
  BY LenProperties
<1>2. j \in 1..Len(s) /\ j + 1 \in 1..Len(s)
  BY <1>1
<1>3. s[j] = Unit(c, base - Len(s) + j) /\ s[j+1] = Unit(c, base - Len(s) + (j + 1))
  BY <1>2 DEF Run
<1>4. base - Len(s) + (j + 1) = (base - Len(s) + j) + 1
  BY <1>1
<1> QED
  BY <1>3, <1>4 DEF Unit, IsData

(* The server holds the connection of a thread that has begun.             *)
LEMMA HoldsOwn ==
    ASSUME Inv, OwnInv, alive, NEW u \in Threads, th[u].pc \notin {"new", "start", "done"}
    PROVE  mine[u] \in Clients /\ ServerHolds(mine[u])
<1>1. th[u].sock \in Fds /\ fds[th[u].sock] = Socket(mine[u])
  BY DEF Inv, LocalInv, OwnInv, OwnThread
<1>2. u \in 1..accepts
  BY DEF Inv, MainInv, TypeInv, ServerType, Threads
<1> QED
  BY <1>1, <1>2 DEF ServerHolds, Inv, QueueInv

(* A WRITE's command was the first of what its client sent; only data      *)
(* follow.                                                                 *)
LEMMA CommandThenData ==
    ASSUME Inv, StreamInv, OwnInv, NEW t \in Threads, ReceiveCommand(t),
           th'[t].pc \in Writing, UNCHANGED step
    PROVE  OnlyData(mine[t])'
<1>1. /\ alive /\ th[t].pc = "command" /\ mine' = mine
      /\ th'[t].pc = Dispatch(th'[t].command)
      /\ th'[t].command = Scanned(Arrived(th[t].ref))
      /\ th[t].ref \in Clients /\ Received(th[t].ref)
  BY ReceiveCommandEffect DEF ReceiveCommand, At, mainVars
<1>2. PICK c \in Clients : c = mine[t] /\ c = th[t].ref
  BY <1>1, ConstantTypes DEF OwnInv
<1>3. ServerHolds(c)
  BY <1>1, <1>2 DEF ServerHolds
<1>4. PICK k \in 0..Len(up[c]) :
        /\ k = 0 <=> up[c] = <<>>
        /\ Len(Arrived(c)) = k /\ Len(up'[c]) = Len(up[c]) - k
        /\ \A j \in 1..k : Arrived(c)[j] = up[c][j]
        /\ \A j \in 1..Len(up[c]) - k : up'[c][j] = up[c][k + j]
  BY <1>1, <1>2, ReceivedUp
<1>5. Len(up[c]) \in Nat /\ Arrived(c) \in Seq(Uploads)
  BY <1>1, <1>2, ReceivedUp
<1>6. Scanned(Arrived(c)) # Reply("INVALID")
  BY <1>1, <1>2 DEF Reply, Dispatch, Writing
<1>7. Arrived(c) # <<>>
  BY <1>6 DEF Scanned
<1>8. k >= 1
  <2>1. Len(Arrived(c)) \in Nat \ {0}
    BY <1>5, <1>7, EmptySeq
  <2> QED
    BY <1>4, <2>1
<1>9. step[c] \notin {"connect", "command"}
  BY <1>4, <1>8 DEF StreamInv, StreamOf
<1>10. ASSUME NEW j \in 1..Len(up'[c]) PROVE IsData(up'[c][j])
  <2>1. j \in 1..Len(up[c]) - k /\ k + j \in 1..Len(up[c]) /\ k + j # 1
    BY <1>4, <1>5, <1>8
  <2> QED
    BY <1>3, <1>4, <2>1 DEF StreamInv, StreamOf
<1> QED
  BY <1>1, <1>2, <1>9, <1>10 DEF OnlyData

(* One recv and fwrite add the next units of the client to the file that   *)
(* the thread has opened, and to no other.                                 *)
LEMMA WriteDataRun ==
    ASSUME Inv, StreamInv, OwnInv, NEW t \in Threads, WriteInv(t), WriteData(t),
           UNCHANGED <<step, sent>>
    PROVE  /\ Run(content[th[t].inode], mine[t], Base(mine[t]))'
           /\ OnlyData(mine[t])'
           /\ \A k \in Inodes \ {th[t].inode} : content'[k] = content[k]
<1>1. /\ alive /\ th[t].pc = "data" /\ mine' = mine /\ th'[t].inode = th[t].inode
      /\ th[t].ref \in Clients /\ Received(th[t].ref)
      /\ content' = [k \in Inodes |-> IF k \in FileWritten(t)
                           THEN content[k] \o Arrived(th[t].ref) ELSE content[k]]
  BY WriteDataEffect DEF WriteData, At, mainVars
<1>2. PICK c \in Clients : c = mine[t] /\ c = th[t].ref
  BY <1>1, ConstantTypes DEF OwnInv
<1>3. ServerHolds(c)
  BY <1>1, <1>2 DEF ServerHolds
<1>4. PICK k \in 0..Len(up[c]) :
        /\ Len(Arrived(c)) = k /\ Len(up'[c]) = Len(up[c]) - k
        /\ \A j \in 1..k : Arrived(c)[j] = up[c][j]
        /\ \A j \in 1..Len(up[c]) - k : up'[c][j] = up[c][k + j]
  BY <1>1, <1>2, ReceivedUp
<1>5. Len(up[c]) \in Nat /\ Arrived(c) \in Seq(Uploads) /\ sent[c] \in Nat
  BY <1>1, <1>2, ReceivedUp DEF Inv, TypeInv, ClientType
<1>6. /\ th[t].inode \in Inodes /\ fds[th[t].file] = Open(t)
      /\ th[t].command.op = "WRITE"
  BY <1>1 DEF Inv, LocalInv, HasFile, OpOf, OwnInv
<1>7. FileWritten(t) = {th[t].inode}
  BY <1>6 DEF FileWritten, Open
<1>8. OnlyData(c) /\ Run(content[th[t].inode], c, Base(c))
  BY <1>1, <1>2 DEF WriteInv, Writing, Filling
<1>9. \A j \in 1..Len(up[c]) : up[c][j] = Unit(c, Base(c) + j)
  BY <1>3, <1>8 DEF OnlyData, StreamInv, StreamOf
<1>10. PICK s \in Seq(Uploads) : s = content[th[t].inode]
  BY <1>6 DEF Inv, TypeInv, ServerType
<1>11. Base(c) \in Int /\ Base(c)' = Base(c) + Len(Arrived(c))
  BY <1>4, <1>5 DEF Base
<1>12. \A j \in 1..Len(Arrived(c)) : Arrived(c)[j] = Unit(c, Base(c) + j)
  BY <1>4, <1>5, <1>9
<1>13. Run(s \o Arrived(c), c, Base(c) + Len(Arrived(c)))
  BY <1>5, <1>8, <1>10, <1>11, <1>12, RunExtends
<1>14. content'[th[t].inode] = s \o Arrived(c)
  BY <1>1, <1>2, <1>6, <1>7, <1>10
<1>15. OnlyData(c)'
  BY <1>4, <1>5, <1>8 DEF OnlyData
<1>16. \A i \in Inodes \ {th[t].inode} : content'[i] = content[i]
  BY <1>1, <1>7
<1>17. Run(content[th[t].inode], c, Base(c))'
  <2>1. /\ content'[th'[t].inode] = s \o Arrived(c)
        /\ Base(c)' = Base(c) + Len(Arrived(c))
    BY <1>1, <1>11, <1>14
  <2> QED
    BY <1>13, <2>1 DEF Run
<1> QED
  BY <1>1, <1>2, <1>15, <1>16, <1>17

LEMMA WriteThreadStep ==
    ASSUME Inv, StreamInv, OwnInv, \A u \in Threads : WriteInv(u),
           NEW t \in Threads, Effect(t)
    PROVE  \A u \in Threads : WriteInv(u)'
<1>1. /\ alive /\ UNCHANGED <<step, sent, mine>>
      /\ \A u \in Threads \ {t} : SameLocals(u)
      /\ th[t].pc \notin {"new", "done"}
  BY DEF Effect, FrameOf
<1>2. ~(/\ th[t].pc = "gread" /\ fds[th[t].file].kind = "socket"
        /\ Received(fds[th[t].file].of))
  <2>1. th[t].pc = "gread" => fds[th[t].file] = Open(t)
    BY DEF OwnInv, HasFile
  <2>2. Open(t).kind = "file"
    BY DEF Open
  <2> QED
    BY <2>1, <2>2
<1>3. ASSUME NEW u \in Threads, u # t PROVE WriteInv(u)'
  <2>1. /\ th'[u].pc = th[u].pc /\ th'[u].inode = th[u].inode /\ mine' = mine
        /\ WriteInv(u)
    BY <1>1, <1>3 DEF SameLocals
  <2>2. CASE th[u].pc \notin Writing
    BY <2>1, <2>2 DEF WriteInv, Writing, Filling
  <2>3. CASE th[u].pc \in Writing
    <3>1. mine[u] # mine[t]
      BY <1>1, <1>3, <2>3, MineDistinct DEF Writing
    <3>2. mine[u] \in Clients
      BY <1>1, <2>3, HoldsOwn DEF Writing
    <3>3. up'[mine[u]] = up[mine[u]]
      <4>1. CASE UNCHANGED up
        BY <4>1
      <4>2. CASE th[t].pc \in {"command", "data"} /\ Received(th[t].ref)
        <5>1. th[t].ref \in Clients /\ th[t].ref = mine[t]
          BY <4>2, ConstantTypes DEF Inv, LocalInv, TypeInv, ServerType, ThreadType, OwnInv
        <5> QED
          BY <3>1, <3>2, <4>2, <5>1, ReceivedUp
      <4> QED
        BY <1>2, <4>1, <4>2 DEF Effect, StreamsOf
    <3>4. th[u].pc \in Filling => content' = content
      <4>1. ASSUME th[u].pc \in Filling, WriteOpen(t) \/ WriteData(t) PROVE FALSE
        <5>1. th[t].pc \in {"wopen", "data"}
          BY <4>1 DEF WriteOpen, WriteData, At
        <5>2. InWriteSection(t) /\ InWriteSection(u)
          BY <4>1, <5>1 DEF InWriteSection, Filling
        <5> QED
          BY <1>3, <5>2 DEF Inv, MutexInv
      <4> QED
        BY <4>1 DEF Effect, ContentOf
    <3> QED
      BY <1>1, <2>1, <3>3, <3>4 DEF WriteInv, OnlyData, Run, Base, Writing, Filling
  <2> QED
    BY <2>2, <2>3
<1>4. WriteInv(t)'
  <2>1. CASE WriteData(t)
    BY <1>1, <2>1, WriteDataRun DEF WriteInv
  <2>2. CASE ReceiveCommand(t)
    <3>1. th'[t].pc \notin Filling
      BY <2>2, ReceiveCommandEffect DEF Filling
    <3>2. th'[t].pc \in Writing => OnlyData(mine[t])'
      BY <1>1, <2>2, CommandThenData
    <3> QED
      BY <3>1, <3>2 DEF WriteInv, Filling, Writing
  <2>3. CASE ~WriteData(t) /\ ~ReceiveCommand(t)
    <3>1. UNCHANGED up
      BY <1>2, <2>3 DEF Effect, StreamsOf
    <3>2. th'[t].pc \in Writing => OnlyData(mine[t])'
      <4>1. th'[t].pc \in Writing => OnlyData(mine[t])
        BY <2>3 DEF Effect, ContentOf, WriteInv
      <4> QED
        BY <1>1, <3>1, <4>1 DEF OnlyData
    <3>3. CASE WriteOpen(t)
      <4>1. th'[t].pc \in Filling => content'[th'[t].inode] = <<>>
        <5>1. CASE Moves(t, "wfail")
          BY <5>1 DEF Moves, Filling
        <5>2. CASE ~Moves(t, "wfail")
          <6>1. PICK k \in Inodes :
                  content' = [content EXCEPT ![k] = <<>>] /\ th'[t].inode = k
            BY <3>3, <5>2, WriteOpenEffect
          <6> QED
            BY <6>1 DEF Inv, TypeInv, ServerType
        <5> QED
          BY <5>1, <5>2
      <4>2. Len(<<>>) = 0
        BY EmptySeq
      <4>3. th'[t].pc \in Filling => \A j \in 1..Len(content'[th'[t].inode]) : FALSE
        BY <4>1, <4>2
      <4> QED
        BY <3>2, <4>3 DEF WriteInv, Run, Filling, Writing
    <3>4. CASE ~WriteOpen(t)
      <4>1. UNCHANGED content
        BY <2>3, <3>4 DEF Effect, ContentOf
      <4>2. th'[t].pc \in Filling => th[t].pc \in Filling /\ th'[t].inode = th[t].inode
        BY <3>4 DEF Effect, ContentOf
      <4>3. WriteInv(t)
        OBVIOUS
      <4> QED
        BY <1>1, <3>1, <3>2, <4>1, <4>2, <4>3 DEF WriteInv, Run, Base, Filling, Writing
    <3> QED
      BY <3>3, <3>4
  <2> QED
    BY <2>1, <2>2, <2>3
<1> QED
  BY <1>3, <1>4

LEMMA WriteMainStep ==
    ASSUME Inv, Inv', \A u \in Threads : WriteInv(u), MainStep, UNCHANGED clientVars
    PROVE  \A u \in Threads : WriteInv(u)'
<1> SUFFICES ASSUME NEW u \in Threads PROVE WriteInv(u)'
  OBVIOUS
<1>1. UNCHANGED <<step, sent, up, content>>
  BY DEF clientVars, MainStep, EnterAccept, Accept, CreateThread, netVars, files
<1>2. (th'[u].pc = th[u].pc /\ th'[u].inode = th[u].inode) \/ th'[u].pc = "start"
  <2>1. CASE th' = th
    BY <2>1
  <2>2. CASE main = "create" /\ Goto(accepts, "start")
    <3>1. accepts \in Threads /\ th \in [Threads -> ThreadType]
      BY <2>2 DEF Inv, MainInv, TypeInv, ServerType, Threads
    <3> QED
      BY <2>2, <3>1, GotoTypes DEF ThreadLocations
  <2> QED
    BY <2>1, <2>2 DEF MainStep, EnterAccept, Accept, CreateThread
<1>3. th[u].pc # "new" => mine'[u] = mine[u]
  <2>1. CASE mine' = mine
    BY <2>1
  <2>2. CASE mine' = [mine EXCEPT ![accepts + 1] = Head(backlog)]
    <3>1. mine \in [Threads -> Clients \cup {Nobody}] /\ accepts \in Nat
      BY DEF Inv, TypeInv, ServerType
    <3>2. th[u].pc # "new" => u # accepts + 1
      BY <3>1 DEF Inv, MainInv, Threads
    <3> QED
      BY <2>2, <3>1, <3>2
  <2> QED
    BY <2>1, <2>2 DEF MainStep, EnterAccept, Accept, CreateThread
<1>4. WriteInv(u)
  OBVIOUS
<1> QED
  BY <1>1, <1>2, <1>3, <1>4 DEF WriteInv, OnlyData, Run, Base, Writing, Filling

LEMMA WriteClientStep ==
    ASSUME Inv, OwnInv, alive, \A u \in Threads : WriteInv(u),
           NEW c \in Clients, ClientActs(c)
    PROVE  \A u \in Threads : WriteInv(u)'
<1> SUFFICES ASSUME NEW u \in Threads, th[u].pc \in Writing PROVE WriteInv(u)'
  <2>1. th' = th
    BY ServerUnchanged DEF ClientActs
  <2> QED
    BY <2>1 DEF WriteInv, Writing, Filling
<1>1. UNCHANGED <<mine, th, content>>
  BY ServerUnchanged DEF ClientActs
<1>2. PICK d \in Clients : d = mine[u] /\ ServerHolds(d)
  BY HoldsOwn DEF Writing
<1>3. /\ OnlyData(d)
      /\ th[u].pc \in Filling => Run(content[th[u].inode], d, Base(d))
  BY <1>2 DEF WriteInv
<1>4. CASE step'[d] = step[d] /\ up'[d] = up[d] /\ sent'[d] = sent[d]
  BY <1>1, <1>2, <1>3, <1>4 DEF WriteInv, OnlyData, Run, Base, Writing, Filling
<1>5. CASE d # c
  <2>1. CASE Connect(c, alive)
    BY <1>4, <1>5, <2>1 DEF Connect, Then, Inv, TypeInv, ClientType
  <2>2. CASE ClientStep(c, ~ServerHolds(c))
    BY <1>4, <1>5, <2>2, ClientEffect
  <2> QED
    BY <2>1, <2>2 DEF ClientActs
<1>6. CASE d = c
  <2>1. ClientStep(c, ~ServerHolds(c))
    BY <1>3, <1>6 DEF OnlyData, ClientActs, Connect
  <2>2. /\ step'[d] \notin {"connect", "command"}
        /\ \/ up'[d] = up[d] /\ sent'[d] = sent[d]
           \/ sent'[d] = sent[d] + 1 /\ up'[d] = Append(up[d], Unit(d, sent[d] + 1))
    BY <1>2, <1>3, <1>6, <2>1, ClientEffect DEF OnlyData
  <2>3. up[d] \in Seq(Uploads) /\ Len(up[d]) \in Nat /\ sent[d] \in Nat
    BY LenProperties DEF Inv, TypeInv, NetType, ClientType
  <2>4. CASE up'[d] = up[d] /\ sent'[d] = sent[d]
    BY <1>1, <1>2, <1>3, <2>2, <2>4 DEF WriteInv, OnlyData, Run, Base, Writing, Filling
  <2>5. CASE sent'[d] = sent[d] + 1 /\ up'[d] = Append(up[d], Unit(d, sent[d] + 1))
    <3>1. Unit(d, sent[d] + 1) \in Uploads /\ IsData(Unit(d, sent[d] + 1))
      BY <2>3 DEF Unit, Uploads, Units, IsData
    <3>2. /\ Len(up'[d]) = Len(up[d]) + 1
          /\ up'[d][Len(up[d]) + 1] = Unit(d, sent[d] + 1)
          /\ \A j \in 1..Len(up[d]) : up'[d][j] = up[d][j]
      BY <2>3, <2>5, <3>1, AppendProperties
    <3>3. \A j \in 1..Len(up'[d]) : j = Len(up[d]) + 1 \/ j \in 1..Len(up[d])
      BY <2>3, <3>2
    <3>4. OnlyData(d)'
      BY <1>3, <2>2, <3>1, <3>2, <3>3 DEF OnlyData
    <3>5. Base(d) = sent[d] - Len(up[d]) /\ Base(d)' = sent'[d] - Len(up'[d])
      BY DEF Base
    <3>6. Base(d)' = Base(d)
      BY <2>3, <2>5, <3>2, <3>5
    <3> QED
      BY <1>1, <1>2, <1>3, <3>4, <3>6 DEF WriteInv, Run, Filling, Writing
  <2> QED
    BY <2>2, <2>4, <2>5
<1> QED
  BY <1>5, <1>6

LEMMA OthersKeepSource ==
    ASSUME OneSource, NEW k \in Inodes,
           \A i \in Inodes \ {k} : content'[i] = content[i],
           \A j \in 1..Len(content'[k]) - 1 :
               /\ IsData(content'[k][j]) /\ IsData(content'[k][j+1])
               /\ content'[k][j+1].from = content'[k][j].from
               /\ content'[k][j+1].num = content'[k][j].num + 1
    PROVE  OneSource'
<1> SUFFICES ASSUME NEW i \in Inodes, NEW j \in 1..Len(content'[i]) - 1
             PROVE  /\ IsData(content'[i][j]) /\ IsData(content'[i][j+1])
                    /\ content'[i][j+1].from = content'[i][j].from
                    /\ content'[i][j+1].num = content'[i][j].num + 1
  BY DEF OneSource
<1>1. CASE i = k
  BY <1>1
<1>2. CASE i # k
  <2>1. content'[i] = content[i]
    BY <1>2
  <2>2. j \in 1..Len(content[i]) - 1
    BY <2>1
  <2> QED
    BY <2>1, <2>2 DEF OneSource
<1> QED
  BY <1>1, <1>2

LEMMA SourceStep ==
    ASSUME Inv, Inv', StreamInv, OwnInv, OneSource, alive => \A u \in Threads : WriteInv(u),
           [Next]_vars
    PROVE  OneSource'
<1>1. CASE content' = content
  BY <1>1 DEF OneSource
<1>2. ASSUME NEW t \in Threads, WriteOpen(t), content' # content PROVE OneSource'
  <2>1. PICK k \in Inodes : content' = [content EXCEPT ![k] = <<>>]
    BY <1>2, WriteOpenEffect
  <2>2. Len(<<>>) = 0
    BY EmptySeq
  <2>3. content'[k] = <<>> /\ \A i \in Inodes \ {k} : content'[i] = content[i]
    BY <2>1 DEF Inv, TypeInv, ServerType
  <2>4. \A j \in 1..Len(content'[k]) - 1 : FALSE
    BY <2>2, <2>3
  <2> QED
    BY <2>3, <2>4, OthersKeepSource
<1>3. ASSUME NEW t \in Threads, WriteData(t), UNCHANGED clientVars PROVE OneSource'
  <2>1. PICK k \in Inodes : k = th[t].inode /\ alive /\ th'[t].inode = k
    BY <1>3, WriteDataEffect DEF WriteData, At, Inv, LocalInv, HasFile
  <2>2. UNCHANGED <<step, sent>>
    BY <1>3 DEF clientVars
  <2>3. /\ Run(content[th[t].inode], mine[t], Base(mine[t]))'
        /\ \A i \in Inodes \ {k} : content'[i] = content[i]
    BY <1>3, <2>1, <2>2, WriteDataRun
  <2>4. PICK s \in Seq(Uploads) : s = content'[k]
    BY <1>3, <2>1 DEF Inv, TypeInv, ServerType
  <2>5. PICK base : base = Base(mine[t])'
    OBVIOUS
  <2>6. base \in Int
    <3>1. mine'[t] \in Clients
      <4>1. th[t].pc = "data" /\ mine' = mine
        BY <1>3, WriteDataEffect DEF mainVars
      <4> QED
        BY <2>1, <4>1, HoldsOwn
    <3>2. sent'[mine'[t]] \in Nat /\ Len(up'[mine'[t]]) \in Nat
      BY <1>3, <3>1, LenProperties DEF Inv, TypeInv, ClientType, NetType
    <3> QED
      BY <2>5, <3>2 DEF Base
  <2>7. PICK c : c = mine'[t]
    OBVIOUS
  <2>8. Run(s, c, base)
    BY <2>1, <2>3, <2>4, <2>5, <2>7 DEF Run
  <2>9. \A j \in 1..Len(s) - 1 : /\ IsData(s[j]) /\ IsData(s[j+1])
                                 /\ s[j+1].from = s[j].from /\ s[j+1].num = s[j].num + 1
    BY <2>6, <2>8, RunHasOneSource
  <2>10. content'[k] = s
    BY <2>4
  <2> QED
    BY <2>3, <2>9, <2>10, OthersKeepSource
<1>4. CASE content' # content
  <2>1. ~(MainStep \/ (\E c \in Clients : ClientActs(c)) \/ UNCHANGED vars)
    BY <1>4, NothingChanged, ServerUnchanged
       DEF MainStep, EnterAccept, Accept, CreateThread, files, ClientActs
  <2>2. PICK u \in Threads : ThreadStep(u) /\ Effect(u) /\ UNCHANGED clientVars
    BY <2>1, StepCases
  <2>3. WriteOpen(u) \/ WriteData(u)
    BY <1>4, <2>2 DEF Effect, ContentOf
  <2> QED
    BY <1>2, <1>3, <1>4, <2>2, <2>3
<1> QED
  BY <1>1, <1>4
-----------------------------------------------------------------------------
OwnersInv == OwnInv /\ OneSource /\ (alive => \A t \in Threads : WriteInv(t))

SharedInv ==
    /\ ReservedInv /\ StreamInv
    /\ Spaced => SpacedInv /\ (AllOpen => OwnersInv)

LEMMA AliveAndAllOpenBefore ==
    ASSUME Inv, [Next]_vars
    PROVE  /\ AllOpen' => AllOpen
           /\ alive' => alive
<1>1. CASE \E t \in Threads : Effect(t)
  BY <1>1, AllOpenBefore DEF Effect, FrameOf
<1>2. CASE MainStep
  BY <1>2, AllOpenBeforeMain DEF MainStep, EnterAccept, Accept, CreateThread
<1>3. CASE UNCHANGED serverVars
  BY <1>3, ServerUnchanged DEF AllOpen
<1> QED
  BY <1>1, <1>2, <1>3, StepCases, NothingChanged DEF ClientActs

LEMMA WriteStep ==
    ASSUME Inv, Inv', StreamInv, OwnInv, alive, \A u \in Threads : WriteInv(u), [Next]_vars
    PROVE  \A u \in Threads : WriteInv(u)'
<1>1. CASE UNCHANGED vars
  <2>1. UNCHANGED <<step, up, sent, mine, th, content>>
    BY <1>1, NothingChanged, ServerUnchanged
  <2> QED
    BY <2>1 DEF WriteInv, OnlyData, Run, Base, Writing, Filling
<1> QED
  BY <1>1, WriteThreadStep, WriteMainStep, WriteClientStep, StepCases

LEMMA InitShared ==
    ASSUME Init
    PROVE  SharedInv
<1>1. /\ backlog = <<>> /\ main = "accept" /\ accepts = 0
      /\ up = [c \in Clients |-> <<>>] /\ step = [c \in Clients |-> "connect"]
      /\ sent = [c \in Clients |-> 0]
      /\ th = [t \in Threads |-> NewThread]
      /\ content = [k \in Inodes |-> IF k \in Names
                                     THEN [j \in 1..FileLen |-> Unit(k, j)] ELSE <<>>]
  BY DEF Init, NetInit, ClientInit, ServerInit
<1>2. Len(<<>>) = 0
  BY EmptySeq
<1>3. ReservedInv
  BY <1>1 DEF ReservedInv
<1>4. StreamInv
  <2>1. \A c \in Clients : \A j \in 1..Len(up[c]) : FALSE
    BY <1>1, <1>2
  <2> QED
    BY <1>1, <2>1 DEF StreamInv, StreamOf
<1>5. \A t \in Threads : th[t].pc = "new" /\ th[t].ref = Nobody
  BY <1>1 DEF NewThread
<1>6. SpacedInv
  BY <1>1, <1>2, <1>5 DEF SpacedInv
<1>7. OwnInv
  BY <1>1, <1>5 DEF OwnInv, OwnThread, HasFile
<1>8. \A t \in Threads : WriteInv(t)
  BY <1>5 DEF WriteInv, Writing, Filling
<1>9. OneSource
  <2>1. ASSUME NEW k \in Inodes, NEW j \in 1..Len(content[k]) - 1
        PROVE  /\ IsData(content[k][j]) /\ IsData(content[k][j+1])
               /\ content[k][j+1].from = content[k][j].from
               /\ content[k][j+1].num = content[k][j].num + 1
    <3>1. CASE k \notin Names
      BY <1>1, <1>2, <2>1, <3>1
    <3>2. CASE k \in Names
      <4>1. content[k] = [i \in 1..FileLen |-> Unit(k, i)] /\ FileLen \in Nat
        BY <1>1, <3>2, NetAssumption
      <4>2. \A i \in 1..FileLen : Unit(k, i) \in Uploads
        BY <3>2 DEF Unit, Uploads, Units
      <4>3. content[k] \in Seq(Uploads) /\ Len(content[k]) = FileLen
        BY <4>1, <4>2, IsASeq, LenProperties
      <4>4. j \in 1..FileLen /\ j + 1 \in 1..FileLen
        BY <4>1, <4>3
      <4>5. content[k][j] = Unit(k, j) /\ content[k][j+1] = Unit(k, j + 1)
        BY <4>1, <4>4
      <4> QED
        BY <4>5 DEF Unit, IsData
    <3> QED
      BY <3>1, <3>2
  <2> QED
    BY <2>1 DEF OneSource
<1> QED
  BY <1>3, <1>4, <1>6, <1>7, <1>8, <1>9 DEF SharedInv, OwnersInv

LEMMA SharedInvariance == Spec => []SharedInv
<1>1. Init => SharedInv
  BY InitShared
<1>2. Inv /\ Inv' /\ SharedInv /\ [Next]_vars => SharedInv'
  <2> SUFFICES ASSUME Inv, Inv', SharedInv, [Next]_vars PROVE SharedInv'
    OBVIOUS
  <2>1. ReservedInv' /\ StreamInv'
    BY ReservedStep, StreamStep DEF SharedInv
  <2>2. ASSUME Spaced PROVE SpacedInv'
    BY <2>2, SpacedStep DEF SharedInv
  <2>3. ASSUME Spaced, AllOpen' PROVE OwnersInv'
    <3>1. SpacedInv /\ ReservedInv /\ StreamInv /\ OwnersInv
      BY <2>3, AliveAndAllOpenBefore DEF SharedInv
    <3>2. OwnInv'
      BY <2>3, <3>1, OwnStep DEF OwnersInv
    <3>3. OneSource'
      BY <3>1, SourceStep DEF OwnersInv
    <3>4. alive' => \A t \in Threads : WriteInv(t)'
      BY <3>1, AliveAndAllOpenBefore, WriteStep DEF OwnersInv
    <3> QED
      BY <3>2, <3>3, <3>4 DEF OwnersInv
  <2> QED
    BY <2>1, <2>2, <2>3 DEF SharedInv
<1> QED
  BY <1>1, <1>2, Invariance, PTL DEF Spec

(* handle_client reads main's client_sock, which the next accept           *)
(* overwrites (s.c:83-92, s.c:117). When clients come one at a time and no *)
(* fopen has failed, after which a descriptor is closed twice (s.c:187,    *)
(* s.c:226), every thread keeps to its own connection. A WRITE refused as  *)
(* read-only closes its socket once and is included.                       *)
THEOREM OwnThreadCorrect == Spec => [](Spaced /\ AllOpen => OwnThread)
<1>1. SharedInv => (Spaced /\ AllOpen => OwnThread)
  BY DEF SharedInv, OwnersInv, OwnInv
<1> QED
  BY <1>1, SharedInvariance, PTL

(* Under the same conditions the mutex of write_file (s.c:183-206) does    *)
(* what it is for: a file holds consecutive units of a single client's     *)
(* file, however many clients write it and wherever they are cut off.      *)
THEOREM OneSourceCorrect == Spec => [](Spaced => OneSourceIfAllOpen)
<1>1. SharedInv => (Spaced => OneSourceIfAllOpen)
  BY DEF SharedInv, OwnersInv, OneSourceIfAllOpen, AllOpen
<1> QED
  BY <1>1, SharedInvariance, PTL
=============================================================================
