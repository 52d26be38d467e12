----------------------------- MODULE RfsServer ------------------------------
(***************************************************************************)
(* Practicum2/s.c: main accepts connections and starts a thread for each,  *)
(* handle_client receives a command and carries it out on the files.       *)
(*                                                                         *)
(* Thread k is the one created after the k-th accept.  A step is one call  *)
(* that others can notice: recv, send, stat, fopen, fread, fwrite, fclose, *)
(* chmod, remove, close, lock, unlock.  File descriptors are numbers that  *)
(* accept and fopen take lowest first and close gives back, so a           *)
(* descriptor closed twice, or used after it was closed, may by then be    *)
(* another connection or file, as it may in the code.                      *)
(***************************************************************************)
EXTENDS RfsNet, Functions, FiniteSetsExt

CONSTANTS MaxFd,         \* descriptors main and the threads have to share
          RecvMax,       \* units that fit in a buffer of MAX_BUFFER_SIZE
          CreateFails,   \* may pthread_create fail?
          InitNames,     \* sets of files the server may start with
          InitModes,     \* their owner modes
          Nobody         \* no thread, no client, no file

Threads == 1..Cardinality(Clients)
Fds == 1..MaxFd
Inodes == Names \cup Threads       \* those of Init, those of fopen(..., "wb")

ASSUME ServerAssumption ==
    /\ MaxFd \in Nat /\ RecvMax \in Nat \ {0}
    /\ CreateFails \in BOOLEAN
    /\ Nobody \notin Clients \cup Inodes
    /\ Names \cap Threads = {}
    /\ \A present \in InitNames : present \subseteq Names
    /\ InitModes \subseteq SUBSET RW

VARIABLES alive,        \* the server process runs
          main,         \* where main is
          accepts,      \* how many connections it has accepted
          client_sock,  \* main's variable, which threads get the address of
          nextFd,       \* the descriptor that the pending accept has reserved
          fds,          \* what each descriptor stands for
          th,           \* the threads
          file_mutex,   \* the thread that holds it, or Nobody
          dir,          \* the directory: which inode a name stands for
          content, mode, \* of inodes
          mine          \* which connection thread t was created for

files == <<dir, content, mode>>
mainVars == <<main, accepts, client_sock, nextFd, mine>>
serverVars == <<alive, mainVars, fds, th, file_mutex, files>>

Free == [kind |-> "free"]
Reserved == [kind |-> "reserved"]
Socket(c) == [kind |-> "socket", of |-> c]
Open(t) == [kind |-> "file", of |-> t]      \* what fopen in thread t opened

(* client_sock, command and the rest are handle_client's locals; ref is    *)
(* the connection a blocked recv keeps alive, buf what fread has read.     *)
(* No step reads early: it records that the handler closed client_sock,    *)
(* which handle_client then closes a second time.                          *)
NewThread == [pc |-> "new", sock |-> 0, command |-> Reply("INVALID"), ref |-> Nobody,
              file |-> 0, inode |-> Nobody, pos |-> 0, buf |-> <<>>, early |-> FALSE]

ServerInit ==
    /\ alive = TRUE
    /\ main = "accept"
    /\ accepts = 0
    /\ client_sock = 0
    /\ nextFd = 0
    /\ fds = [f \in Fds |-> Free]
    /\ th = [t \in Threads |-> NewThread]
    /\ file_mutex = Nobody
    /\ dir \in {[n \in Names |-> IF n \in present THEN n ELSE Nobody] : present \in InitNames}
    /\ content = [k \in Inodes |-> IF k \in Names
                                   THEN [j \in 1..FileLen |-> Unit(k, j)] ELSE <<>>]
    /\ mode \in {[k \in Inodes |-> IF k \in Names THEN m[k] ELSE RW] : m \in [Names -> InitModes]}
    /\ mine = [t \in Threads |-> Nobody]

(* The server's end of a connection lives until no descriptor and no       *)
(* blocked recv refers to it; then the client reads end of file.           *)
ServerHolds(c) ==
    alive /\ \/ c \in Range(backlog)
             \/ \E f \in Fds : fds[f] = Socket(c)
             \/ \E t \in Threads : th[t].ref = c

(* UNCHANGED tuples for steps of a thread.                                 *)
KeepsMain == UNCHANGED mainVars
KeepsNet == UNCHANGED netVars
At(t, l) == alive /\ th[t].pc = l
Goto(t, l) == th' = [th EXCEPT ![t].pc = l]
LowestFree == Min({f \in Fds : fds[f] = Free})
FreeFds == {f \in Fds : fds[f] = Free}
Closed_Forgotten(f) == fds
Closed(f) == IF f \in Fds /\ fds[f] # Reserved THEN [fds EXCEPT ![f] = Free] ELSE fds
-----------------------------------------------------------------------------
(* main: accept takes its descriptor when it is called, and only then      *)
(* waits for a connection; with none to be had it fails and main returns.  *)
EnterAccept ==
    /\ alive /\ main = "accept"
    /\ IF FreeFds # {}
       THEN /\ nextFd' = LowestFree
            /\ fds' = [fds EXCEPT ![LowestFree] = Reserved]
            /\ main' = "accepting"
            /\ UNCHANGED alive
       ELSE alive' = FALSE /\ UNCHANGED <<nextFd, fds, main>>
    /\ UNCHANGED <<netVars, accepts, client_sock, mine, th, file_mutex, files>>

Accept ==
    /\ alive /\ main = "accepting"
    /\ backlog # <<>>
    /\ backlog' = Tail(backlog)
    /\ fds' = [fds EXCEPT ![nextFd] = Socket(Head(backlog))]
    /\ client_sock' = nextFd
    /\ accepts' = accepts + 1
    /\ mine' = [mine EXCEPT ![accepts + 1] = Head(backlog)]
    /\ main' = "create"
    /\ UNCHANGED <<up, down, clientClosed, broken, alive, nextFd, th, file_mutex, files>>

(* pthread_create(..., &client_sock).  It returns a positive number when   *)
(* it fails, so the test "< 0" never sees a failure: main goes on.         *)
CreateThread ==
    /\ alive /\ main = "create"
    /\ \/ Goto(accepts, "start")
       \/ CreateFails /\ UNCHANGED th
    /\ main' = "accept"
    /\ UNCHANGED <<netVars, alive, accepts, client_sock, nextFd, mine, fds, file_mutex, files>>
-----------------------------------------------------------------------------
(* handle_client.  It reads main's variable, not a copy made for it.       *)
ReadArg(t) ==
    /\ At(t, "start")
    /\ th' = [th EXCEPT ![t].sock = client_sock, ![t].pc = "recv"]
    /\ KeepsMain /\ KeepsNet /\ UNCHANGED <<alive, fds, file_mutex, files>>

(* recv on something that is no socket fails at once; otherwise the call   *)
(* refers to the connection until it returns.                              *)
CanRecv_Any(f) == fds[f].kind \in {"socket", "file"}
CanRecv(f) == fds[f].kind = "socket"

EnterRecv(t) ==
    /\ At(t, "recv") \/ At(t, "wrecv")
    /\ IF CanRecv(th[t].sock)
       THEN th' = [th EXCEPT ![t].ref = fds[th[t].sock].of,
                             ![t].pc = IF @ = "recv" THEN "command" ELSE "data"]
       ELSE Goto(t, IF th[t].pc = "recv" THEN "close" ELSE "fclose")
    /\ KeepsMain /\ KeepsNet /\ UNCHANGED <<alive, fds, file_mutex, files>>

(* recv returns what has arrived, as much of it as fits, or end of file.   *)
Arrived(c) == SubSeq(up[c], 1, Min({RecvMax, Len(up[c])}))
Ready_NoEndOfFile(c) == up[c] # <<>>
Ready(c) == up[c] # <<>> \/ clientClosed[c]
Received(c) == up' = [up EXCEPT ![c] = SubSeq(@, Len(Arrived(c)) + 1, Len(@))]

(* sscanf: the buffer's first words.  File data that came along with the   *)
(* command is lost, and %o reads on into it: one more octal digit moves    *)
(* the 4 of 644 and 444 to the owner.  With nothing to scan, the command   *)
(* stays uninitialised; it is then taken to be none of the known ones.     *)
ScannedPerm(x, rest) ==
    IF rest # <<>> /\ IsData(Head(rest)) /\ Head(rest).from \in Octal THEN RO ELSE x.perm
Scanned(data) ==
    IF data = <<>> \/ IsData(Head(data)) THEN Reply("INVALID")
    ELSE Command(Head(data).op, Head(data).name, ScannedPerm(Head(data), Tail(data)))

Dispatch(x) == CASE x.op = "WRITE" -> "wstat" [] x.op = "GET" -> "gopen" [] x.op = "RM" -> "rmstat"
                 [] x.op = "LS" -> "ls" [] x.op = "STOP" -> "stop" [] OTHER -> "close"

ReceiveCommand(t) ==
    /\ At(t, "command")
    /\ Ready(th[t].ref)
    /\ Received(th[t].ref)
    /\ LET x == Scanned(Arrived(th[t].ref))
       IN  th' = [th EXCEPT ![t].command = x, ![t].ref = Nobody, ![t].pc = Dispatch(x)]
    /\ KeepsMain
    /\ UNCHANGED <<backlog, down, clientClosed, broken, alive, fds, file_mutex, files>>

(* exit(0): the process ends with whatever its threads were doing.         *)
Stop(t) ==
    /\ At(t, "stop")
    /\ alive' = FALSE
    /\ KeepsMain /\ KeepsNet /\ UNCHANGED <<fds, th, file_mutex, files>>

(* close(client_sock) at the end of handle_client.                         *)
SockToClose_Shared(t) == client_sock
SockToClose(t) == th[t].sock

CloseSocket(t) ==
    /\ At(t, "close")
    /\ fds' = Closed(SockToClose(t))
    /\ Goto(t, "done")
    /\ KeepsMain /\ KeepsNet /\ UNCHANGED <<alive, file_mutex, files>>

(* send(), and the write() of fwrite: EBADF and ENOTSOCK are ignored by    *)
(* all callers, SIGPIPE is not.                                            *)
SentTo(o, data) ==
    IF o.kind = "socket" /\ data # <<>>
    THEN /\ alive' = ~broken[o.of]
         /\ down' = Sent(o.of, data)
         /\ broken' = BrokenBySend(o.of)
    ELSE UNCHANGED <<alive, down, broken>>

Sends(t, data, l) ==
    /\ SentTo(fds[th[t].sock], data)
    /\ th' = [th EXCEPT ![t].pc = l, ![t].buf = <<>>]
    /\ KeepsMain /\ UNCHANGED <<backlog, up, clientClosed, fds, file_mutex, files>>

(* A reply computed by the handlers below, and then return.                *)
SendReply(t) == At(t, "reply") /\ Sends(t, th[t].buf, "close")

Answers(t, text) ==
    /\ th' = [th EXCEPT ![t].buf = <<Reply(text)>>, ![t].pc = "reply"]
    /\ KeepsMain /\ KeepsNet /\ UNCHANGED <<alive, fds, file_mutex>>
-----------------------------------------------------------------------------
Name(t) == th[t].command.name
Exists(n) == dir[n] # Nobody
Writable(n) == "w" \in mode[dir[n]]
Readable(n) == "r" \in mode[dir[n]]

(* fopen failed: close the socket here, and again in handle_client.        *)
CloseEarly(t, l) ==
    /\ fds' = Closed(th[t].sock)
    /\ th' = [th EXCEPT ![t].pc = l, ![t].early = TRUE]
    /\ KeepsMain /\ KeepsNet /\ UNCHANGED <<alive, file_mutex, files>>

(* write_file: the permission test, before the mutex is locked.            *)
WriteStat(t) ==
    /\ At(t, "wstat")
    /\ IF Exists(Name(t)) /\ ~Writable(Name(t))
       THEN Answers(t, "READONLY") /\ UNCHANGED files
       ELSE /\ Goto(t, "lock")
            /\ KeepsMain /\ KeepsNet /\ UNCHANGED <<alive, fds, file_mutex, files>>

MutexFree_Always == TRUE
MutexFree == file_mutex = Nobody

Lock(t) ==
    /\ At(t, "lock")
    /\ MutexFree
    /\ file_mutex' = t
    /\ Goto(t, "wopen")
    /\ KeepsMain /\ KeepsNet /\ UNCHANGED <<alive, fds, files>>

(* fopen(..., "wb") empties an existing file or makes a new one, whose     *)
(* mode is the umask's, readable and writable by the owner.                *)
WriteOpen(t) ==
    /\ At(t, "wopen")
    /\ IF FreeFds # {} /\ (Exists(Name(t)) => Writable(Name(t)))
       THEN LET k == IF Exists(Name(t)) THEN dir[Name(t)] ELSE t
            IN  /\ fds' = [fds EXCEPT ![LowestFree] = Open(t)]
                /\ th' = [th EXCEPT ![t].file = LowestFree, ![t].inode = k, ![t].pc = "wrecv"]
                /\ dir' = [dir EXCEPT ![Name(t)] = k]
                /\ content' = [content EXCEPT ![k] = <<>>]
       ELSE Goto(t, "wfail") /\ UNCHANGED <<fds, dir, content>>
    /\ KeepsMain /\ KeepsNet /\ UNCHANGED <<alive, file_mutex, mode>>

WriteFail(t) == At(t, "wfail") /\ CloseEarly(t, "unlock")

(* recv and fwrite.  The bytes go to whatever the descriptor of the FILE   *)
(* stands for now.                                                         *)
FileWritten(t) ==
    LET o == fds[th[t].file]
    IN  IF o.kind = "file" /\ th[o.of].command.op = "WRITE" THEN {th[o.of].inode} ELSE {}

WriteData(t) ==
    /\ At(t, "data")
    /\ Ready(th[t].ref)
    /\ Received(th[t].ref)
    /\ content' = [k \in Inodes |-> IF k \in FileWritten(t)
                                    THEN content[k] \o Arrived(th[t].ref) ELSE content[k]]
    /\ SentTo(fds[th[t].file], Arrived(th[t].ref))
    /\ th' = [th EXCEPT ![t].ref = Nobody,
                        ![t].pc = IF up[th[t].ref] = <<>> THEN "fclose" ELSE "wrecv"]
    /\ KeepsMain
    /\ UNCHANGED <<backlog, clientClosed, fds, file_mutex, dir, mode>>

(* fclose, of write_file and of get_file.                                  *)
CloseFile(t) ==
    /\ At(t, "fclose") \/ At(t, "gclose")
    /\ fds' = Closed(th[t].file)
    /\ Goto(t, IF th[t].pc = "fclose" THEN "chmod" ELSE "close")
    /\ KeepsMain /\ KeepsNet /\ UNCHANGED <<alive, file_mutex, files>>

Chmod(t) ==
    /\ At(t, "chmod")
    /\ mode' = IF Exists(Name(t)) THEN [mode EXCEPT ![dir[Name(t)]] = th[t].command.perm] ELSE mode
    /\ Goto(t, "unlock")
    /\ KeepsMain /\ KeepsNet /\ UNCHANGED <<alive, fds, file_mutex, dir, content>>

Unlock(t) ==
    /\ At(t, "unlock")
    /\ file_mutex' = Nobody
    /\ Goto(t, "close")
    /\ KeepsMain /\ KeepsNet /\ UNCHANGED <<alive, fds, files>>
-----------------------------------------------------------------------------
(* get_file, without the mutex.                                            *)
GetOpen(t) ==
    /\ At(t, "gopen")
    /\ IF FreeFds # {} /\ Exists(Name(t)) /\ Readable(Name(t))
       THEN /\ fds' = [fds EXCEPT ![LowestFree] = Open(t)]
            /\ th' = [th EXCEPT ![t].file = LowestFree, ![t].inode = dir[Name(t)], ![t].pc = "gread"]
            /\ KeepsMain /\ KeepsNet /\ UNCHANGED <<alive, file_mutex, files>>
       ELSE CloseEarly(t, "close")

(* fread, from whatever the descriptor stands for now.                     *)
Unread(t) ==
    LET o == fds[th[t].file]
    IN  CASE o.kind = "file" /\ th[o.of].command.op = "GET" ->
               SubSeq(content[th[o.of].inode], th[o.of].pos + 1, Len(content[th[o.of].inode]))
          [] o.kind = "socket" -> up[o.of]
          [] OTHER -> <<>>

GetRead(t) ==
    /\ At(t, "gread")
    /\ fds[th[t].file].kind = "socket" => Ready(fds[th[t].file].of)
    /\ LET data == SubSeq(Unread(t), 1, Min({RecvMax, Len(Unread(t))}))
           o == fds[th[t].file]
       IN  /\ th' = [u \in Threads |->
                       IF u = t /\ data = <<>> THEN [th[t] EXCEPT !.pc = "gclose"]
                       ELSE IF u = t THEN [th[t] EXCEPT !.buf = data, !.pc = "gsend",
                                             !.pos = IF o = Open(t) THEN @ + Len(data) ELSE @]
                       ELSE IF o = Open(u) THEN [th[u] EXCEPT !.pos = @ + Len(data)]
                       ELSE th[u]]
           /\ IF o.kind = "socket" THEN Received(o.of) ELSE UNCHANGED up
    /\ KeepsMain
    /\ UNCHANGED <<backlog, down, clientClosed, broken, alive, fds, file_mutex, files>>

GetSend(t) == At(t, "gsend") /\ Sends(t, th[t].buf, "gread")

(* remove_file, without the mutex: a test, and then the removal.           *)
RemoveStat(t) ==
    /\ At(t, "rmstat")
    /\ IF Exists(Name(t)) /\ Writable(Name(t))
       THEN /\ Goto(t, "remove")
            /\ KeepsMain /\ KeepsNet /\ UNCHANGED <<alive, fds, file_mutex, files>>
       ELSE Answers(t, "FAIL") /\ UNCHANGED files

Remove(t) ==
    /\ At(t, "remove")
    /\ Answers(t, IF Exists(Name(t)) THEN "OK" ELSE "FAIL")
    /\ dir' = [dir EXCEPT ![Name(t)] = Nobody]
    /\ UNCHANGED <<content, mode>>

(* check_file_permission.                                                  *)
CheckPermission(t) ==
    /\ At(t, "ls")
    /\ Answers(t, IF ~Exists(Name(t)) THEN "not found"
                  ELSE IF RW \subseteq mode[dir[Name(t)]] THEN "read-write"
                  ELSE IF Readable(Name(t)) THEN "read-only"
                  ELSE "no read permission")
    /\ UNCHANGED files
-----------------------------------------------------------------------------
ThreadStep(t) ==
    \/ ReadArg(t) \/ EnterRecv(t) \/ ReceiveCommand(t) \/ Stop(t) \/ CloseSocket(t)
    \/ SendReply(t) \/ WriteStat(t) \/ Lock(t) \/ WriteOpen(t) \/ WriteFail(t)
    \/ WriteData(t) \/ CloseFile(t) \/ Chmod(t) \/ Unlock(t)
    \/ GetOpen(t) \/ GetRead(t) \/ GetSend(t)
    \/ RemoveStat(t) \/ Remove(t) \/ CheckPermission(t)

MainStep == EnterAccept \/ Accept \/ CreateThread
=============================================================================
