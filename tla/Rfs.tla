-------------------------------- MODULE Rfs ---------------------------------
(***************************************************************************)
(* The remote file system of Practicum2: the clients of c.c and the server *)
(* of s.c, joined by the connections between them.                         *)
(***************************************************************************)
EXTENDS RfsClient, RfsServer

CONSTANT Spaced      \* do users start a client only once the thread of the
                     \* previous connection has read its argument?

vars == <<netVars, clientVars, serverVars>>

Init == NetInit /\ ClientInit /\ ServerInit

Quiet == backlog = <<>> /\ main = "accepting" /\ \A t \in Threads : th[t].pc # "start"

ClientActs(c) ==
    /\ \/ (Spaced => Quiet \/ ~alive) /\ Connect(c, alive)
       \/ ClientStep(c, ~ServerHolds(c))
    /\ UNCHANGED serverVars

ServerActs ==
    /\ MainStep \/ \E t \in Threads : ThreadStep(t)
    /\ UNCHANGED clientVars

Next == ServerActs \/ \E c \in Clients : ClientActs(c)

Spec == Init /\ [][Next]_vars

(* main and every thread run until they block, and so does every client;   *)
(* users type their commands in the end.                                   *)
FairSpec ==
    /\ Spec
    /\ WF_vars(MainStep /\ UNCHANGED clientVars)
    /\ \A t \in Threads : WF_vars(ThreadStep(t) /\ UNCHANGED clientVars)
    /\ \A c \in Clients : WF_vars(ClientActs(c))
-----------------------------------------------------------------------------
ThreadLocations ==
    {"new", "start", "recv", "command", "close", "done", "stop", "reply", "wstat", "lock",
     "wopen", "wfail", "wrecv", "data", "fclose", "chmod", "unlock", "gopen", "gread",
     "gsend", "gclose", "rmstat", "remove", "ls"}

(* Values in range; in particular no descriptor number outside the table   *)
(* is used, and no more connections are accepted than clients connect.     *)
TypeOK ==
    /\ main \in {"accept", "accepting", "create"}
    /\ accepts \in 0..Cardinality(Clients)
    /\ client_sock \in 0..MaxFd /\ nextFd \in 0..MaxFd
    /\ \A f \in Fds : fds[f] \in {Free, Reserved} \cup {Socket(c) : c \in Clients}
                                 \cup {Open(t) : t \in Threads}
    /\ \A t \in Threads : /\ th[t].pc \in ThreadLocations
                          /\ th[t].ref \in Clients \cup {Nobody}
                          /\ th[t].pc \notin {"new", "start"} => th[t].sock \in Fds
                          /\ th[t].inode \in Inodes \cup {Nobody}
                          /\ th[t].early \in BOOLEAN
    /\ file_mutex \in Threads \cup {Nobody}
    /\ \A n \in Names : dir[n] \in Inodes \cup {Nobody}
    /\ \A k \in Inodes : mode[k] \subseteq RW

InWriteSection(t) ==
    th[t].pc \in {"wopen", "wfail", "wrecv", "data", "fclose", "chmod", "unlock"}

(* "It handles each client connection in a separate thread using the       *)
(* handle_client function." (s.c:36): a thread that has begun uses the     *)
(* connection it was created for, until it closes it.                      *)
OwnThread ==
    \A t \in Threads : th[t].pc \notin {"new", "start", "done"} =>
                          fds[th[t].sock] = Socket(mine[t])

(* "The server uses a mutex lock to ensure thread safety when accessing    *)
(* shared resources, such as files." (readme.md:65): what a file holds is  *)
(* a gapless run of units of a single client's file, or of what it held at *)
(* the start.                                                              *)
OneSource ==
    \A k \in Inodes : \A j \in 1..Len(content[k])-1 :
        /\ IsData(content[k][j]) /\ IsData(content[k][j+1])
        /\ content[k][j+1].from = content[k][j].from
        /\ content[k][j+1].num = content[k][j].num + 1

(* A thread whose fopen fails closes its socket in the handler and again   *)
(* at the end of handle_client; by then the descriptor may be another      *)
(* thread's.  As long as no fopen has failed, files have one source:       *)
(* writers take turns.  A WRITE refused as read-only closes once, and does *)
(* not weaken what this says.                                              *)
AllOpen == \A t \in Threads : ~th[t].early

OneSourceIfAllOpen == AllOpen => OneSource

(* A file without owner write permission keeps its content: a WRITE can be *)
(* overtaken by another's chmod between its test and its fopen, but then   *)
(* fopen fails, and no chmod comes between its fopen and its fclose.       *)
ReadOnlyUnchanged ==
    [][\A k \in Inodes : "w" \notin mode[k] => content'[k] = content[k]]_vars

(* Everyone comes to an end: the clients, the threads, and the mutex is    *)
(* free again, though a WRITE holds it while its client is sending.        *)
EveryoneFinishes ==
    <>(/\ \A c \in Clients : step[c] = "done"
       /\ \A t \in Threads : th[t].pc = "done"
       /\ file_mutex = Nobody)

(* "Write files from the client to the remote server" (readme.md:7): when  *)
(* a WRITE has seen the end of what its client sent, the file it has       *)
(* written is the client's file, all of it.                                *)
WholeFile ==
    \A t \in Threads :
        th[t].pc = "chmod" => content[th[t].inode] = [j \in 1..FileLen |-> Unit(mine[t], j)]

(* "The server program includes error handling for [...] socket            *)
(* communication errors, and invalid commands" and handles them gracefully *)
(* (readme.md:69): only the command made for it, STOP, ends the server.    *)
OnlyStopEnds == ~alive => \E c \in Clients : job[c].op = "STOP"

(* What does end it: a STOP; an accept that finds every descriptor either  *)
(* in a thread that is at work, as its client's socket or the file it has  *)
(* opened, or left open by a connection whose thread could not be created; *)
(* or SIGPIPE from a second send to a client that has closed, which only a *)
(* GET does whose local file cannot be created, unless a socket closed     *)
(* twice has made a thread send to another's client.  So a finished thread *)
(* leaves no descriptor open, and a client that keeps to the protocol does *)
(* not take the server down with it.                                       *)
Working(t) == th[t].pc \notin {"new", "done"}
Uncreated(t) == CreateFails /\ t <= accepts /\ th[t].pc = "new"

InUse == UNION {{f \in Fds : fds[f] \in {Socket(mine[t]), Open(t)}} :
                   t \in {u \in Threads : Working(u)}}
LeftOpen == UNION {{f \in Fds : fds[f] = Socket(mine[t])} :
                      t \in {u \in Threads : Uncreated(u)}}

EndsForAReason ==
    ~alive => \/ \E c \in Clients : job[c].op = "STOP"
              \/ Fds = InUse \cup LeftOpen
              \/ \E c \in Clients :
                    broken[c] /\ (AllOpen => job[c].op = "GET" /\ ~job[c].local)

(* No circle of waits.  A WRITE keeps the mutex while recv waits for its   *)
(* client (s.c:183-206), and a client waits for its thread: as long as no  *)
(* thread has closed its socket in the handler, the mutex is kept only by  *)
(* one that is writing, a thread receives from a client that has something *)
(* to send or to close, and a client that receives is served by a thread   *)
(* that waits for no client, unless its thread could not be created.       *)
WaitsOn(t, c) ==
    /\ alive /\ ~Ready(c)
    /\ th[t].ref = c \/ (th[t].pc = "gread" /\ fds[th[t].file] = Socket(c))

Served(c) ==
    \/ c \in Range(backlog)
    \/ \E t \in 1..accepts :
          /\ mine[t] = c /\ th[t].pc # "done" /\ \A d \in Clients : ~WaitsOn(t, d)
          /\ th[t].pc = "new" => CreateFails \/ (main = "create" /\ t = accepts)

NoCircleOfWaits ==
    AllOpen =>
        /\ \A t \in Threads : At(t, "lock") /\ ~MutexFree => InWriteSection(file_mutex)
        /\ \A t \in Threads, c \in Clients :
              WaitsOn(t, c) => step[c] \in {"command", "data", "close"}
        /\ \A c \in Clients :
              step[c] \in {"receive", "reply"} /\ down[c] = <<>> /\ ServerHolds(c) => Served(c)
=============================================================================
