----------------------------- MODULE RfsProofs ------------------------------
(***************************************************************************)
(* Theorems about Rfs, for any set of clients, files, jobs, sizes of the   *)
(* buffers and of the descriptor table, with and without Spaced.           *)
(***************************************************************************)
EXTENDS Rfs, SequenceTheorems, FiniteSetTheorems, NaturalsInduction, TLAPS

Requests == [op : Ops, name : Names, perm : SUBSET RW]
Commands == Requests \cup {Reply("INVALID")}
Units == [op : {"DATA"}, from : Clients \cup Names, num : Nat]
Replies == [op : {"READONLY", "FAIL", "OK", "not found", "read-write", "read-only",
                  "no read permission"}]
Steps == {"connect", "command", "data", "receive", "reply", "close", "done"}
Uploads == Requests \cup Units
Packets == Uploads \cup Replies

ThreadType ==
    [pc : ThreadLocations, sock : 0..MaxFd, command : Commands,
     ref : Clients \cup {Nobody}, file : 0..MaxFd, inode : Inodes \cup {Nobody},
     pos : Nat, buf : Seq(Packets), early : BOOLEAN]

Objects == {Free, Reserved} \cup {Socket(c) : c \in Clients} \cup {Open(t) : t \in Threads}

NetType ==
    /\ backlog \in Seq(Clients)
    /\ up \in [Clients -> Seq(Uploads)]
    /\ down \in [Clients -> Seq(Packets)]
    /\ clientClosed \in [Clients -> BOOLEAN]
    /\ broken \in [Clients -> BOOLEAN]

ClientType ==
    /\ job \in [Clients -> Jobs]
    /\ step \in [Clients -> Steps]
    /\ sent \in [Clients -> Nat]

ServerType ==
    /\ alive \in BOOLEAN
    /\ main \in {"accept", "accepting", "create"}
    /\ accepts \in 0..Cardinality(Clients)
    /\ client_sock \in 0..MaxFd /\ nextFd \in 0..MaxFd
    /\ fds \in [Fds -> Objects]
    /\ th \in [Threads -> ThreadType]
    /\ file_mutex \in Threads \cup {Nobody}
    /\ dir \in [Names -> Inodes \cup {Nobody}]
    /\ content \in [Inodes -> Seq(Uploads)]
    /\ mode \in [Inodes -> SUBSET RW]
    /\ mine \in [Threads -> Clients \cup {Nobody}]

TypeInv == NetType /\ ClientType /\ ServerType

(* A connection is accepted once, and by then its client has connected.    *)
QueueInv ==
    /\ \A i \in 1..accepts : mine[i] \in Clients /\ step[mine[i]] # "connect"
    /\ \A i, j \in 1..accepts : mine[i] = mine[j] => i = j
    /\ \A i \in 1..Len(backlog) : /\ step[backlog[i]] # "connect"
                                  /\ \A j \in 1..accepts : mine[j] # backlog[i]
    /\ \A i, j \in 1..Len(backlog) : backlog[i] = backlog[j] => i = j

MainInv ==
    /\ main = "accepting" => nextFd \in Fds
    /\ accepts > 0 => client_sock \in Fds
    /\ main = "create" => accepts > 0 /\ th[accepts].pc = "new"
    /\ \A t \in Threads : t > accepts => th[t].pc = "new"

(* What a thread's location says of its variables.                         *)
Fresh == {"new", "start", "recv", "command", "wstat", "lock", "wopen", "wfail", "gopen"}
HasFile == {"wrecv", "data", "fclose", "gread", "gsend", "gclose"}

OpOf(l) == IF l \in {"wstat", "lock", "wopen", "wfail", "wrecv", "data", "fclose",
                     "chmod", "unlock"} THEN {"WRITE"}
           ELSE IF l \in {"gopen", "gread", "gsend", "gclose"} THEN {"GET"}
           ELSE IF l \in {"rmstat", "remove"} THEN {"RM"}
           ELSE IF l = "ls" THEN {"LS"}
           ELSE Ops

LocalInv(t) ==
    /\ th[t].command.op \in OpOf(th[t].pc)
    /\ th[t].ref # Nobody <=> th[t].pc \in {"command", "data"}
    /\ th[t].pc \notin {"new", "start"} => th[t].sock \in Fds
    /\ th[t].pc \in HasFile => th[t].file \in Fds /\ th[t].inode \in Inodes
    /\ th[t].pc \in Fresh => th[t].inode = Nobody

(* An open file belongs to a thread between its fopen and its fclose, and  *)
(* one opened for writing has a mode that allows it.                       *)
OpenInv ==
    \A f \in Fds, t \in Threads :
        fds[f] = Open(t) => /\ th[t].pc \in HasFile /\ f = th[t].file
                            /\ th[t].command.op = "WRITE" => "w" \in mode[th[t].inode]

MutexInv == \A t \in Threads : InWriteSection(t) => file_mutex = t

(* The inode that a thread's fopen might make is not in use before.        *)
InodeInv ==
    \A t \in Threads : th[t].inode = Nobody => /\ "w" \in mode[t]
                                               /\ \A n \in Names : dir[n] # t

Inv == /\ TypeInv /\ QueueInv /\ MainInv /\ OpenInv /\ MutexInv /\ InodeInv
       /\ \A t \in Threads : LocalInv(t)
-----------------------------------------------------------------------------
LEMMA ConstantTypes ==
    /\ Cardinality(Clients) \in Nat /\ MaxFd \in Nat /\ RecvMax \in Nat \ {0}
    /\ Threads \subseteq Nat /\ Fds \subseteq Nat
    /\ Names \subseteq Inodes /\ Threads \subseteq Inodes
    /\ Nobody \notin Clients /\ Nobody \notin Inodes /\ Nobody \notin Threads
    /\ Nobody \notin Names
<1>1. Cardinality(Clients) \in Nat
  BY NetAssumption, FS_CardinalityType
<1>2. MaxFd \in Nat /\ RecvMax \in Nat \ {0} /\ Nobody \notin Clients \cup Inodes
  BY ServerAssumption
<1>3. Threads \subseteq Nat /\ Fds \subseteq Nat
  BY <1>1, <1>2 DEF Threads, Fds
<1> QED
  BY <1>1, <1>2, <1>3 DEF Inodes

LEMMA LowestFreeIsFree ==
    ASSUME FreeFds # {}
    PROVE  LowestFree \in Fds /\ fds[LowestFree] = Free
<1> DEFINE R == {ss \in Nat \X Nat : ss[1] < ss[2]}
<1>1. IsWellFoundedOn(R, Nat)
  BY NatLessThanWellFounded DEF OpToRel
<1>2. FreeFds \subseteq Nat
  BY ConstantTypes DEF FreeFds
<1>3. PICK n \in FreeFds : \A k \in FreeFds : ~(<<k, n>> \in R)
  <2> HIDE DEF R
  <2> QED
    BY <1>1, <1>2, WFMin
<1>4. ASSUME NEW k \in FreeFds PROVE n <= k
  <2>1. k \in Nat /\ n \in Nat /\ ~(<<k, n>> \in R)
    BY <1>2, <1>3
  <2>2. ~(k < n)
    BY <2>1
  <2> QED
    BY <2>1, <2>2
<1>5. LowestFree \in FreeFds
  BY <1>4 DEF LowestFree, FreeFds, Min
<1> QED
  BY <1>5 DEF FreeFds
-----------------------------------------------------------------------------
(* The operators of the model.                                             *)

LEMMA LesserOfTwo ==
    ASSUME NEW m \in Nat, NEW n \in Nat
    PROVE  Min({m, n}) = IF m <= n THEN m ELSE n
  BY DEF Min

LEMMA PrefixType ==
    ASSUME NEW S, NEW s \in Seq(S)
    PROVE  LET k == Min({RecvMax, Len(s)})
           IN  /\ k \in 0..Len(s) /\ (k = 0 <=> s = <<>>)
               /\ SubSeq(s, 1, k) \in Seq(S) /\ Len(SubSeq(s, 1, k)) = k
               /\ SubSeq(s, k + 1, Len(s)) \in Seq(S)
               /\ Len(SubSeq(s, k + 1, Len(s))) = Len(s) - k
               /\ \A j \in 1..k : SubSeq(s, 1, k)[j] = s[j]
               /\ \A j \in 1..Len(s) - k : SubSeq(s, k + 1, Len(s))[j] = s[k + j]
<1> DEFINE k == Min({RecvMax, Len(s)})
<1>1. Len(s) \in Nat /\ RecvMax \in Nat \ {0}
  BY ConstantTypes, LenProperties
<1>2. k \in 0..Len(s) /\ (k = 0 <=> Len(s) = 0)
  BY <1>1, LesserOfTwo
<1>3. Len(s) = 0 <=> s = <<>>
  BY EmptySeq, <1>1
<1> HIDE DEF k
<1>4. \A j \in 1..k : s[j] \in S
  BY <1>1, <1>2, ElementOfSeq
<1>5. \A j \in k+1..Len(s) : s[j] \in S
  BY <1>1, <1>2, ElementOfSeq
<1>6. /\ SubSeq(s, 1, k) \in Seq(S) /\ Len(SubSeq(s, 1, k)) = k
      /\ \A j \in 1..k : SubSeq(s, 1, k)[j] = s[j]
  BY <1>1, <1>2, <1>4, SubSeqProperties
<1>7. /\ SubSeq(s, k + 1, Len(s)) \in Seq(S)
      /\ Len(SubSeq(s, k + 1, Len(s))) = Len(s) - k
      /\ \A j \in 1..Len(s) - k : SubSeq(s, k + 1, Len(s))[j] = s[k + j]
  <2>1. k + 1 \in Int /\ Len(s) \in Int
    BY <1>1, <1>2
  <2>2. /\ SubSeq(s, k + 1, Len(s)) \in Seq(S)
        /\ Len(SubSeq(s, k + 1, Len(s))) =
             IF k + 1 <= Len(s) THEN Len(s) - (k + 1) + 1 ELSE 0
        /\ \A j \in 1..Len(s) - (k + 1) + 1 :
             SubSeq(s, k + 1, Len(s))[j] = s[(k + 1) + j - 1]
    BY <1>5, <2>1, SubSeqProperties
  <2> QED
    BY <1>1, <1>2, <2>2
<1> QED
  BY <1>2, <1>3, <1>6, <1>7 DEF k

LEMMA ReceivedTypes ==
    ASSUME NetType, NEW c \in Clients
    PROVE  /\ Arrived(c) \in Seq(Uploads)
           /\ Arrived(c) = <<>> <=> up[c] = <<>>
           /\ Received(c) => up' \in [Clients -> Seq(Uploads)]
<1>1. up[c] \in Seq(Uploads)
  BY DEF NetType
<1>2. Arrived(c) \in Seq(Uploads) /\ Len(Arrived(c)) = Min({RecvMax, Len(up[c])})
  BY <1>1, PrefixType DEF Arrived
<1>3. SubSeq(up[c], Len(Arrived(c)) + 1, Len(up[c])) \in Seq(Uploads)
  BY <1>1, <1>2, PrefixType
<1>4. Len(Arrived(c)) = 0 <=> up[c] = <<>>
  BY <1>1, <1>2, PrefixType
<1>5. Len(Arrived(c)) = 0 <=> Arrived(c) = <<>>
  BY <1>2, EmptySeq
<1> QED
  BY <1>2, <1>3, <1>4, <1>5 DEF Received, NetType

LEMMA ScannedType ==
    ASSUME NEW data \in Seq(Uploads)
    PROVE  Scanned(data) \in Commands
<1>1. CASE data = <<>> \/ IsData(Head(data))
  BY <1>1 DEF Scanned, Commands
<1>2. CASE data # <<>> /\ ~IsData(Head(data))
  <2>1. Head(data) \in Requests
    BY <1>2, HeadTailProperties DEF IsData, Uploads, Units
  <2>2. ScannedPerm(Head(data), Tail(data)) \in SUBSET RW
    BY <2>1 DEF ScannedPerm, Requests, RO, RW
  <2> QED
    BY <1>2, <2>1, <2>2 DEF Scanned, Command, Commands, Requests
<1> QED
  BY <1>1, <1>2

LEMMA DispatchType ==
    ASSUME NEW x \in Commands
    PROVE  /\ x.op \in Ops /\ x.op \in OpOf(Dispatch(x))
           /\ Dispatch(x) \in {"wstat", "gopen", "rmstat", "ls", "stop", "close"}
  BY DEF Commands, Requests, Reply, Ops, OpOf, Dispatch

LEMMA ClosedType ==
    ASSUME fds \in [Fds -> Objects], NEW f
    PROVE  /\ Closed(f) \in [Fds -> Objects]
           /\ \A g \in Fds : Closed(f)[g] = fds[g] \/ (Closed(f)[g] = Free /\ g = f)
           /\ f \in Fds /\ fds[f] # Reserved => Closed(f)[f] = Free
  BY DEF Closed, Objects

LEMMA GotoTypes ==
    ASSUME th \in [Threads -> ThreadType], NEW t \in Threads, NEW l \in ThreadLocations,
           Goto(t, l)
    PROVE  /\ th' \in [Threads -> ThreadType]
           /\ \A u \in Threads \ {t} : th'[u] = th[u]
           /\ th'[t].pc = l
           /\ th'[t].sock = th[t].sock /\ th'[t].command = th[t].command
           /\ th'[t].ref = th[t].ref /\ th'[t].file = th[t].file
           /\ th'[t].inode = th[t].inode /\ th'[t].pos = th[t].pos
           /\ th'[t].buf = th[t].buf /\ th'[t].early = th[t].early
  BY DEF Goto, ThreadType

LEMMA BufTypes ==
    ASSUME th \in [Threads -> ThreadType], NEW t \in Threads, NEW l \in ThreadLocations,
           NEW b \in Seq(Packets),
           th' = [th EXCEPT ![t].buf = b, ![t].pc = l]
    PROVE  /\ th' \in [Threads -> ThreadType]
           /\ \A u \in Threads \ {t} : th'[u] = th[u]
           /\ th'[t].pc = l /\ th'[t].buf = b
           /\ th'[t].sock = th[t].sock /\ th'[t].command = th[t].command
           /\ th'[t].ref = th[t].ref /\ th'[t].file = th[t].file
           /\ th'[t].inode = th[t].inode /\ th'[t].pos = th[t].pos
           /\ th'[t].early = th[t].early
  BY DEF ThreadType

LEMMA SocketOf ==
    ASSUME NEW o \in Objects, o.kind = "socket"
    PROVE  o.of \in Clients /\ o = Socket(o.of)
<1>1. PICK c \in Clients : o = Socket(c)
  BY DEF Objects, Free, Reserved, Open
<1> QED
  BY <1>1 DEF Socket

LEMMA FileOf ==
    ASSUME NEW o \in Objects, o.kind = "file"
    PROVE  \E u \in Threads : o = Open(u)
  BY DEF Objects, Free, Reserved, Socket

LEMMA SentToTypes ==
    ASSUME TypeInv, NEW o \in Objects, NEW data \in Seq(Packets), SentTo(o, data)
    PROVE  /\ alive' \in BOOLEAN
           /\ down' \in [Clients -> Seq(Packets)]
           /\ broken' \in [Clients -> BOOLEAN]
<1>1. CASE o.kind = "socket" /\ data # <<>>
  <2>1. PICK c \in Clients : c = o.of
    BY <1>1, SocketOf
  <2>3. down[c] \o data \in Seq(Packets)
    BY ConcatProperties DEF TypeInv, NetType
  <2>4. down' = Sent(c, data) /\ broken' = BrokenBySend(c) /\ alive' = ~broken[c]
    BY <1>1, <2>1 DEF SentTo
  <2> QED
    BY <2>3, <2>4 DEF Sent, BrokenBySend, TypeInv, NetType
<1>2. CASE ~(o.kind = "socket" /\ data # <<>>)
  BY <1>2 DEF SentTo, TypeInv, NetType, ServerType
<1> QED
  BY <1>1, <1>2
-----------------------------------------------------------------------------
LEMMA InitInv ==
    ASSUME Init
    PROVE  Inv
<1> USE ConstantTypes DEF Init
<1>1. NetType
  BY EmptySeq DEF NetInit, NetType
<1>2. ClientType
  BY DEF ClientInit, ClientType, Steps
<1>3. ServerType
  <2>1. NewThread \in ThreadType
    BY EmptySeq DEF NewThread, ThreadType, ThreadLocations, Commands
  <2>2. content \in [Inodes -> Seq(Uploads)]
    <3>1. ASSUME NEW k \in Names
          PROVE  [j \in 1..FileLen |-> Unit(k, j)] \in Seq(Uploads)
      <4>1. \A j \in 1..FileLen : Unit(k, j) \in Uploads
        BY NetAssumption DEF Unit, Uploads, Units
      <4> QED
        BY <4>1, NetAssumption, IsASeq
    <3> QED
      BY <3>1, EmptySeq DEF ServerInit
  <2>3. dir \in [Names -> Inodes \cup {Nobody}]
    BY DEF ServerInit
  <2>4. mode \in [Inodes -> SUBSET RW]
    BY ServerAssumption DEF ServerInit
  <2> QED
    BY <2>1, <2>2, <2>3, <2>4 DEF ServerInit, ServerType, Objects
<1>4. QueueInv
  BY DEF NetInit, ServerInit, QueueInv
<1>5. th = [t \in Threads |-> NewThread] /\ accepts = 0 /\ main = "accept"
  BY DEF ServerInit
<1>6. MainInv
  BY <1>5 DEF MainInv, NewThread
<1>7. \A t \in Threads : LocalInv(t)
  BY <1>5 DEF LocalInv, NewThread, OpOf, Ops, Reply, HasFile
<1>8. OpenInv
  BY DEF ServerInit, OpenInv, Free, Open
<1>9. MutexInv
  BY <1>5 DEF MutexInv, InWriteSection, NewThread
<1>10. InodeInv
  <2>1. \A t \in Threads : t \notin Names
    BY ServerAssumption
  <2>2. \A t \in Threads : mode[t] = RW
    BY <2>1 DEF ServerInit
  <2>3. \A t \in Threads, n \in Names : dir[n] # t
    BY <2>1 DEF ServerInit
  <2> QED
    BY <2>2, <2>3 DEF InodeInv, RW
<1> QED
  BY <1>1, <1>2, <1>3, <1>4, <1>6, <1>7, <1>8, <1>9, <1>10 DEF Inv, TypeInv

(* What a client that has connected does.                                  *)
LEMMA ClientStepTypes ==
    ASSUME TypeInv, NEW c \in Clients, NEW ended, ClientStep(c, ended)
    PROVE  /\ NetType' /\ ClientType'
           /\ UNCHANGED backlog
           /\ \A d \in Clients : step[d] # "connect" => step'[d] # "connect"
<1> USE DEF TypeInv, NetType, ClientType, Steps
<1> SUFFICES /\ up' \in [Clients -> Seq(Uploads)]
             /\ down' \in [Clients -> Seq(Packets)]
             /\ clientClosed' \in [Clients -> BOOLEAN]
             /\ broken' \in [Clients -> BOOLEAN]
             /\ job' = job /\ step' \in [Clients -> Steps]
             /\ sent' \in [Clients -> Nat]
             /\ UNCHANGED backlog
             /\ \A d \in Clients : step[d] # "connect" => step'[d] # "connect"
  OBVIOUS
<1> job[c] \in Jobs
  OBVIOUS
<1>1. CASE SendCommand(c)
  <2>1. Command(job[c].op, job[c].name, job[c].perm) \in Uploads
    BY ClientAssumption DEF Command, Uploads, Requests
  <2>2. Append(up[c], Command(job[c].op, job[c].name, job[c].perm)) \in Seq(Uploads)
    BY <2>1, AppendProperties
  <2>3. AfterCommand(c) \in Steps /\ AfterCommand(c) # "connect"
    BY DEF AfterCommand, Steps
  <2> QED
    BY <1>1, <2>2, <2>3 DEF SendCommand, Then
<1>2. CASE SendData(c, ended)
  <2>1. Unit(c, sent[c] + 1) \in Uploads
    BY DEF Unit, Uploads, Units
  <2>2. Append(up[c], Unit(c, sent[c] + 1)) \in Seq(Uploads)
    BY <2>1, AppendProperties
  <2> QED
    BY <1>2, <2>2 DEF SendData
<1>3. CASE DataSent(c)
  BY <1>3 DEF DataSent, Then, netVars
<1>4. CASE ReceiveData(c, ended)
  BY <1>4, EmptySeq DEF ReceiveData, Then
<1>5. CASE ReceiveReply(c, ended)
  BY <1>5, EmptySeq DEF ReceiveReply, Then
<1>6. CASE Close(c)
  BY <1>6, EmptySeq DEF Close, ClientClose, Then
<1> QED
  BY <1>1, <1>2, <1>3, <1>4, <1>5, <1>6 DEF ClientStep

LEMMA ClientInv ==
    ASSUME Inv, NEW c \in Clients, ClientActs(c)
    PROVE  Inv'
<1> USE DEF Inv
<1>1. UNCHANGED <<alive, main, accepts, client_sock, nextFd, mine, fds, th, file_mutex,
                  dir, content, mode>>
  BY DEF ClientActs, serverVars, mainVars, files
<1>2. ServerType'
  BY <1>1 DEF TypeInv, ServerType
<1>3. MainInv' /\ OpenInv' /\ MutexInv' /\ InodeInv'
  BY <1>1 DEF MainInv, OpenInv, MutexInv, InWriteSection, InodeInv
<1>4. \A t \in Threads : LocalInv(t)'
  BY <1>1 DEF LocalInv
<1>5. NetType' /\ ClientType' /\ QueueInv'
  <2>1. CASE Connect(c, alive)
    <3>1. /\ backlog \in Seq(Clients) /\ accepts \in Nat
          /\ step \in [Clients -> Steps] /\ step[c] = "connect"
          /\ step'[c] # "connect" /\ \A d \in Clients \ {c} : step'[d] = step[d]
      BY <2>1, ConstantTypes DEF TypeInv, NetType, ClientType, ServerType, Connect, Then
    <3>2. Len(backlog) \in Nat /\ \A j \in 1..Len(backlog) : backlog[j] \in Clients
      BY <3>1, LenProperties, ElementOfSeq
    <3>3. CASE backlog' = backlog
      <4>1. NetType' /\ ClientType'
        BY <2>1, <3>3 DEF TypeInv, NetType, ClientType, Connect, Then, Steps
      <4>2. QueueInv'
        BY <1>1, <3>1, <3>2, <3>3 DEF QueueInv
      <4> QED
        BY <4>1, <4>2
    <3>4. CASE backlog' = Append(backlog, c)
      <4>1. /\ backlog' \in Seq(Clients) /\ Len(backlog') = Len(backlog) + 1
            /\ backlog'[Len(backlog) + 1] = c
            /\ \A j \in 1..Len(backlog) : backlog'[j] = backlog[j]
        BY <3>1, <3>4, AppendProperties
      <4>2. NetType' /\ ClientType'
        BY <2>1, <4>1 DEF TypeInv, NetType, ClientType, Connect, Then, Steps
      <4>3. \A j \in 1..Len(backlog) : backlog[j] # c
        BY <3>1 DEF QueueInv
      <4>4. \A j \in 1..accepts : mine[j] # c
        BY <3>1 DEF QueueInv
      <4>5. QueueInv'
        BY <1>1, <3>1, <3>2, <4>1, <4>3, <4>4 DEF QueueInv
      <4> QED
        BY <4>2, <4>5
    <3> QED
      BY <2>1, <3>3, <3>4 DEF Connect
  <2>2. CASE ClientStep(c, ~ServerHolds(c))
    <3>1. /\ NetType' /\ ClientType' /\ backlog' = backlog
          /\ \A d \in Clients : step[d] # "connect" => step'[d] # "connect"
      BY <2>2, ClientStepTypes
    <3>2. \A i \in 1..Len(backlog) : backlog[i] \in Clients
      BY ElementOfSeq DEF TypeInv, NetType
    <3>3. QueueInv'
      BY <1>1, <3>1, <3>2 DEF QueueInv
    <3> QED
      BY <3>1, <3>3
  <2> QED
    BY <2>1, <2>2 DEF ClientActs
<1> QED
  BY <1>2, <1>3, <1>4, <1>5 DEF TypeInv
-----------------------------------------------------------------------------
LEMMA EnterAcceptInv ==
    ASSUME Inv, EnterAccept, UNCHANGED clientVars
    PROVE  Inv'
<1> USE ConstantTypes DEF Inv, TypeInv
<1>1. UNCHANGED <<backlog, up, down, clientClosed, broken, job, step, sent, accepts,
                  client_sock, mine, th, file_mutex, dir, content, mode>>
  BY DEF EnterAccept, clientVars, netVars, files
<1>2. \/ /\ FreeFds # {} /\ nextFd' = LowestFree
         /\ fds' = [fds EXCEPT ![LowestFree] = Reserved]
         /\ main' = "accepting" /\ alive' = alive
      \/ UNCHANGED <<nextFd, fds, main>> /\ alive' = FALSE
  BY DEF EnterAccept
<1>3. main = "accept"
  BY DEF EnterAccept
<1>4. /\ nextFd' \in 0..MaxFd /\ (main' = "accepting" => nextFd' \in Fds)
      /\ fds' \in [Fds -> Objects] /\ alive' \in BOOLEAN
      /\ main' \in {"accept", "accepting"}
      /\ \A f \in Fds, t \in Threads : fds'[f] = Open(t) => fds[f] = Open(t)
  <2>1. CASE FreeFds # {} /\ nextFd' = LowestFree
             /\ fds' = [fds EXCEPT ![LowestFree] = Reserved]
             /\ main' = "accepting" /\ alive' = alive
    <3>1. LowestFree \in Fds
      BY <2>1, LowestFreeIsFree
    <3> QED
      BY <2>1, <3>1 DEF ServerType, Objects, Reserved, Open, Fds
  <2>2. CASE UNCHANGED <<nextFd, fds, main>> /\ alive' = FALSE
    BY <1>3, <2>2 DEF ServerType
  <2> QED
    BY <1>2, <2>1, <2>2
<1>5. NetType' /\ ClientType' /\ QueueInv'
  BY <1>1 DEF NetType, ClientType, QueueInv
<1>6. ServerType'
  BY <1>1, <1>4 DEF ServerType
<1>7. MainInv' /\ OpenInv' /\ MutexInv' /\ InodeInv'
  BY <1>1, <1>3, <1>4 DEF MainInv, OpenInv, MutexInv, InWriteSection, InodeInv
<1>8. \A t \in Threads : LocalInv(t)'
  BY <1>1 DEF LocalInv
<1> QED
  BY <1>5, <1>6, <1>7, <1>8

LEMMA AcceptInv ==
    ASSUME Inv, Accept, UNCHANGED clientVars
    PROVE  Inv'
<1> USE ConstantTypes DEF Inv, TypeInv
<1>1. UNCHANGED <<up, down, clientClosed, broken, job, step, sent, alive, nextFd, th,
                  file_mutex, dir, content, mode>>
  BY DEF Accept, clientVars, files
<1>2. /\ main = "accepting" /\ main' = "create" /\ backlog # <<>>
      /\ backlog' = Tail(backlog)
      /\ fds' = [fds EXCEPT ![nextFd] = Socket(Head(backlog))]
      /\ client_sock' = nextFd /\ accepts' = accepts + 1
      /\ mine' = [mine EXCEPT ![accepts + 1] = Head(backlog)]
  BY DEF Accept
<1>3. /\ backlog \in Seq(Clients) /\ Len(backlog) \in Nat \ {0}
      /\ Head(backlog) \in Clients /\ Head(backlog) = backlog[1]
      /\ Tail(backlog) \in Seq(Clients) /\ Len(Tail(backlog)) = Len(backlog) - 1
      /\ \A i \in 1..Len(Tail(backlog)) : Tail(backlog)[i] = backlog[i + 1]
  BY <1>2, HeadTailProperties, EmptySeq DEF NetType
<1>4. nextFd \in Fds /\ accepts \in Nat
  BY <1>2 DEF MainInv, ServerType
<1>5. accepts + 1 <= Cardinality(Clients)
  <2> DEFINE g == [i \in 1..accepts + 1 |-> IF i <= accepts THEN mine[i] ELSE Head(backlog)]
  <2>1. g \in [1..accepts + 1 -> Clients]
    BY <1>3, <1>4 DEF QueueInv
  <2>2. ASSUME NEW i \in 1..accepts + 1, NEW j \in 1..accepts + 1, g[i] = g[j]
        PROVE  i = j
    BY <1>3, <1>4, <2>2 DEF QueueInv
  <2>3. g \in Injection(1..accepts + 1, Clients)
    BY <2>1, <2>2 DEF Injection, IsInjective
  <2>4. Cardinality(1..accepts + 1) = accepts + 1
    BY <1>4, FS_Interval
  <2> QED
    BY <2>3, <2>4, NetAssumption, FS_Injection
<1>6. accepts + 1 \in Threads
  BY <1>4, <1>5 DEF Threads
<1>7. /\ mine \in [Threads -> Clients \cup {Nobody}]
      /\ mine'[accepts + 1] = Head(backlog)
      /\ \A i \in 1..accepts : mine'[i] = mine[i]
  BY <1>2, <1>4, <1>5, <1>6 DEF ServerType, Threads
<1>8. QueueInv'
  <2>1. \A i \in 1..accepts' : mine'[i] \in Clients /\ step'[mine'[i]] # "connect"
    <3>1. ASSUME NEW i \in 1..accepts + 1
          PROVE  mine'[i] \in Clients /\ step[mine'[i]] # "connect"
      <4>1. CASE i <= accepts
        <5>1. i \in 1..accepts /\ mine'[i] = mine[i]
          BY <1>4, <1>7, <4>1
        <5> QED
          BY <5>1 DEF QueueInv
      <4>2. CASE i = accepts + 1
        <5>1. mine'[i] = backlog[1] /\ 1 \in 1..Len(backlog) /\ backlog[1] \in Clients
          BY <1>3, <1>7, <4>2
        <5> QED
          BY <5>1 DEF QueueInv
      <4> QED
        BY <1>4, <4>1, <4>2
    <3> QED
      BY <1>1, <1>2, <3>1
  <2>2. ASSUME NEW i \in 1..accepts + 1, NEW j \in 1..accepts + 1, mine'[i] = mine'[j]
        PROVE  i = j
    <3>1. \A k \in 1..accepts + 1 :
            mine'[k] = IF k <= accepts THEN mine[k] ELSE backlog[1]
      BY <1>3, <1>4, <1>7
    <3> QED
      BY <1>3, <1>4, <2>2, <3>1 DEF QueueInv
  <2>3. \A i \in 1..Len(backlog') : step'[backlog'[i]] # "connect"
    BY <1>1, <1>2, <1>3 DEF QueueInv
  <2>4. \A i \in 1..Len(backlog'), j \in 1..accepts' : mine'[j] # backlog'[i]
    BY <1>2, <1>3, <1>4, <1>7 DEF QueueInv
  <2>5. \A i, j \in 1..Len(backlog') : backlog'[i] = backlog'[j] => i = j
    BY <1>2, <1>3 DEF QueueInv
  <2> QED
    BY <1>2, <2>1, <2>2, <2>3, <2>4, <2>5 DEF QueueInv
<1>9. NetType' /\ ClientType'
  BY <1>1, <1>2, <1>3 DEF NetType, ClientType
<1>10. ServerType'
  <2>1. fds' \in [Fds -> Objects]
    BY <1>2, <1>3 DEF ServerType, Objects
  <2>2. mine' \in [Threads -> Clients \cup {Nobody}]
    BY <1>2, <1>3 DEF ServerType
  <2> QED
    BY <1>1, <1>2, <1>4, <1>5, <2>1, <2>2 DEF ServerType
<1>11. MainInv'
  <2>1. th[accepts + 1].pc = "new"
    BY <1>4, <1>6 DEF MainInv
  <2> QED
    BY <1>1, <1>2, <1>4, <2>1 DEF MainInv
<1>12. OpenInv' /\ MutexInv' /\ InodeInv'
  <2>1. \A f \in Fds, t \in Threads : fds'[f] = Open(t) => fds[f] = Open(t)
    BY <1>2 DEF ServerType, Socket, Open
  <2> QED
    BY <1>1, <2>1 DEF OpenInv, MutexInv, InWriteSection, InodeInv
<1>13. \A t \in Threads : LocalInv(t)'
  BY <1>1 DEF LocalInv
<1> QED
  BY <1>8, <1>9, <1>10, <1>11, <1>12, <1>13

LEMMA CreateThreadInv ==
    ASSUME Inv, CreateThread, UNCHANGED clientVars
    PROVE  Inv'
<1> USE ConstantTypes DEF Inv, TypeInv
<1>1. UNCHANGED <<backlog, up, down, clientClosed, broken, job, step, sent, alive, nextFd,
                  accepts, client_sock, mine, fds, file_mutex, dir, content, mode>>
  BY DEF CreateThread, clientVars, netVars, files
<1>2. /\ main = "create" /\ main' = "accept"
      /\ th' = [th EXCEPT ![accepts].pc = "start"] \/ th' = th
  BY DEF CreateThread, Goto
<1>3. /\ th \in [Threads -> ThreadType] /\ accepts \in Threads /\ th[accepts].pc = "new"
      /\ LocalInv(accepts)
  BY <1>2 DEF ServerType, MainInv, Threads
<1>4. /\ th' \in [Threads -> ThreadType]
      /\ \A t \in Threads \ {accepts} : th'[t] = th[t]
      /\ th'[accepts].pc \in {"new", "start"}
      /\ th'[accepts].command = th[accepts].command
      /\ th'[accepts].ref = th[accepts].ref
      /\ th'[accepts].inode = th[accepts].inode
  <2>1. CASE th' = th
    BY <1>3, <2>1
  <2>2. CASE Goto(accepts, "start")
    <3>1. "start" \in ThreadLocations
      BY DEF ThreadLocations
    <3> QED
      BY <1>3, <2>2, <3>1, GotoTypes
  <2> QED
    BY <1>2, <2>1, <2>2 DEF Goto
<1>6. NetType' /\ ClientType' /\ QueueInv'
  BY <1>1 DEF NetType, ClientType, QueueInv
<1>7. ServerType'
  BY <1>1, <1>2, <1>4 DEF ServerType
<1>8. MainInv'
  BY <1>1, <1>2, <1>4 DEF MainInv, Threads
<1>9. \A t \in Threads : LocalInv(t)'
  <2>1. ASSUME NEW t \in Threads, t = accepts PROVE LocalInv(t)'
    <3>1. /\ th[accepts].command.op \in Ops /\ th[accepts].ref = Nobody
          /\ th[accepts].inode = Nobody
      BY <1>3 DEF LocalInv, OpOf, Fresh
    <3> QED
      BY <1>4, <2>1, <3>1 DEF LocalInv, OpOf, HasFile, Fresh
  <2>2. ASSUME NEW t \in Threads, t # accepts PROVE LocalInv(t)'
    BY <1>4, <2>2 DEF LocalInv, OpOf, HasFile, Fresh
  <2> QED
    BY <2>1, <2>2
<1>10. OpenInv'
  BY <1>1, <1>3, <1>4 DEF OpenInv, HasFile
<1>11. MutexInv' /\ InodeInv'
  BY <1>1, <1>3, <1>4 DEF MutexInv, InWriteSection, InodeInv
<1> QED
  BY <1>6, <1>7, <1>8, <1>9, <1>10, <1>11
-----------------------------------------------------------------------------
(* What every step of a thread leaves alone.                               *)
SameLocals(u) ==
    /\ th'[u].pc = th[u].pc /\ th'[u].sock = th[u].sock
    /\ th'[u].command = th[u].command /\ th'[u].ref = th[u].ref
    /\ th'[u].file = th[u].file /\ th'[u].inode = th[u].inode
    /\ th'[u].early = th[u].early

ThreadFrame(t) ==
    /\ UNCHANGED <<clientVars, mainVars, backlog, clientClosed>>
    /\ \A u \in Threads \ {t} : SameLocals(u)
    /\ th[t].pc # "new" /\ th'[t].pc # "new"

LEMMA FrameInv ==
    ASSUME Inv, NEW t \in Threads, ThreadFrame(t), NetType', ServerType',
           LocalInv(t)', OpenInv', MutexInv', InodeInv'
    PROVE  Inv'
<1> USE ConstantTypes DEF Inv, TypeInv
<1>1. /\ UNCHANGED <<job, step, sent, main, accepts, client_sock, nextFd, mine, backlog>>
      /\ \A u \in Threads \ {t} : SameLocals(u)
      /\ th[t].pc # "new" /\ th'[t].pc # "new"
  BY DEF ThreadFrame, clientVars, mainVars
<1>2. ClientType' /\ QueueInv'
  BY <1>1 DEF ClientType, QueueInv
<1>3. MainInv'
  <2>1. \A u \in Threads : th'[u].pc = "new" <=> th[u].pc = "new"
    BY <1>1 DEF SameLocals
  <2>2. main = "create" => accepts \in Threads
    BY DEF MainInv, ServerType, Threads
  <2> QED
    BY <1>1, <2>1, <2>2 DEF MainInv
<1>4. \A u \in Threads : LocalInv(u)'
  <2>1. ASSUME NEW u \in Threads \ {t} PROVE LocalInv(u)'
    BY <1>1 DEF LocalInv, OpOf, HasFile, Fresh, SameLocals
  <2> QED
    BY <2>1
<1> QED
  BY <1>2, <1>3, <1>4

(* Most steps open no file, and leave the modes and the mutex alone.       *)
LEMMA PlainStepInv ==
    ASSUME Inv, NEW t \in Threads, ThreadFrame(t), NetType', ServerType', LocalInv(t)',
           UNCHANGED <<mode, file_mutex>>,
           th'[t].command = th[t].command, th'[t].file = th[t].file,
           th'[t].inode = th[t].inode,
           \A n \in Names : dir'[n] \in {dir[n], Nobody},
           \A f \in Fds, u \in Threads : fds'[f] = Open(u) => fds[f] = Open(u),
           th[t].pc \in HasFile /\ th'[t].pc \notin HasFile =>
               \A f \in Fds : fds'[f] # Open(t),
           InWriteSection(t)' => InWriteSection(t)
    PROVE  Inv'
<1> USE ConstantTypes DEF Inv, TypeInv
<1>1. \A u \in Threads \ {t} : SameLocals(u)
  BY DEF ThreadFrame
<1>2. OpenInv'
  BY <1>1 DEF OpenInv, HasFile, SameLocals
<1>3. MutexInv'
  BY <1>1 DEF MutexInv, InWriteSection, SameLocals
<1>4. InodeInv'
  BY <1>1 DEF InodeInv, SameLocals
<1> QED
  BY <1>2, <1>3, <1>4, FrameInv

LEMMA ReadArgEffect ==
    ASSUME Inv, NEW t \in Threads, ReadArg(t)
    PROVE  /\ th[t].pc = "start"
           /\ th' \in [Threads -> ThreadType]
           /\ \A u \in Threads \ {t} : th'[u] = th[u]
           /\ th'[t].pc = "recv" /\ th'[t].sock = client_sock
           /\ th'[t].command = th[t].command /\ th'[t].ref = th[t].ref
           /\ th'[t].file = th[t].file /\ th'[t].inode = th[t].inode
           /\ th'[t].early = th[t].early
           /\ UNCHANGED <<mainVars, netVars, alive, fds, file_mutex, dir, content, mode>>
<1>1. /\ th' = [th EXCEPT ![t].sock = client_sock, ![t].pc = "recv"]
      /\ th[t].pc = "start"
      /\ UNCHANGED <<mainVars, netVars, alive, fds, file_mutex, dir, content, mode>>
  BY DEF ReadArg, At, KeepsMain, KeepsNet, files
<1>2. "recv" \in ThreadLocations /\ client_sock \in 0..MaxFd /\ th \in [Threads -> ThreadType]
  BY DEF Inv, TypeInv, ThreadLocations, ServerType
<1> QED
  BY <1>1, <1>2 DEF ThreadType

LEMMA ReadArgInv ==
    ASSUME Inv, NEW t \in Threads, ReadArg(t), UNCHANGED clientVars
    PROVE  Inv'
<1> USE ConstantTypes DEF Inv, TypeInv
<1>1. /\ th[t].pc = "start" /\ LocalInv(t)
      /\ th' \in [Threads -> ThreadType]
      /\ \A u \in Threads \ {t} : th'[u] = th[u]
      /\ th'[t].pc = "recv" /\ th'[t].sock = client_sock
      /\ th'[t].command = th[t].command /\ th'[t].ref = th[t].ref
      /\ th'[t].file = th[t].file /\ th'[t].inode = th[t].inode
      /\ UNCHANGED <<mainVars, netVars, alive, fds, file_mutex, dir, content, mode>>
  BY ReadArgEffect
<1>2. client_sock \in Fds
  <2>1. t \in Nat \ {0} /\ accepts \in Nat
    BY DEF Threads, ServerType
  <2>2. ~(t > accepts)
    BY <1>1 DEF MainInv
  <2> QED
    BY <2>1, <2>2 DEF MainInv
<1>3. ThreadFrame(t)
  BY <1>1 DEF ThreadFrame, SameLocals, netVars
<1>4. NetType' /\ ServerType'
  BY <1>1 DEF NetType, ServerType, netVars, mainVars
<1>5. LocalInv(t)'
  BY <1>1, <1>2 DEF LocalInv, OpOf, HasFile, Fresh
<1> QED
  BY <1>1, <1>3, <1>4, <1>5, PlainStepInv DEF HasFile, InWriteSection

LEMMA EnterRecvEffect ==
    ASSUME Inv, NEW t \in Threads, EnterRecv(t)
    PROVE  /\ th' \in [Threads -> ThreadType]
           /\ \A u \in Threads \ {t} : th'[u] = th[u]
           /\ \/ /\ th[t].pc = "recv" /\ th'[t].pc = "command"
                 /\ th'[t].ref \in Clients /\ fds[th[t].sock] = Socket(th'[t].ref)
              \/ /\ th[t].pc = "wrecv" /\ th'[t].pc = "data"
                 /\ th'[t].ref \in Clients /\ fds[th[t].sock] = Socket(th'[t].ref)
              \/ /\ th[t].pc = "recv" /\ th'[t].pc = "close" /\ th'[t].ref = th[t].ref
              \/ /\ th[t].pc = "wrecv" /\ th'[t].pc = "fclose" /\ th'[t].ref = th[t].ref
           /\ th'[t].command = th[t].command /\ th'[t].sock = th[t].sock
           /\ th'[t].file = th[t].file /\ th'[t].inode = th[t].inode
           /\ th'[t].early = th[t].early
           /\ UNCHANGED <<mainVars, netVars, alive, fds, file_mutex, dir, content, mode>>
<1>1. /\ UNCHANGED <<mainVars, netVars, alive, fds, file_mutex, dir, content, mode>>
      /\ th[t].pc \in {"recv", "wrecv"} /\ LocalInv(t)
      /\ th \in [Threads -> ThreadType]
  BY DEF Inv, TypeInv, EnterRecv, At, KeepsMain, KeepsNet, files, ServerType
<1>2. th[t].sock \in Fds /\ fds[th[t].sock] \in Objects
  BY <1>1 DEF LocalInv, Inv, TypeInv, ServerType
<1>3. CASE CanRecv(th[t].sock)
  <2>1. PICK c \in Clients : c = fds[th[t].sock].of /\ fds[th[t].sock] = Socket(c)
    BY <1>2, <1>3, SocketOf DEF CanRecv
  <2>2. PICK l \in ThreadLocations :
          /\ th' = [th EXCEPT ![t].ref = c, ![t].pc = l]
          /\ l = IF th[t].pc = "recv" THEN "command" ELSE "data"
    BY <1>3, <2>1 DEF EnterRecv, ThreadLocations
  <2>3. /\ th' \in [Threads -> ThreadType]
        /\ \A u \in Threads \ {t} : th'[u] = th[u]
        /\ th'[t].pc = l /\ th'[t].ref = c
        /\ th'[t].command = th[t].command /\ th'[t].sock = th[t].sock
        /\ th'[t].file = th[t].file /\ th'[t].inode = th[t].inode
        /\ th'[t].early = th[t].early
    <3>1. th \in [Threads -> ThreadType] /\ c \in Clients \cup {Nobody}
      BY <1>1
    <3>2. th' = [th EXCEPT ![t].ref = c, ![t].pc = l]
      BY <2>2
    <3> QED
      BY <3>1, <3>2 DEF ThreadType
  <2> QED
    BY <1>1, <2>1, <2>2, <2>3
<1>4. CASE ~CanRecv(th[t].sock)
  <2>1. PICK l \in ThreadLocations :
          /\ Goto(t, l)
          /\ l = IF th[t].pc = "recv" THEN "close" ELSE "fclose"
    BY <1>4 DEF EnterRecv, ThreadLocations
  <2> QED
    BY <1>1, <2>1, GotoTypes
<1> QED
  BY <1>3, <1>4

LEMMA EnterRecvInv ==
    ASSUME Inv, NEW t \in Threads, EnterRecv(t), UNCHANGED clientVars
    PROVE  Inv'
<1> USE ConstantTypes DEF Inv, TypeInv
<1>1. /\ UNCHANGED <<mainVars, netVars, alive, fds, file_mutex, dir, content, mode>>
      /\ LocalInv(t)
      /\ th' \in [Threads -> ThreadType]
      /\ \A u \in Threads \ {t} : th'[u] = th[u]
      /\ \/ /\ th[t].pc = "recv" /\ th'[t].pc = "command" /\ th'[t].ref \in Clients
         \/ /\ th[t].pc = "wrecv" /\ th'[t].pc = "data" /\ th'[t].ref \in Clients
         \/ /\ th[t].pc = "recv" /\ th'[t].pc = "close" /\ th'[t].ref = th[t].ref
         \/ /\ th[t].pc = "wrecv" /\ th'[t].pc = "fclose" /\ th'[t].ref = th[t].ref
      /\ th'[t].command = th[t].command /\ th'[t].sock = th[t].sock
      /\ th'[t].file = th[t].file /\ th'[t].inode = th[t].inode
  BY EnterRecvEffect
<1>2. ThreadFrame(t)
  BY <1>1 DEF ThreadFrame, SameLocals, netVars
<1>3. NetType' /\ ServerType'
  BY <1>1 DEF NetType, ServerType, netVars, mainVars
<1>4. LocalInv(t)'
  BY <1>1 DEF LocalInv, OpOf, HasFile, Fresh
<1>5. /\ th[t].pc \in HasFile => th'[t].pc \in HasFile
      /\ InWriteSection(t)' => InWriteSection(t)
  BY <1>1 DEF HasFile, InWriteSection
<1> QED
  BY <1>1, <1>2, <1>3, <1>4, <1>5, PlainStepInv
-----------------------------------------------------------------------------
(* Steps that move a thread from k to l, and change none of its variables  *)
(* but buf and pos.                                                        *)
Moves(t, l) ==
    /\ th' \in [Threads -> ThreadType]
    /\ \A u \in Threads \ {t} : SameLocals(u)
    /\ th'[t].pc = l
    /\ th'[t].sock = th[t].sock /\ th'[t].command = th[t].command
    /\ th'[t].ref = th[t].ref /\ th'[t].file = th[t].file /\ th'[t].inode = th[t].inode
    /\ th[t].early => th'[t].early

WriteSection == {"wopen", "wfail", "wrecv", "data", "fclose", "chmod", "unlock"}

Follows(k, l) ==
    /\ {k, l} \subseteq ThreadLocations \ {"new", "start", "command", "data"}
    /\ OpOf(k) \subseteq OpOf(l)
    /\ l \in HasFile => k \in HasFile
    /\ l \in Fresh => k \in Fresh
    /\ l \in WriteSection => k \in WriteSection

LEMMA GotoMoves ==
    ASSUME Inv, NEW t \in Threads, NEW l \in ThreadLocations, Goto(t, l)
    PROVE  Moves(t, l)
<1>1. th \in [Threads -> ThreadType]
  BY DEF Inv, TypeInv, ServerType
<1> QED
  BY <1>1, GotoTypes DEF Moves, SameLocals

LEMMA BufMoves ==
    ASSUME Inv, NEW t \in Threads, NEW l \in ThreadLocations, NEW b \in Seq(Packets),
           th' = [th EXCEPT ![t].buf = b, ![t].pc = l]
    PROVE  Moves(t, l)
<1>1. th \in [Threads -> ThreadType]
  BY DEF Inv, TypeInv, ServerType
<1> QED
  BY <1>1, BufTypes DEF Moves, SameLocals

LEMMA CloseEarlyEffect ==
    ASSUME Inv, NEW t \in Threads, NEW l \in ThreadLocations, CloseEarly(t, l)
    PROVE  /\ Moves(t, l) /\ th'[t].early
           /\ fds' = Closed(th[t].sock)
           /\ UNCHANGED <<netVars, alive, mainVars, file_mutex, files>>
<1>1. /\ th' = [th EXCEPT ![t].pc = l, ![t].early = TRUE]
      /\ fds' = Closed(th[t].sock)
      /\ UNCHANGED <<netVars, alive, mainVars, file_mutex, files>>
  BY DEF CloseEarly, KeepsMain, KeepsNet
<1>2. th \in [Threads -> ThreadType]
  BY DEF Inv, TypeInv, ServerType
<1>3. /\ th' \in [Threads -> ThreadType]
      /\ \A u \in Threads \ {t} : th'[u] = th[u]
      /\ th'[t].pc = l /\ th'[t].early
      /\ th'[t].sock = th[t].sock /\ th'[t].command = th[t].command
      /\ th'[t].ref = th[t].ref /\ th'[t].file = th[t].file /\ th'[t].inode = th[t].inode
  BY <1>1, <1>2 DEF ThreadType
<1> QED
  BY <1>1, <1>3 DEF Moves, SameLocals

LEMMA MoveInv ==
    ASSUME Inv, NEW t \in Threads, NEW l, Moves(t, l), Follows(th[t].pc, l),
           UNCHANGED <<clientVars, mainVars, backlog, clientClosed>>,
           NetType', alive' \in BOOLEAN, fds' \in [Fds -> Objects],
           UNCHANGED <<file_mutex, content, mode>>,
           dir' \in [Names -> Inodes \cup {Nobody}],
           \A n \in Names : dir'[n] \in {dir[n], Nobody},
           \A f \in Fds, u \in Threads : fds'[f] = Open(u) => fds[f] = Open(u),
           th[t].pc \in HasFile /\ l \notin HasFile => \A f \in Fds : fds'[f] # Open(t)
    PROVE  Inv'
<1>1. ServerType'
  BY DEF Inv, TypeInv, ServerType, Moves, mainVars
<1>2. ThreadFrame(t)
  BY DEF ThreadFrame, Moves, Follows
<1>3. LocalInv(t)
  BY DEF Inv
<1>4. LocalInv(t)'
  <2>1. /\ th'[t].pc = l /\ th'[t].sock = th[t].sock /\ th'[t].command = th[t].command
        /\ th'[t].ref = th[t].ref /\ th'[t].file = th[t].file /\ th'[t].inode = th[t].inode
    BY DEF Moves
  <2>2. th'[t].command.op \in OpOf(th'[t].pc)
    BY <1>3, <2>1 DEF LocalInv, Follows
  <2>3. th'[t].ref = Nobody /\ th'[t].pc \notin {"command", "data"} /\ th'[t].sock \in Fds
    BY <1>3, <2>1 DEF LocalInv, Follows
  <2>4. th'[t].pc \in HasFile => th'[t].file \in Fds /\ th'[t].inode \in Inodes
    BY <1>3, <2>1 DEF LocalInv, Follows
  <2>5. th'[t].pc \in Fresh => th'[t].inode = Nobody
    BY <1>3, <2>1 DEF LocalInv, Follows
  <2> QED
    BY <2>2, <2>3, <2>4, <2>5 DEF LocalInv, OpOf, HasFile, Fresh
<1>5. InWriteSection(t)' => InWriteSection(t)
  BY DEF InWriteSection, Moves, Follows, WriteSection
<1>6. th'[t].pc = l
  BY DEF Moves
<1>7. th'[t].command = th[t].command /\ th'[t].file = th[t].file /\ th'[t].inode = th[t].inode
  BY DEF Moves
<1> QED
  BY <1>1, <1>2, <1>4, <1>5, <1>6, <1>7, PlainStepInv

(* Steps that close the file or the socket.                                *)
LEMMA CloseInv ==
    ASSUME Inv, NEW t \in Threads, NEW l, Moves(t, l), Follows(th[t].pc, l), NEW f,
           fds' = Closed(f),
           th[t].pc \in HasFile => l \in HasFile \/ f = th[t].file,
           UNCHANGED <<clientVars, mainVars, netVars, alive, file_mutex, files>>
    PROVE  Inv'
<1>2. /\ UNCHANGED <<backlog, up, down, clientClosed, broken, alive, file_mutex, dir, content, mode>>
      /\ UNCHANGED <<clientVars, mainVars>>
  BY DEF netVars, files
<1>3. NetType' /\ alive' \in BOOLEAN /\ dir' \in [Names -> Inodes \cup {Nobody}]
  BY <1>2 DEF Inv, TypeInv, NetType, ServerType
<1>4. fds \in [Fds -> Objects]
  BY DEF Inv, TypeInv, ServerType
<1>5. /\ fds' \in [Fds -> Objects]
      /\ \A g \in Fds : fds'[g] = fds[g] \/ (fds'[g] = Free /\ g = f)
      /\ f \in Fds /\ fds[f] # Reserved => fds'[f] = Free
  BY <1>4, ClosedType
<1>6. \A g \in Fds, u \in Threads : fds'[g] = Open(u) => fds[g] = Open(u)
  BY <1>5 DEF Free, Open
<1>7. ASSUME th[t].pc \in HasFile, l \notin HasFile, NEW g \in Fds, fds'[g] = Open(t)
      PROVE  FALSE
  <2>1. fds[g] = Open(t) /\ f = th[t].file
    BY <1>6, <1>7
  <2>2. g = f
    BY <2>1 DEF Inv, OpenInv
  <2>3. fds'[f] = Free
    BY <1>5, <2>1, <2>2 DEF Open, Reserved
  <2> QED
    BY <1>7, <2>2, <2>3 DEF Free, Open
<1> QED
  BY <1>2, <1>3, <1>5, <1>6, <1>7, MoveInv

(* Steps that only move on, or compute a reply.                            *)
LEMMA GotoInv ==
    ASSUME Inv, NEW t \in Threads, NEW l, Moves(t, l), Follows(th[t].pc, l),
           l \notin HasFile => th[t].pc \notin HasFile,
           UNCHANGED <<clientVars, mainVars, netVars, alive, fds, file_mutex, files>>
    PROVE  Inv'
<1>1. /\ UNCHANGED <<backlog, up, down, clientClosed, broken, alive, fds, file_mutex, dir, content, mode>>
      /\ UNCHANGED <<clientVars, mainVars>>
  BY DEF netVars, files
<1>2. NetType' /\ alive' \in BOOLEAN /\ dir' \in [Names -> Inodes \cup {Nobody}]
      /\ fds' \in [Fds -> Objects]
  BY <1>1 DEF Inv, TypeInv, NetType, ServerType
<1> QED
  BY <1>1, <1>2, MoveInv
-----------------------------------------------------------------------------
LEMMA AnswersMoves ==
    ASSUME Inv, NEW t \in Threads, NEW text, Reply(text) \in Replies, Answers(t, text)
    PROVE  Moves(t, "reply")
<1>1. <<Reply(text)>> \in Seq(Packets)
  BY DEF Packets
<1>2. "reply" \in ThreadLocations
  BY DEF ThreadLocations
<1> QED
  BY <1>1, <1>2, BufMoves DEF Answers

LEMMA AnswersInv ==
    ASSUME Inv, NEW t \in Threads, NEW text, Reply(text) \in Replies, Answers(t, text),
           Follows(th[t].pc, "reply"), th[t].pc \notin HasFile,
           UNCHANGED <<clientVars, files>>
    PROVE  Inv'
  BY AnswersMoves, GotoInv DEF Answers, KeepsMain, KeepsNet

LEMMA StopInv ==
    ASSUME Inv, NEW t \in Threads, Stop(t), UNCHANGED clientVars
    PROVE  Inv'
<1>1. /\ th[t].pc = "stop" /\ alive' = FALSE
      /\ UNCHANGED <<backlog, up, down, clientClosed, broken, fds, th, file_mutex, dir,
                     content, mode>>
      /\ UNCHANGED <<clientVars, mainVars>>
  BY DEF Stop, At, KeepsMain, KeepsNet, netVars, files
<1>2. Moves(t, "stop")
  BY <1>1 DEF Moves, SameLocals, Inv, TypeInv, ServerType
<1>3. Follows(th[t].pc, "stop")
  BY <1>1 DEF Follows, ThreadLocations, HasFile, Fresh, WriteSection
<1>4. NetType' /\ alive' \in BOOLEAN /\ dir' \in [Names -> Inodes \cup {Nobody}]
      /\ fds' \in [Fds -> Objects] /\ th[t].pc \notin HasFile
  BY <1>1 DEF Inv, TypeInv, NetType, ServerType, HasFile
<1> QED
  BY <1>1, <1>2, <1>3, <1>4, MoveInv

LEMMA CloseSocketInv ==
    ASSUME Inv, NEW t \in Threads, CloseSocket(t), UNCHANGED clientVars
    PROVE  Inv'
<1>1. /\ th[t].pc = "close" /\ Goto(t, "done") /\ fds' = Closed(th[t].sock)
      /\ UNCHANGED <<clientVars, mainVars, netVars, alive, file_mutex, files>>
  BY DEF CloseSocket, SockToClose, At, KeepsMain, KeepsNet
<1>2. Moves(t, "done") /\ Follows(th[t].pc, "done") /\ th[t].pc \notin HasFile
  BY <1>1, GotoMoves DEF Follows, ThreadLocations, OpOf, HasFile, Fresh, WriteSection
<1> QED
  BY <1>1, <1>2, CloseInv

LEMMA WriteFailInv ==
    ASSUME Inv, NEW t \in Threads, WriteFail(t), UNCHANGED clientVars
    PROVE  Inv'
<1>1. th[t].pc = "wfail" /\ CloseEarly(t, "unlock")
  BY DEF WriteFail, At
<1>2. /\ Moves(t, "unlock") /\ fds' = Closed(th[t].sock)
      /\ UNCHANGED <<clientVars, mainVars, netVars, alive, file_mutex, files>>
  BY <1>1, CloseEarlyEffect DEF ThreadLocations
<1>3. Follows(th[t].pc, "unlock") /\ th[t].pc \notin HasFile
  BY <1>1 DEF Follows, ThreadLocations, OpOf, HasFile, Fresh, WriteSection
<1> QED
  BY <1>1, <1>2, <1>3, CloseInv

LEMMA CloseFileInv ==
    ASSUME Inv, NEW t \in Threads, CloseFile(t), UNCHANGED clientVars
    PROVE  Inv'
<1>1. /\ \/ th[t].pc = "fclose" /\ Goto(t, "chmod")
         \/ th[t].pc = "gclose" /\ Goto(t, "close")
      /\ fds' = Closed(th[t].file)
      /\ UNCHANGED <<clientVars, mainVars, netVars, alive, file_mutex, files>>
  BY DEF CloseFile, At, KeepsMain, KeepsNet
<1>2. Follows("fclose", "chmod") /\ Follows("gclose", "close")
  BY DEF Follows, ThreadLocations, OpOf, Ops, HasFile, Fresh, WriteSection
<1>3. \/ th[t].pc = "fclose" /\ Moves(t, "chmod")
      \/ th[t].pc = "gclose" /\ Moves(t, "close")
  BY <1>1, GotoMoves DEF ThreadLocations
<1> QED
  BY <1>1, <1>2, <1>3, CloseInv DEF HasFile

LEMMA SendsInv ==
    ASSUME Inv, NEW t \in Threads, NEW l, UNCHANGED clientVars,
           Sends(t, th[t].buf, l), Follows(th[t].pc, l),
           l \notin HasFile => th[t].pc \notin HasFile
    PROVE  Inv'
<1>1. /\ SentTo(fds[th[t].sock], th[t].buf)
      /\ th' = [th EXCEPT ![t].pc = l, ![t].buf = <<>>]
      /\ UNCHANGED <<backlog, up, clientClosed, fds, file_mutex, dir, content, mode>>
      /\ UNCHANGED <<clientVars, mainVars>>
  BY DEF Sends, KeepsMain, files
<1>2. th[t].sock \in Fds
  BY DEF Inv, LocalInv, Follows
<1>3. fds[th[t].sock] \in Objects /\ th[t].buf \in Seq(Packets)
  BY <1>2 DEF Inv, TypeInv, ServerType, ThreadType
<1>4. /\ alive' \in BOOLEAN /\ down' \in [Clients -> Seq(Packets)]
      /\ broken' \in [Clients -> BOOLEAN]
  BY <1>1, <1>3, SentToTypes DEF Inv
<1>5. NetType' /\ dir' \in [Names -> Inodes \cup {Nobody}] /\ fds' \in [Fds -> Objects]
  BY <1>1, <1>4 DEF Inv, TypeInv, NetType, ServerType
<1>6. Moves(t, l)
  <2>1. th' = [th EXCEPT ![t].buf = <<>>, ![t].pc = l]
    BY <1>1
  <2>2. l \in ThreadLocations /\ <<>> \in Seq(Packets)
    BY EmptySeq DEF Follows
  <2> QED
    BY <2>1, <2>2, BufMoves
<1> QED
  BY <1>1, <1>4, <1>5, <1>6, MoveInv

LEMMA SendReplyInv ==
    ASSUME Inv, NEW t \in Threads, SendReply(t), UNCHANGED clientVars
    PROVE  Inv'
<1>1. th[t].pc = "reply" /\ Sends(t, th[t].buf, "close")
  BY DEF SendReply, At
<1>2. Follows(th[t].pc, "close") /\ th[t].pc \notin HasFile
  BY <1>1 DEF Follows, ThreadLocations, OpOf, HasFile, Fresh, WriteSection
<1> QED
  BY <1>1, <1>2, SendsInv

LEMMA GetSendInv ==
    ASSUME Inv, NEW t \in Threads, GetSend(t), UNCHANGED clientVars
    PROVE  Inv'
<1>1. th[t].pc = "gsend" /\ Sends(t, th[t].buf, "gread")
  BY DEF GetSend, At
<1>2. Follows(th[t].pc, "gread") /\ "gread" \in HasFile
  BY <1>1 DEF Follows, ThreadLocations, OpOf, HasFile, Fresh, WriteSection
<1> QED
  BY <1>1, <1>2, SendsInv

LEMMA WriteStatInv ==
    ASSUME Inv, NEW t \in Threads, WriteStat(t), UNCHANGED clientVars
    PROVE  Inv'
<1>1. /\ th[t].pc = "wstat"
      /\ \/ Answers(t, "READONLY") /\ UNCHANGED files
         \/ /\ Goto(t, "lock")
            /\ UNCHANGED <<clientVars, mainVars, netVars, alive, fds, file_mutex, files>>
  BY DEF WriteStat, At, KeepsMain, KeepsNet
<1>2. /\ Follows("wstat", "reply") /\ Follows("wstat", "lock") /\ "wstat" \notin HasFile
  BY DEF Follows, ThreadLocations, OpOf, Ops, HasFile, Fresh, WriteSection
<1>3. Reply("READONLY") \in Replies
  BY DEF Reply, Replies
<1>4. CASE Goto(t, "lock")
           /\ UNCHANGED <<clientVars, mainVars, netVars, alive, fds, file_mutex, files>>
  <2>1. Moves(t, "lock")
    BY <1>4, GotoMoves DEF ThreadLocations
  <2> QED
    BY <1>1, <1>2, <1>4, <2>1, GotoInv
<1> QED
  BY <1>1, <1>2, <1>3, <1>4, AnswersInv

LEMMA RemoveStatInv ==
    ASSUME Inv, NEW t \in Threads, RemoveStat(t), UNCHANGED clientVars
    PROVE  Inv'
<1>1. /\ th[t].pc = "rmstat"
      /\ \/ Answers(t, "FAIL") /\ UNCHANGED files
         \/ /\ Goto(t, "remove")
            /\ UNCHANGED <<clientVars, mainVars, netVars, alive, fds, file_mutex, files>>
  BY DEF RemoveStat, At, KeepsMain, KeepsNet
<1>2. /\ Follows("rmstat", "reply") /\ Follows("rmstat", "remove") /\ "rmstat" \notin HasFile
  BY DEF Follows, ThreadLocations, OpOf, Ops, HasFile, Fresh, WriteSection
<1>3. Reply("FAIL") \in Replies
  BY DEF Reply, Replies
<1>4. CASE Goto(t, "remove")
           /\ UNCHANGED <<clientVars, mainVars, netVars, alive, fds, file_mutex, files>>
  <2>1. Moves(t, "remove")
    BY <1>4, GotoMoves DEF ThreadLocations
  <2> QED
    BY <1>1, <1>2, <1>4, <2>1, GotoInv
<1> QED
  BY <1>1, <1>2, <1>3, <1>4, AnswersInv

LEMMA CheckPermissionInv ==
    ASSUME Inv, NEW t \in Threads, CheckPermission(t), UNCHANGED clientVars
    PROVE  Inv'
<1>1. PICK text : th[t].pc = "ls" /\ Answers(t, text) /\ UNCHANGED files
                  /\ text \in {"not found", "read-write", "read-only", "no read permission"}
  BY DEF CheckPermission, At
<1>2. Follows("ls", "reply") /\ "ls" \notin HasFile
  BY DEF Follows, ThreadLocations, OpOf, Ops, HasFile, Fresh, WriteSection
<1>3. Reply(text) \in Replies
  BY <1>1 DEF Reply, Replies
<1> QED
  BY <1>1, <1>2, <1>3, AnswersInv

LEMMA NameIsName ==
    ASSUME Inv, NEW t \in Threads, OpOf(th[t].pc) # Ops
    PROVE  Name(t) \in Names /\ th[t].command \in Requests
<1>1. th[t].command \in Commands /\ th[t].pc \in ThreadLocations
  BY DEF Inv, TypeInv, ServerType, ThreadType
<1>2. th[t].command.op # "INVALID"
  BY <1>1 DEF Inv, LocalInv, OpOf
<1> QED
  BY <1>1, <1>2 DEF Commands, Reply, Requests, Name

LEMMA RemoveInv ==
    ASSUME Inv, NEW t \in Threads, Remove(t), UNCHANGED clientVars
    PROVE  Inv'
<1>1. PICK text : /\ th[t].pc = "remove" /\ Answers(t, text) /\ text \in {"OK", "FAIL"}
                  /\ dir' = [dir EXCEPT ![Name(t)] = Nobody]
                  /\ UNCHANGED <<content, mode>>
  BY DEF Remove, At
<1>2. Follows("remove", "reply") /\ "remove" \notin HasFile
  BY DEF Follows, ThreadLocations, OpOf, Ops, HasFile, Fresh, WriteSection
<1>3. Moves(t, "reply")
  BY <1>1, AnswersMoves DEF Reply, Replies
<1>4. /\ UNCHANGED <<backlog, up, down, clientClosed, broken, alive, fds, file_mutex, content, mode>>
      /\ UNCHANGED <<clientVars, mainVars>>
  BY <1>1 DEF Answers, KeepsMain, KeepsNet, netVars
<1>5. /\ NetType' /\ alive' \in BOOLEAN /\ fds' \in [Fds -> Objects]
      /\ dir' \in [Names -> Inodes \cup {Nobody}]
      /\ \A n \in Names : dir'[n] \in {dir[n], Nobody}
  BY <1>1, <1>4 DEF Inv, TypeInv, NetType, ServerType
<1> QED
  BY <1>1, <1>2, <1>3, <1>4, <1>5, MoveInv
-----------------------------------------------------------------------------
LEMMA ReceiveCommandEffect ==
    ASSUME Inv, NEW t \in Threads, ReceiveCommand(t)
    PROVE  /\ th[t].pc = "command" /\ th[t].ref \in Clients /\ Received(th[t].ref)
           /\ th' \in [Threads -> ThreadType]
           /\ \A u \in Threads \ {t} : th'[u] = th[u]
           /\ th'[t].command = Scanned(Arrived(th[t].ref))
           /\ th'[t].pc = Dispatch(th'[t].command)
           /\ th'[t].command.op \in Ops /\ th'[t].command.op \in OpOf(th'[t].pc)
           /\ th'[t].pc \in {"wstat", "gopen", "rmstat", "ls", "stop", "close"}
           /\ th'[t].sock = th[t].sock /\ th'[t].file = th[t].file
           /\ th'[t].inode = th[t].inode /\ th'[t].ref = Nobody /\ th'[t].early = th[t].early
           /\ UNCHANGED <<mainVars, backlog, down, clientClosed, broken, alive, fds,
                          file_mutex, dir, content, mode>>
<1>1. PICK c : /\ c = th[t].ref /\ Received(c) /\ th[t].pc = "command"
               /\ th' = [th EXCEPT ![t].command = Scanned(Arrived(c)), ![t].ref = Nobody,
                                   ![t].pc = Dispatch(Scanned(Arrived(c)))]
               /\ UNCHANGED <<mainVars, backlog, down, clientClosed, broken, alive, fds,
                              file_mutex, dir, content, mode>>
  BY DEF ReceiveCommand, At, KeepsMain, files
<1>2. LocalInv(t) /\ th \in [Threads -> ThreadType]
  BY DEF Inv, TypeInv, ServerType
<1>3. c \in Clients
  BY <1>1, <1>2 DEF LocalInv, ThreadType
<1>4. Arrived(c) \in Seq(Uploads)
  BY <1>3, ReceivedTypes DEF Inv, TypeInv
<1>5. PICK x \in Commands : x = Scanned(Arrived(c))
  BY <1>4, ScannedType
<1>6. PICK l \in ThreadLocations :
        /\ l = Dispatch(x) /\ x.op \in Ops /\ x.op \in OpOf(l)
        /\ l \in {"wstat", "gopen", "rmstat", "ls", "stop", "close"}
  BY DispatchType DEF ThreadLocations
<1>7. /\ th' \in [Threads -> ThreadType]
      /\ \A u \in Threads \ {t} : th'[u] = th[u]
      /\ th'[t].pc = l /\ th'[t].command = x /\ th'[t].ref = Nobody
      /\ th'[t].sock = th[t].sock /\ th'[t].file = th[t].file
      /\ th'[t].inode = th[t].inode /\ th'[t].early = th[t].early
  <2>1. th' = [th EXCEPT ![t].command = x, ![t].ref = Nobody, ![t].pc = l]
    BY <1>1, <1>5, <1>6
  <2>2. th \in [Threads -> ThreadType]
    BY <1>2
  <2>3. /\ th' = [u \in Threads |-> th'[u]]
        /\ \A u \in Threads \ {t} : th'[u] = th[u]
        /\ th'[t] = [th[t] EXCEPT !.command = x, !.ref = Nobody, !.pc = l]
    BY <2>1, <2>2
  <2>4. /\ th'[t] \in ThreadType
        /\ th'[t].pc = l /\ th'[t].command = x /\ th'[t].ref = Nobody
        /\ th'[t].sock = th[t].sock /\ th'[t].file = th[t].file
        /\ th'[t].inode = th[t].inode /\ th'[t].early = th[t].early
    <3>1. PICK old \in ThreadType : old = th[t]
      BY <2>2
    <3>2. PICK new : new = [old EXCEPT !.command = x, !.ref = Nobody, !.pc = l]
      OBVIOUS
    <3>3. new \in ThreadType
      BY <3>2 DEF ThreadType
    <3>4. /\ new.pc = l /\ new.command = x /\ new.ref = Nobody
          /\ new.sock = old.sock /\ new.file = old.file
          /\ new.inode = old.inode /\ new.early = old.early
      BY <3>2 DEF ThreadType
    <3> QED
      BY <2>3, <3>1, <3>2, <3>3, <3>4
  <2>5. th' \in [Threads -> ThreadType]
    <3>1. \A u \in Threads : th'[u] \in ThreadType
      BY <2>2, <2>3, <2>4
    <3> QED
      BY <2>3, <3>1
  <2> QED
    BY <2>3, <2>4, <2>5
<1> QED
  BY <1>1, <1>3, <1>5, <1>6, <1>7

LEMMA ReceiveCommandInv ==
    ASSUME Inv, NEW t \in Threads, ReceiveCommand(t), UNCHANGED clientVars
    PROVE  Inv'
<1>1. /\ th[t].pc = "command" /\ th[t].ref \in Clients /\ Received(th[t].ref)
      /\ UNCHANGED <<mainVars, backlog, down, clientClosed, broken, alive, fds,
                     file_mutex, dir, content, mode>>
  BY ReceiveCommandEffect
<1>2. LocalInv(t) /\ th \in [Threads -> ThreadType]
  BY DEF Inv, TypeInv, ServerType
<1>4. up' \in [Clients -> Seq(Uploads)]
  BY <1>1, ReceivedTypes DEF Inv, TypeInv
<1>6. PICK l : /\ l = th'[t].pc /\ th'[t].command.op \in OpOf(l)
               /\ l \in {"wstat", "gopen", "rmstat", "ls", "stop", "close"}
  BY ReceiveCommandEffect
<1>7. /\ th' \in [Threads -> ThreadType]
      /\ \A u \in Threads \ {t} : th'[u] = th[u]
      /\ th'[t].pc = l /\ th'[t].ref = Nobody
      /\ th'[t].sock = th[t].sock /\ th'[t].file = th[t].file
      /\ th'[t].inode = th[t].inode
  BY <1>6, ReceiveCommandEffect
<1>8. th[t].inode = Nobody /\ th[t].sock \in Fds
  BY <1>1, <1>2 DEF LocalInv, Fresh
<1>9. ThreadFrame(t)
  BY <1>1, <1>6, <1>7 DEF ThreadFrame, SameLocals
<1>10. NetType' /\ ServerType'
  BY <1>1, <1>4, <1>7 DEF Inv, TypeInv, NetType, ServerType, mainVars
<1>11. LocalInv(t)'
  <2>1. th'[t].command.op \in OpOf(th'[t].pc)
    BY <1>6, <1>7
  <2> QED
    BY <1>6, <1>7, <1>8, <2>1 DEF LocalInv, OpOf, HasFile, Fresh
<1>12. \A f \in Fds : fds[f] # Open(t)
  BY <1>1 DEF Inv, OpenInv, HasFile
<1>13. OpenInv'
  BY <1>1, <1>7, <1>12 DEF Inv, OpenInv, HasFile
<1>14. MutexInv' /\ InodeInv'
  BY <1>1, <1>6, <1>7 DEF Inv, MutexInv, InWriteSection, InodeInv
<1> QED
  BY <1>9, <1>10, <1>11, <1>13, <1>14, FrameInv

LEMMA LockInv ==
    ASSUME Inv, NEW t \in Threads, Lock(t), UNCHANGED clientVars
    PROVE  Inv'
<1>1. /\ th[t].pc = "lock" /\ Goto(t, "wopen") /\ file_mutex = Nobody /\ file_mutex' = t
      /\ UNCHANGED <<backlog, up, down, clientClosed, broken, alive, fds, dir, content, mode>>
      /\ UNCHANGED <<clientVars, mainVars>>
  BY DEF Lock, MutexFree, At, KeepsMain, KeepsNet, netVars, files
<1>2. Moves(t, "wopen")
  BY <1>1, GotoMoves DEF ThreadLocations
<1>3. /\ th' \in [Threads -> ThreadType] /\ th'[t].pc = "wopen"
      /\ th'[t].sock = th[t].sock /\ th'[t].command = th[t].command
      /\ th'[t].ref = th[t].ref /\ th'[t].file = th[t].file /\ th'[t].inode = th[t].inode
      /\ \A u \in Threads \ {t} : SameLocals(u)
  BY <1>2 DEF Moves
<1>4. ThreadFrame(t)
  BY <1>1, <1>3 DEF ThreadFrame
<1>5. NetType' /\ ServerType'
  BY <1>1, <1>3 DEF Inv, TypeInv, NetType, ServerType, mainVars
<1>6. LocalInv(t)
  BY DEF Inv
<1>7. LocalInv(t)'
  BY <1>1, <1>3, <1>6 DEF LocalInv, OpOf, HasFile, Fresh
<1>8. OpenInv'
  BY <1>1, <1>3 DEF Inv, OpenInv, SameLocals, HasFile
<1>9. MutexInv'
  BY <1>1, <1>3, ConstantTypes DEF Inv, MutexInv, InWriteSection, SameLocals
<1>10. InodeInv'
  BY <1>1, <1>3 DEF Inv, InodeInv, SameLocals
<1> QED
  BY <1>4, <1>5, <1>7, <1>8, <1>9, <1>10, FrameInv

LEMMA UnlockInv ==
    ASSUME Inv, NEW t \in Threads, Unlock(t), UNCHANGED clientVars
    PROVE  Inv'
<1>1. /\ th[t].pc = "unlock" /\ Goto(t, "close") /\ file_mutex' = Nobody
      /\ UNCHANGED <<backlog, up, down, clientClosed, broken, alive, fds, dir, content, mode>>
      /\ UNCHANGED <<clientVars, mainVars>>
  BY DEF Unlock, At, KeepsMain, KeepsNet, netVars, files
<1>2. Moves(t, "close")
  BY <1>1, GotoMoves DEF ThreadLocations
<1>3. /\ th' \in [Threads -> ThreadType] /\ th'[t].pc = "close"
      /\ th'[t].sock = th[t].sock /\ th'[t].command = th[t].command
      /\ th'[t].ref = th[t].ref /\ th'[t].file = th[t].file /\ th'[t].inode = th[t].inode
      /\ \A u \in Threads \ {t} : SameLocals(u)
  BY <1>2 DEF Moves
<1>4. ThreadFrame(t)
  BY <1>1, <1>3 DEF ThreadFrame
<1>5. NetType' /\ ServerType'
  BY <1>1, <1>3 DEF Inv, TypeInv, NetType, ServerType, mainVars
<1>6. LocalInv(t)
  BY DEF Inv
<1>7. LocalInv(t)'
  BY <1>1, <1>3, <1>6 DEF LocalInv, OpOf, Ops, HasFile, Fresh
<1>8. OpenInv'
  BY <1>1, <1>3 DEF Inv, OpenInv, SameLocals, HasFile
<1>9. MutexInv'
  BY <1>1, <1>3 DEF Inv, MutexInv, InWriteSection, SameLocals
<1>10. InodeInv'
  BY <1>1, <1>3 DEF Inv, InodeInv, SameLocals
<1> QED
  BY <1>4, <1>5, <1>7, <1>8, <1>9, <1>10, FrameInv

(* No file is open for writing while its mode changes.                     *)
LEMMA ChmodInv ==
    ASSUME Inv, NEW t \in Threads, Chmod(t), UNCHANGED clientVars
    PROVE  Inv'
<1>1. /\ th[t].pc = "chmod" /\ Goto(t, "unlock")
      /\ mode' = IF Exists(Name(t)) THEN [mode EXCEPT ![dir[Name(t)]] = th[t].command.perm]
                 ELSE mode
      /\ UNCHANGED <<backlog, up, down, clientClosed, broken, alive, fds, file_mutex, dir, content>>
      /\ UNCHANGED <<clientVars, mainVars>>
  BY DEF Chmod, At, KeepsMain, KeepsNet, netVars
<1>2. Moves(t, "unlock")
  BY <1>1, GotoMoves DEF ThreadLocations
<1>3. /\ th' \in [Threads -> ThreadType] /\ th'[t].pc = "unlock"
      /\ th'[t].sock = th[t].sock /\ th'[t].command = th[t].command
      /\ th'[t].ref = th[t].ref /\ th'[t].file = th[t].file /\ th'[t].inode = th[t].inode
      /\ \A u \in Threads \ {t} : SameLocals(u)
  BY <1>2 DEF Moves
<1>4. ThreadFrame(t)
  BY <1>1, <1>3 DEF ThreadFrame
<1>5. Name(t) \in Names /\ th[t].command \in Requests
  BY <1>1, NameIsName DEF OpOf, Ops
<1>6. mode' \in [Inodes -> SUBSET RW]
  BY <1>1, <1>5 DEF Requests, Inv, TypeInv, ServerType
<1>7. NetType' /\ ServerType'
  BY <1>1, <1>3, <1>6 DEF Inv, TypeInv, NetType, ServerType, mainVars
<1>8. LocalInv(t)
  BY DEF Inv
<1>9. LocalInv(t)'
  BY <1>1, <1>3, <1>8 DEF LocalInv, OpOf, HasFile, Fresh
<1>10. OpenInv'
  <2>1. ASSUME NEW f \in Fds, NEW u \in Threads, fds[f] = Open(u)
        PROVE  u # t /\ th[u].pc \in HasFile /\ f = th[u].file /\ th[u].command.op # "WRITE"
    <3>1. th[u].pc \in HasFile /\ f = th[u].file /\ LocalInv(u)
      BY <2>1 DEF Inv, OpenInv
    <3>2. file_mutex = t
      BY <1>1 DEF Inv, MutexInv, InWriteSection
    <3>3. th[u].pc \in {"gread", "gsend", "gclose"} \/ u = t
      BY <3>1, <3>2 DEF Inv, MutexInv, InWriteSection, HasFile
    <3>4. u # t
      BY <1>1, <3>1 DEF HasFile
    <3> QED
      BY <3>1, <3>3, <3>4 DEF LocalInv, OpOf
  <2> QED
    BY <1>1, <1>3, <2>1 DEF OpenInv, SameLocals, HasFile
<1>11. MutexInv'
  BY <1>1, <1>3 DEF Inv, MutexInv, InWriteSection, SameLocals
<1>12. InodeInv'
  <2>1. ASSUME NEW u \in Threads, th[u].inode = Nobody
        PROVE  "w" \in mode'[u] /\ \A n \in Names : dir[n] # u
    <3>1. "w" \in mode[u] /\ \A n \in Names : dir[n] # u
      BY <2>1 DEF Inv, InodeInv
    <3>2. mode'[u] = mode[u]
      BY <1>1, <1>5, <3>1, ConstantTypes DEF Inv, TypeInv, ServerType
    <3> QED
      BY <3>1, <3>2
  <2> QED
    BY <1>1, <1>3, <2>1 DEF InodeInv, SameLocals
<1> QED
  BY <1>4, <1>7, <1>9, <1>10, <1>11, <1>12, FrameInv
-----------------------------------------------------------------------------
LEMMA WriteOpenEffect ==
    ASSUME Inv, NEW t \in Threads, WriteOpen(t)
    PROVE  /\ th[t].pc = "wopen" /\ Name(t) \in Names
           /\ UNCHANGED <<netVars, alive, mainVars, file_mutex, mode>>
           /\ \/ /\ Moves(t, "wfail") /\ UNCHANGED <<fds, dir, content>>
              \/ \E f \in Fds, k \in Inodes :
                    /\ fds[f] = Free /\ k = IF Exists(Name(t)) THEN dir[Name(t)] ELSE t
                    /\ Exists(Name(t)) => Writable(Name(t))
                    /\ fds' = [fds EXCEPT ![f] = Open(t)]
                    /\ dir' = [dir EXCEPT ![Name(t)] = k]
                    /\ content' = [content EXCEPT ![k] = <<>>]
                    /\ th' \in [Threads -> ThreadType]
                    /\ \A u \in Threads \ {t} : th'[u] = th[u]
                    /\ th'[t].pc = "wrecv" /\ th'[t].file = f /\ th'[t].inode = k
                    /\ th'[t].sock = th[t].sock /\ th'[t].command = th[t].command
                    /\ th'[t].ref = th[t].ref /\ th'[t].early = th[t].early
<1> DEFINE n == Name(t)
<1>1. th[t].pc = "wopen" /\ UNCHANGED <<netVars, alive, mainVars, file_mutex, mode>>
  BY DEF WriteOpen, At, KeepsMain, KeepsNet
<1>2. Name(t) \in Names
  BY <1>1, NameIsName DEF OpOf, Ops
<1>3. th \in [Threads -> ThreadType]
  BY DEF Inv, TypeInv, ServerType
<1>4. CASE FreeFds # {} /\ (Exists(n) => Writable(n))
  <2>1. PICK f \in Fds : f = LowestFree /\ fds[f] = Free
    BY <1>4, LowestFreeIsFree
  <2>2. PICK k \in Inodes : k = IF Exists(n) THEN dir[n] ELSE t
    BY <1>2, ConstantTypes DEF Exists, Inv, TypeInv, ServerType
  <2>3. /\ fds' = [fds EXCEPT ![f] = Open(t)]
        /\ th' = [th EXCEPT ![t].file = f, ![t].inode = k, ![t].pc = "wrecv"]
        /\ dir' = [dir EXCEPT ![n] = k] /\ content' = [content EXCEPT ![k] = <<>>]
    BY <1>4, <2>1, <2>2 DEF WriteOpen
  <2>4. /\ th' \in [Threads -> ThreadType]
        /\ \A u \in Threads \ {t} : th'[u] = th[u]
        /\ th'[t].pc = "wrecv" /\ th'[t].file = f /\ th'[t].inode = k
        /\ th'[t].sock = th[t].sock /\ th'[t].command = th[t].command
        /\ th'[t].ref = th[t].ref /\ th'[t].early = th[t].early
    <3>1. "wrecv" \in ThreadLocations /\ f \in 0..MaxFd
      BY ConstantTypes DEF ThreadLocations, Fds
    <3> QED
      BY <1>3, <2>3, <3>1 DEF ThreadType
  <2> QED
    BY <1>1, <1>2, <1>4, <2>1, <2>2, <2>3, <2>4
<1>5. CASE ~(FreeFds # {} /\ (Exists(n) => Writable(n)))
  <2>1. Goto(t, "wfail") /\ UNCHANGED <<fds, dir, content>>
    BY <1>5 DEF WriteOpen
  <2>2. Moves(t, "wfail")
    BY <2>1, GotoMoves DEF ThreadLocations
  <2> QED
    BY <1>1, <1>2, <2>1, <2>2
<1> QED
  BY <1>4, <1>5

LEMMA WriteOpenInv ==
    ASSUME Inv, NEW t \in Threads, WriteOpen(t), UNCHANGED clientVars
    PROVE  Inv'
<1> DEFINE n == Name(t)
<1>1. /\ th[t].pc = "wopen"
      /\ UNCHANGED <<backlog, up, down, clientClosed, broken, alive, file_mutex, mode>>
      /\ UNCHANGED <<clientVars, mainVars>>
  BY WriteOpenEffect DEF netVars
<1>2. LocalInv(t) /\ th \in [Threads -> ThreadType] /\ n \in Names
  BY WriteOpenEffect DEF Inv, TypeInv, ServerType
<1>3. ASSUME NEW f \in Fds, NEW k \in Inodes,
             fds[f] = Free, k = IF Exists(n) THEN dir[n] ELSE t,
             Exists(n) => Writable(n), fds' = [fds EXCEPT ![f] = Open(t)],
             dir' = [dir EXCEPT ![n] = k], content' = [content EXCEPT ![k] = <<>>],
             th' \in [Threads -> ThreadType], \A u \in Threads \ {t} : th'[u] = th[u],
             th'[t].pc = "wrecv", th'[t].file = f, th'[t].inode = k,
             th'[t].sock = th[t].sock, th'[t].command = th[t].command,
             th'[t].ref = th[t].ref
      PROVE  Inv'
  <2>2. k = IF Exists(n) THEN dir[n] ELSE t
    BY <1>3
  <2>3. /\ fds' = [fds EXCEPT ![f] = Open(t)]
        /\ dir' = [dir EXCEPT ![n] = k] /\ content' = [content EXCEPT ![k] = <<>>]
    BY <1>3
  <2>4. /\ th' \in [Threads -> ThreadType]
        /\ \A u \in Threads \ {t} : th'[u] = th[u]
        /\ th'[t].pc = "wrecv" /\ th'[t].file = f /\ th'[t].inode = k
        /\ th'[t].sock = th[t].sock /\ th'[t].command = th[t].command
        /\ th'[t].ref = th[t].ref
    BY <1>3
  <2>5. th[t].inode = Nobody /\ \A g \in Fds : fds[g] # Open(t)
    BY <1>1, <1>2 DEF LocalInv, Fresh, HasFile, Inv, OpenInv
  <2>6. "w" \in mode[k]
    BY <1>3, <2>2, <2>5 DEF Writable, Inv, InodeInv
  <2>7. ThreadFrame(t)
    BY <1>1, <2>4 DEF ThreadFrame, SameLocals
  <2>8. NetType' /\ ServerType'
    <3>1. fds' \in [Fds -> Objects]
      BY <2>3 DEF Inv, TypeInv, ServerType, Objects
    <3>2. content' \in [Inodes -> Seq(Uploads)]
      BY <2>3, EmptySeq DEF Inv, TypeInv, ServerType
    <3> QED
      BY <1>1, <2>3, <2>4, <3>1, <3>2 DEF Inv, TypeInv, NetType, ServerType, mainVars
  <2>9. LocalInv(t)'
    BY <1>1, <1>2, <2>4, ConstantTypes DEF LocalInv, OpOf, HasFile, Fresh
  <2>10. OpenInv'
    <3>1. ASSUME NEW g \in Fds, NEW u \in Threads, fds'[g] = Open(u)
          PROVE  /\ th'[u].pc \in HasFile /\ g = th'[u].file
                 /\ th'[u].command.op = "WRITE" => "w" \in mode[th'[u].inode]
      <4>1. CASE g = f
        <5>1. u = t
          BY <2>3, <3>1, <4>1 DEF Open, Inv, TypeInv, ServerType
        <5> QED
          BY <2>4, <2>6, <4>1, <5>1 DEF HasFile
      <4>2. CASE g # f
        <5>1. fds[g] = Open(u)
          BY <2>3, <3>1, <4>2 DEF Inv, TypeInv, ServerType
        <5>2. u # t
          BY <2>5, <5>1
        <5> QED
          BY <2>4, <5>1, <5>2 DEF Inv, OpenInv
      <4> QED
        BY <4>1, <4>2
    <3> QED
      BY <1>1, <3>1 DEF OpenInv, HasFile
  <2>11. MutexInv'
    BY <1>1, <2>4 DEF Inv, MutexInv, InWriteSection
  <2>12. InodeInv'
    <3>1. ASSUME NEW u \in Threads, th'[u].inode = Nobody, NEW m \in Names
          PROVE  "w" \in mode[u] /\ dir'[m] # u
      <4>1. u # t
        BY <2>4, <3>1, ConstantTypes
      <4>2. "w" \in mode[u] /\ \A j \in Names : dir[j] # u
        BY <2>4, <3>1, <4>1 DEF Inv, InodeInv
      <4>3. k # u
        BY <1>2, <2>2, <4>1, <4>2
      <4> QED
        BY <2>3, <4>2, <4>3 DEF Inv, TypeInv, ServerType
    <3>2. ASSUME NEW u \in Threads, th'[u].inode = Nobody
          PROVE  "w" \in mode[u] /\ \A m \in Names : dir'[m] # u
      BY <1>2, <3>1, <3>2
    <3> QED
      BY <1>1, <3>2 DEF InodeInv
  <2> QED
    BY <2>7, <2>8, <2>9, <2>10, <2>11, <2>12, FrameInv
<1>4. CASE Moves(t, "wfail") /\ UNCHANGED <<fds, dir, content>>
  <2>1. Follows(th[t].pc, "wfail") /\ th[t].pc \notin HasFile
    BY <1>1 DEF Follows, ThreadLocations, OpOf, HasFile, Fresh, WriteSection
  <2> QED
    BY <1>1, <1>4, <2>1, GotoInv DEF netVars, files
<1> QED
  BY <1>3, <1>4, WriteOpenEffect

LEMMA GetOpenEffect ==
    ASSUME Inv, NEW t \in Threads, GetOpen(t)
    PROVE  /\ th[t].pc = "gopen"
           /\ UNCHANGED <<netVars, alive, mainVars, file_mutex, files>>
           /\ \/ Moves(t, "close") /\ th'[t].early /\ fds' = Closed(th[t].sock)
              \/ \E f \in Fds, k \in Inodes :
                    /\ fds[f] = Free
                    /\ fds' = [fds EXCEPT ![f] = Open(t)]
                    /\ th' \in [Threads -> ThreadType]
                    /\ \A u \in Threads \ {t} : th'[u] = th[u]
                    /\ th'[t].pc = "gread" /\ th'[t].file = f /\ th'[t].inode = k
                    /\ th'[t].sock = th[t].sock /\ th'[t].command = th[t].command
                    /\ th'[t].ref = th[t].ref /\ th'[t].early = th[t].early
<1> DEFINE n == Name(t)
<1>1. th[t].pc = "gopen" /\ UNCHANGED <<netVars, alive, mainVars, file_mutex, files>>
  BY DEF GetOpen, CloseEarly, At, KeepsMain, KeepsNet
<1>2. Name(t) \in Names
  BY <1>1, NameIsName DEF OpOf, Ops
<1>3. th \in [Threads -> ThreadType]
  BY DEF Inv, TypeInv, ServerType
<1>4. CASE FreeFds # {} /\ Exists(n) /\ Readable(n)
  <2>1. PICK f \in Fds : f = LowestFree /\ fds[f] = Free
    BY <1>4, LowestFreeIsFree
  <2>2. PICK k \in Inodes : k = dir[n]
    BY <1>2, <1>4 DEF Exists, Inv, TypeInv, ServerType
  <2>3. /\ fds' = [fds EXCEPT ![f] = Open(t)]
        /\ th' = [th EXCEPT ![t].file = f, ![t].inode = k, ![t].pc = "gread"]
    BY <1>4, <2>1, <2>2 DEF GetOpen
  <2>4. /\ th' \in [Threads -> ThreadType]
        /\ \A u \in Threads \ {t} : th'[u] = th[u]
        /\ th'[t].pc = "gread" /\ th'[t].file = f /\ th'[t].inode = k
        /\ th'[t].sock = th[t].sock /\ th'[t].command = th[t].command
        /\ th'[t].ref = th[t].ref /\ th'[t].early = th[t].early
    <3>1. "gread" \in ThreadLocations /\ f \in 0..MaxFd
      BY ConstantTypes DEF ThreadLocations, Fds
    <3> QED
      BY <1>3, <2>3, <3>1 DEF ThreadType
  <2> QED
    BY <1>1, <2>1, <2>3, <2>4
<1>5. CASE ~(FreeFds # {} /\ Exists(n) /\ Readable(n))
  <2>1. CloseEarly(t, "close")
    BY <1>5 DEF GetOpen
  <2> QED
    BY <1>1, <2>1, CloseEarlyEffect DEF ThreadLocations
<1> QED
  BY <1>4, <1>5

LEMMA GetOpenInv ==
    ASSUME Inv, NEW t \in Threads, GetOpen(t), UNCHANGED clientVars
    PROVE  Inv'
<1>1. /\ th[t].pc = "gopen"
      /\ UNCHANGED <<backlog, up, down, clientClosed, broken, alive, file_mutex, dir,
                     content, mode>>
      /\ UNCHANGED <<clientVars, mainVars>>
  BY GetOpenEffect DEF netVars, files
<1>2. LocalInv(t)
  BY DEF Inv
<1>3. ASSUME NEW f \in Fds, NEW k \in Inodes,
             fds[f] = Free, fds' = [fds EXCEPT ![f] = Open(t)],
             th' \in [Threads -> ThreadType], \A u \in Threads \ {t} : th'[u] = th[u],
             th'[t].pc = "gread", th'[t].file = f, th'[t].inode = k,
             th'[t].sock = th[t].sock, th'[t].command = th[t].command,
             th'[t].ref = th[t].ref
      PROVE  Inv'
  <2>3. /\ fds' = [fds EXCEPT ![f] = Open(t)]
        /\ UNCHANGED <<backlog, up, down, clientClosed, broken, alive, file_mutex, dir,
                       content, mode>>
        /\ UNCHANGED <<clientVars, mainVars>>
    BY <1>1, <1>3
  <2>4. /\ th' \in [Threads -> ThreadType]
        /\ \A u \in Threads \ {t} : th'[u] = th[u]
        /\ th'[t].pc = "gread" /\ th'[t].file = f /\ th'[t].inode = k
        /\ th'[t].sock = th[t].sock /\ th'[t].command = th[t].command
        /\ th'[t].ref = th[t].ref
    BY <1>3
  <2>5. \A g \in Fds : fds[g] # Open(t)
    BY <1>1 DEF HasFile, Inv, OpenInv
  <2>6. th[t].command.op = "GET"
    BY <1>1, <1>2 DEF LocalInv, OpOf
  <2>7. ThreadFrame(t)
    BY <1>1, <2>3, <2>4 DEF ThreadFrame, SameLocals
  <2>8. NetType' /\ ServerType'
    <3>1. fds' \in [Fds -> Objects]
      BY <2>3 DEF Inv, TypeInv, ServerType, Objects
    <3> QED
      BY <2>3, <2>4, <3>1 DEF Inv, TypeInv, NetType, ServerType, mainVars
  <2>9. LocalInv(t)'
    BY <1>1, <1>2, <2>4, ConstantTypes DEF LocalInv, OpOf, HasFile, Fresh
  <2>10. OpenInv'
    <3>1. ASSUME NEW g \in Fds, NEW u \in Threads, fds'[g] = Open(u)
          PROVE  /\ th'[u].pc \in HasFile /\ g = th'[u].file
                 /\ th'[u].command.op = "WRITE" => "w" \in mode[th'[u].inode]
      <4>1. CASE g = f
        <5>1. u = t
          BY <2>3, <3>1, <4>1 DEF Open, Inv, TypeInv, ServerType
        <5> QED
          BY <2>4, <2>6, <4>1, <5>1 DEF HasFile
      <4>2. CASE g # f
        <5>1. fds[g] = Open(u)
          BY <2>3, <3>1, <4>2 DEF Inv, TypeInv, ServerType
        <5>2. u # t
          BY <2>5, <5>1
        <5> QED
          BY <2>4, <5>1, <5>2 DEF Inv, OpenInv
      <4> QED
        BY <4>1, <4>2
    <3> QED
      BY <2>3, <3>1 DEF OpenInv, HasFile
  <2>11. MutexInv'
    BY <2>3, <2>4 DEF Inv, MutexInv, InWriteSection
  <2>12. InodeInv'
    BY <2>3, <2>4, ConstantTypes DEF Inv, InodeInv
  <2> QED
    BY <2>7, <2>8, <2>9, <2>10, <2>11, <2>12, FrameInv
<1>4. CASE Moves(t, "close") /\ fds' = Closed(th[t].sock)
  <2>1. Follows(th[t].pc, "close") /\ th[t].pc \notin HasFile
    BY <1>1 DEF Follows, ThreadLocations, OpOf, Ops, HasFile, Fresh, WriteSection
  <2>2. UNCHANGED <<clientVars, mainVars, netVars, alive, file_mutex, files>>
    BY GetOpenEffect
  <2> QED
    BY <1>4, <2>1, <2>2, CloseInv
<1> QED
  BY <1>3, <1>4, GetOpenEffect

-----------------------------------------------------------------------------
LEMMA WriteDataEffect ==
    ASSUME Inv, NEW t \in Threads, WriteData(t)
    PROVE  /\ th[t].pc = "data" /\ th[t].ref \in Clients /\ Received(th[t].ref)
           /\ content' = [k \in Inodes |-> IF k \in FileWritten(t)
                                THEN content[k] \o Arrived(th[t].ref) ELSE content[k]]
           /\ SentTo(fds[th[t].file], Arrived(th[t].ref))
           /\ UNCHANGED <<backlog, clientClosed, fds, file_mutex, dir, mode, mainVars>>
           /\ th' \in [Threads -> ThreadType]
           /\ \A u \in Threads \ {t} : th'[u] = th[u]
           /\ th'[t].pc \in {"fclose", "wrecv"} /\ th'[t].ref = Nobody
           /\ th'[t].command = th[t].command /\ th'[t].sock = th[t].sock
           /\ th'[t].file = th[t].file /\ th'[t].inode = th[t].inode
           /\ th'[t].early = th[t].early
<1>1. /\ th[t].pc = "data" /\ Received(th[t].ref)
      /\ content' = [k \in Inodes |-> IF k \in FileWritten(t)
                          THEN content[k] \o Arrived(th[t].ref) ELSE content[k]]
      /\ SentTo(fds[th[t].file], Arrived(th[t].ref))
      /\ UNCHANGED <<backlog, clientClosed, fds, file_mutex, dir, mode, mainVars>>
  BY DEF WriteData, At, KeepsMain
<1>2. LocalInv(t) /\ th \in [Threads -> ThreadType]
  BY DEF Inv, TypeInv, ServerType
<1>3. th[t].ref \in Clients
  BY <1>1, <1>2 DEF LocalInv, ThreadType
<1>4. PICK l \in ThreadLocations :
        /\ l \in {"fclose", "wrecv"}
        /\ th' = [th EXCEPT ![t].ref = Nobody, ![t].pc = l]
  BY DEF WriteData, ThreadLocations
<1>5. /\ th' \in [Threads -> ThreadType]
      /\ \A u \in Threads \ {t} : th'[u] = th[u]
      /\ th'[t].pc = l /\ th'[t].ref = Nobody
      /\ th'[t].command = th[t].command /\ th'[t].sock = th[t].sock
      /\ th'[t].file = th[t].file /\ th'[t].inode = th[t].inode
      /\ th'[t].early = th[t].early
  <2>1. th' = [th EXCEPT ![t].ref = Nobody, ![t].pc = l]
    BY <1>4
  <2>2. th \in [Threads -> ThreadType]
    BY <1>2
  <2> QED
    BY <2>1, <2>2 DEF ThreadType
<1> QED
  BY <1>1, <1>3, <1>4, <1>5

LEMMA WriteDataInv ==
    ASSUME Inv, NEW t \in Threads, WriteData(t), UNCHANGED clientVars
    PROVE  Inv'
<1>1. PICK c : /\ c = th[t].ref /\ c \in Clients /\ Received(c) /\ th[t].pc = "data"
               /\ content' = [k \in Inodes |-> IF k \in FileWritten(t)
                                    THEN content[k] \o Arrived(c) ELSE content[k]]
               /\ SentTo(fds[th[t].file], Arrived(c))
               /\ UNCHANGED <<backlog, clientClosed, fds, file_mutex, dir, mode>>
               /\ UNCHANGED <<clientVars, mainVars>>
  BY WriteDataEffect
<1>2. LocalInv(t)
  BY DEF Inv
<1>3. th[t].file \in Fds /\ th[t].inode \in Inodes
  BY <1>1, <1>2 DEF LocalInv, HasFile
<1>4. Arrived(c) \in Seq(Uploads) /\ up' \in [Clients -> Seq(Uploads)]
  BY <1>1, ReceivedTypes DEF Inv, TypeInv
<1>5. Arrived(c) \in Seq(Packets) /\ fds[th[t].file] \in Objects
  BY <1>3, <1>4, SeqMonotonic DEF Packets, Inv, TypeInv, ServerType
<1>6. /\ alive' \in BOOLEAN /\ down' \in [Clients -> Seq(Packets)]
      /\ broken' \in [Clients -> BOOLEAN]
  BY <1>1, <1>5, SentToTypes DEF Inv
<1>7. content' \in [Inodes -> Seq(Uploads)]
  <2>1. \A k \in Inodes : content[k] \o Arrived(c) \in Seq(Uploads)
    BY <1>4, ConcatProperties DEF Inv, TypeInv, ServerType
  <2> QED
    BY <1>1, <2>1 DEF Inv, TypeInv, ServerType
<1>8. PICK l : l = th'[t].pc /\ l \in {"fclose", "wrecv"}
  BY WriteDataEffect
<1>9. /\ th' \in [Threads -> ThreadType]
      /\ \A u \in Threads \ {t} : th'[u] = th[u]
      /\ th'[t].pc = l /\ th'[t].ref = Nobody
      /\ th'[t].command = th[t].command /\ th'[t].sock = th[t].sock
      /\ th'[t].file = th[t].file /\ th'[t].inode = th[t].inode
  BY <1>8, WriteDataEffect
<1>10. ThreadFrame(t)
  BY <1>1, <1>8, <1>9 DEF ThreadFrame, SameLocals
<1>11. NetType' /\ ServerType'
  BY <1>1, <1>4, <1>6, <1>7, <1>9 DEF Inv, TypeInv, NetType, ServerType, mainVars
<1>12. LocalInv(t)'
  BY <1>1, <1>2, <1>3, <1>8, <1>9 DEF LocalInv, OpOf, HasFile, Fresh
<1>13. /\ th'[t].pc \in HasFile
       /\ InWriteSection(t)' => InWriteSection(t)
       /\ \A n \in Names : dir'[n] \in {dir[n], Nobody}
       /\ \A f \in Fds, u \in Threads : fds'[f] = Open(u) => fds[f] = Open(u)
  BY <1>1, <1>8, <1>9 DEF HasFile, InWriteSection
<1> QED
  BY <1>1, <1>9, <1>10, <1>11, <1>12, <1>13, PlainStepInv

LEMMA GetReadEffect ==
    ASSUME Inv, NEW t \in Threads, GetRead(t)
    PROVE  /\ th[t].pc = "gread"
           /\ \E l \in {"gclose", "gsend"} : Moves(t, l)
           /\ up' \in [Clients -> Seq(Uploads)]
           /\ \/ fds[th[t].file].kind = "socket" /\ Received(fds[th[t].file].of)
              \/ UNCHANGED up
           /\ UNCHANGED <<backlog, down, clientClosed, broken, alive, fds, file_mutex, dir,
                          content, mode, mainVars>>
<1>1. PICK o, data :
        /\ o = fds[th[t].file] /\ data = SubSeq(Unread(t), 1, Min({RecvMax, Len(Unread(t))}))
        /\ th[t].pc = "gread"
        /\ th' = [u \in Threads |->
                    IF u = t /\ data = <<>> THEN [th[t] EXCEPT !.pc = "gclose"]
                    ELSE IF u = t THEN [th[t] EXCEPT !.buf = data, !.pc = "gsend",
                                          !.pos = IF o = Open(t) THEN @ + Len(data) ELSE @]
                    ELSE IF o = Open(u) THEN [th[u] EXCEPT !.pos = @ + Len(data)]
                    ELSE th[u]]
        /\ (o.kind = "socket" /\ Received(o.of)) \/ UNCHANGED up
        /\ UNCHANGED <<backlog, down, clientClosed, broken, alive, fds, file_mutex, dir,
                       content, mode>>
        /\ UNCHANGED mainVars
  BY DEF GetRead, At, KeepsMain, files
<1>2. LocalInv(t) /\ th \in [Threads -> ThreadType] /\ fds \in [Fds -> Objects]
      /\ up \in [Clients -> Seq(Uploads)] /\ content \in [Inodes -> Seq(Uploads)]
  BY DEF Inv, TypeInv, ServerType, NetType
<1>3. th[t].file \in Fds /\ o \in Objects
  BY <1>1, <1>2 DEF LocalInv, HasFile
<1>4. Unread(t) \in Seq(Uploads)
  <2>1. CASE o.kind = "socket"
    <3>1. o.of \in Clients /\ o.kind # "file"
      BY <1>3, <2>1, SocketOf
    <3> QED
      BY <1>1, <1>2, <2>1, <3>1 DEF Unread
  <2>2. CASE o.kind = "file" /\ th[o.of].command.op = "GET"
    <3>1. PICK u \in Threads : o = Open(u)
      BY <1>3, <2>2, FileOf
    <3>2. o.of = u
      BY <3>1 DEF Open
    <3>3. LocalInv(u) /\ th[u].pc \in HasFile
      BY <1>1, <1>3, <3>1 DEF Inv, OpenInv
    <3>4. PICK s \in Seq(Uploads), p \in Nat : s = content[th[u].inode] /\ p = th[u].pos
      BY <1>2, <3>3 DEF LocalInv, ThreadType
    <3>5. Unread(t) = SubSeq(s, p + 1, Len(s))
      BY <1>1, <2>2, <3>2, <3>4 DEF Unread
    <3>6. \A i \in p + 1..Len(s) : s[i] \in Uploads
      BY ElementOfSeq
    <3>7. p + 1 \in Int /\ Len(s) \in Int
      BY LenProperties
    <3> QED
      BY <3>5, <3>6, <3>7, SubSeqProperties
  <2>3. CASE o.kind # "socket" /\ ~(o.kind = "file" /\ th[o.of].command.op = "GET")
    <3>1. Unread(t) = <<>>
      BY <1>1, <2>3 DEF Unread
    <3> QED
      BY <3>1, EmptySeq
  <2> QED
    BY <2>1, <2>2, <2>3
<1>5. data \in Seq(Uploads)
  BY <1>1, <1>4, PrefixType
<1>6. data \in Seq(Packets) /\ Len(data) \in Nat
  BY <1>5, SeqMonotonic, LenProperties DEF Packets
<1>7. up' \in [Clients -> Seq(Uploads)]
  <2>1. CASE o.kind = "socket" /\ Received(o.of)
    <3>1. o.of \in Clients
      BY <1>3, <2>1, SocketOf
    <3> QED
      BY <2>1, <3>1, ReceivedTypes DEF Inv, TypeInv
  <2> QED
    BY <1>1, <1>2, <2>1
<1>8. PICK l : /\ l \in {"gclose", "gsend"} /\ Moves(t, l)
  <2>1. ASSUME NEW u \in Threads \ {t}
        PROVE  th'[u] \in ThreadType /\ SameLocals(u)
    <3>1. th[u] \in ThreadType /\ th[u].pos + Len(data) \in Nat
      BY <1>2, <1>6 DEF ThreadType
    <3>2. th'[u] = IF o = Open(u) THEN [th[u] EXCEPT !.pos = @ + Len(data)] ELSE th[u]
      BY <1>1
    <3> QED
      BY <3>1, <3>2 DEF ThreadType, SameLocals
  <2>2. th[t] \in ThreadType /\ th[t].pos \in Nat /\ th[t].pos + Len(data) \in Nat
        /\ "gclose" \in ThreadLocations /\ "gsend" \in ThreadLocations
    BY <1>2, <1>6 DEF ThreadType, ThreadLocations
  <2>3. CASE data = <<>>
    <3>1. th'[t] = [th[t] EXCEPT !.pc = "gclose"]
      BY <1>1, <2>3
    <3>2. /\ th'[t] \in ThreadType /\ th'[t].pc = "gclose"
          /\ th'[t].sock = th[t].sock /\ th'[t].command = th[t].command
          /\ th'[t].ref = th[t].ref /\ th'[t].file = th[t].file /\ th'[t].inode = th[t].inode
          /\ th'[t].early = th[t].early
      BY <2>2, <3>1 DEF ThreadType
    <3>3. th' \in [Threads -> ThreadType]
      BY <1>1, <2>1, <3>2
    <3> QED
      BY <2>1, <3>2, <3>3 DEF Moves
  <2>4. CASE data # <<>>
    <3>1. PICK p \in Nat : th'[t] = [th[t] EXCEPT !.buf = data, !.pc = "gsend", !.pos = p]
      BY <1>1, <2>2, <2>4
    <3>2. /\ th'[t] \in ThreadType /\ th'[t].pc = "gsend"
          /\ th'[t].sock = th[t].sock /\ th'[t].command = th[t].command
          /\ th'[t].ref = th[t].ref /\ th'[t].file = th[t].file /\ th'[t].inode = th[t].inode
          /\ th'[t].early = th[t].early
      BY <1>6, <2>2, <3>1 DEF ThreadType
    <3>3. th' \in [Threads -> ThreadType]
      BY <1>1, <2>1, <3>2
    <3> QED
      BY <2>1, <3>2, <3>3 DEF Moves
  <2> QED
    BY <2>3, <2>4
<1> QED
  BY <1>1, <1>7, <1>8

LEMMA GetReadInv ==
    ASSUME Inv, NEW t \in Threads, GetRead(t), UNCHANGED clientVars
    PROVE  Inv'
<1>1. /\ th[t].pc = "gread" /\ up' \in [Clients -> Seq(Uploads)]
      /\ UNCHANGED <<backlog, down, clientClosed, broken, alive, fds, file_mutex, dir,
                     content, mode>>
      /\ UNCHANGED <<clientVars, mainVars>>
  BY GetReadEffect
<1>2. PICK l : l \in {"gclose", "gsend"} /\ Moves(t, l)
  BY GetReadEffect
<1>3. Follows(th[t].pc, l) /\ l \in HasFile
  BY <1>1, <1>2 DEF Follows, ThreadLocations, OpOf, HasFile, Fresh, WriteSection
<1>4. /\ NetType' /\ alive' \in BOOLEAN /\ fds' \in [Fds -> Objects]
      /\ dir' \in [Names -> Inodes \cup {Nobody}]
  BY <1>1 DEF Inv, TypeInv, NetType, ServerType
<1> QED
  BY <1>1, <1>2, <1>3, <1>4, MoveInv
-----------------------------------------------------------------------------
LEMMA ThreadInv ==
    ASSUME Inv, NEW t \in Threads, ThreadStep(t), UNCHANGED clientVars
    PROVE  Inv'
  BY ReadArgInv, EnterRecvInv, ReceiveCommandInv, StopInv, CloseSocketInv, SendReplyInv,
     WriteStatInv, LockInv, WriteOpenInv, WriteFailInv, WriteDataInv, CloseFileInv, ChmodInv,
     UnlockInv, GetOpenInv, GetReadInv, GetSendInv, RemoveStatInv, RemoveInv,
     CheckPermissionInv DEF ThreadStep

LEMMA StutterInv ==
    ASSUME Inv, UNCHANGED vars
    PROVE  Inv'
<1>1. UNCHANGED <<backlog, up, down, clientClosed, broken, job, step, sent, alive, main,
                  accepts, client_sock, nextFd, mine, fds, th, file_mutex, dir, content, mode>>
  BY DEF vars, netVars, clientVars, serverVars, mainVars, files
<1>2. TypeInv'
  BY <1>1 DEF Inv, TypeInv, NetType, ClientType, ServerType
<1>3. QueueInv' /\ MainInv'
  BY <1>1 DEF Inv, QueueInv, MainInv
<1>4. OpenInv' /\ MutexInv' /\ InodeInv'
  BY <1>1 DEF Inv, OpenInv, MutexInv, InWriteSection, InodeInv
<1>5. \A t \in Threads : LocalInv(t)'
  BY <1>1 DEF Inv, LocalInv
<1> QED
  BY <1>2, <1>3, <1>4, <1>5 DEF Inv

LEMMA Invariance == Spec => []Inv
<1>1. Init => Inv
  BY InitInv
<1>2. Inv /\ [Next]_vars => Inv'
  <2> SUFFICES ASSUME Inv, [Next]_vars PROVE Inv'
    OBVIOUS
  <2>1. CASE ServerActs
    <3>1. CASE MainStep
      BY <2>1, <3>1, EnterAcceptInv, AcceptInv, CreateThreadInv DEF MainStep, ServerActs
    <3>2. ASSUME NEW t \in Threads, ThreadStep(t) PROVE Inv'
      BY <2>1, <3>2, ThreadInv DEF ServerActs
    <3> QED
      BY <2>1, <3>1, <3>2 DEF ServerActs
  <2>2. ASSUME NEW c \in Clients, ClientActs(c) PROVE Inv'
    BY <2>2, ClientInv
  <2>3. CASE UNCHANGED vars
    BY <2>3, StutterInv
  <2> QED
    BY <2>1, <2>2, <2>3 DEF Next
<1> QED
  BY <1>1, <1>2, PTL DEF Spec

(* Every number main and the threads use as a descriptor is one, and main  *)
(* accepts no more connections than there are clients: accept, pthread_    *)
(* create and handle_client's calls (s.c:83-146) stay within their tables, *)
(* whatever descriptors have been closed twice.                            *)
THEOREM RfsTypeCorrect == Spec => []TypeOK
<1>1. Inv => TypeOK
  <2> SUFFICES ASSUME Inv PROVE TypeOK
    OBVIOUS
  <2>1. /\ main \in {"accept", "accepting", "create"}
        /\ accepts \in 0..Cardinality(Clients)
        /\ client_sock \in 0..MaxFd /\ nextFd \in 0..MaxFd
        /\ file_mutex \in Threads \cup {Nobody}
        /\ \A n \in Names : dir[n] \in Inodes \cup {Nobody}
        /\ \A k \in Inodes : mode[k] \subseteq RW
    BY DEF Inv, TypeInv, ServerType
  <2>2. \A f \in Fds : fds[f] \in {Free, Reserved} \cup {Socket(c) : c \in Clients}
                                  \cup {Open(t) : t \in Threads}
    BY DEF Inv, TypeInv, ServerType, Objects
  <2>3. ASSUME NEW t \in Threads
        PROVE  /\ th[t].pc \in ThreadLocations
               /\ th[t].ref \in Clients \cup {Nobody}
               /\ th[t].pc \notin {"new", "start"} => th[t].sock \in Fds
               /\ th[t].inode \in Inodes \cup {Nobody}
               /\ th[t].early \in BOOLEAN
    BY DEF Inv, TypeInv, ServerType, ThreadType, LocalInv
  <2> QED
    BY <2>1, <2>2, <2>3 DEF TypeOK
<1> QED
  BY <1>1, Invariance, PTL
-----------------------------------------------------------------------------
(* Of all steps, only fopen(..., "wb") and fwrite change what a file holds. *)
LEMMA OthersKeepContent ==
    ASSUME [Next]_vars, content' # content
    PROVE  \E t \in Threads : WriteOpen(t) \/ WriteData(t)
<1>1. ASSUME NEW t \in Threads, ThreadStep(t), ~WriteOpen(t), ~WriteData(t)
      PROVE  content' = content
  <2>1. CASE ReadArg(t) \/ EnterRecv(t) \/ ReceiveCommand(t) \/ Stop(t) \/ CloseSocket(t)
    BY <2>1 DEF ReadArg, EnterRecv, ReceiveCommand, Stop, CloseSocket, files
  <2>2. CASE SendReply(t) \/ WriteStat(t) \/ Lock(t) \/ WriteFail(t) \/ CloseFile(t)
    BY <2>2 DEF SendReply, Sends, WriteStat, Lock, WriteFail, CloseEarly, CloseFile, files
  <2>3. CASE Chmod(t) \/ Unlock(t) \/ GetOpen(t) \/ GetRead(t) \/ GetSend(t)
    BY <2>3 DEF Chmod, Unlock, GetOpen, CloseEarly, GetRead, GetSend, Sends, files
  <2>4. CASE RemoveStat(t) \/ Remove(t) \/ CheckPermission(t)
    BY <2>4 DEF RemoveStat, Remove, CheckPermission, files
  <2> QED
    BY <1>1, <2>1, <2>2, <2>3, <2>4 DEF ThreadStep
<1>2. ASSUME MainStep PROVE content' = content
  BY <1>2 DEF MainStep, EnterAccept, Accept, CreateThread, files
<1>3. ASSUME NEW c \in Clients, ClientActs(c) PROVE content' = content
  BY <1>3 DEF ClientActs, serverVars, files
<1>4. ASSUME UNCHANGED vars PROVE content' = content
  BY <1>4 DEF vars, serverVars, files
<1> QED
  BY <1>1, <1>2, <1>3, <1>4 DEF Next, ServerActs

(* The permission test of write_file comes before the mutex (s.c:167-184), *)
(* so another WRITE's chmod may come between the two.  Still no file       *)
(* without owner write permission changes: its fopen fails, and while a    *)
(* file is open for writing the mutex keeps every chmod away.              *)
THEOREM ReadOnlyCorrect == Spec => ReadOnlyUnchanged
<1>1. ASSUME Inv, [Next]_vars
      PROVE  \A k \in Inodes : "w" \notin mode[k] => content'[k] = content[k]
  <2> SUFFICES ASSUME NEW k \in Inodes, content'[k] # content[k]
               PROVE  "w" \in mode[k]
    OBVIOUS
  <2>1. PICK t \in Threads : WriteOpen(t) \/ WriteData(t)
    BY <1>1, OthersKeepContent
  <2>2. CASE WriteOpen(t)
    <3>1. th[t].pc = "wopen"
      BY <2>2 DEF WriteOpen, At
    <3>2. Name(t) \in Names /\ th[t].inode = Nobody
      BY <1>1, <3>1, NameIsName DEF OpOf, Ops, Inv, LocalInv, Fresh
    <3>3. /\ Exists(Name(t)) => Writable(Name(t))
          /\ content' = [content EXCEPT ![IF Exists(Name(t)) THEN dir[Name(t)] ELSE t] = <<>>]
      BY <2>2 DEF WriteOpen
    <3>4. k = IF Exists(Name(t)) THEN dir[Name(t)] ELSE t
      BY <1>1, <3>3 DEF Inv, TypeInv, ServerType
    <3> QED
      BY <1>1, <3>2, <3>3, <3>4 DEF Writable, Inv, InodeInv
  <2>3. CASE WriteData(t)
    <3>1. k \in FileWritten(t) /\ th[t].pc = "data"
      BY <1>1, <2>3 DEF WriteData, At, Inv, TypeInv, ServerType
    <3>2. th[t].file \in Fds
      BY <1>1, <3>1 DEF Inv, LocalInv, HasFile
    <3>3. PICK u \in Threads : fds[th[t].file] = Open(u)
      <4>1. fds[th[t].file].kind = "file" /\ fds[th[t].file] \in Objects
        BY <1>1, <3>1, <3>2 DEF FileWritten, Inv, TypeInv, ServerType
      <4> QED
        BY <4>1, FileOf
    <3>4. th[u].command.op = "WRITE" /\ k = th[u].inode
      BY <3>1, <3>3 DEF FileWritten, Open
    <3> QED
      BY <1>1, <3>2, <3>3, <3>4 DEF Inv, OpenInv
  <2> QED
    BY <2>1, <2>2, <2>3
<1> QED
  BY <1>1, Invariance, PTL DEF Spec, ReadOnlyUnchanged
=============================================================================
