# Verification of the 5600-computer-system programs

The repository is a collection of small C programs of a course on operating
systems. Six of them keep state whose correctness depends on the order in which
things happen, or on long sequences of calls: a producer/consumer program on a
monitor, a message cache, a remote file system with a multithreaded server, a
priority queue on a doubly linked list, a pipeline that encrypts words in child
processes, and the cipher it uses. This directory holds TLA+ models of these
six, the TLC instances that check them, and proofs about each that TLAPS checks.

## Inventory

| Part | State | Operations | What is hard |
|---|---|---|---|
| `Synchronization_with_Monitors/pqueuepmain.c` | `buffer`, `num`, two totals, a mutex, a condition variable | two producer and two consumer threads, `main` creates and joins | interleavings, one condition variable for two purposes, a test that is stale after a wait, termination |
| `Practicum1` (cache.c, main.c, message.c) | 64 slots of `valid`, `data[1024]`, `message_id`, `access_time`; policy and `time_counter` behind them | `init_cache`, `store_message_in_cache`, `retrieve_message_from_cache`, the two loops of `simulate_accesses` | `sizeof(Message)` is 1048: each store writes 24 bytes past `data` |
| `Practicum1/store.c`, `retrieve.c` | `messages.txt`; `message_N.dat` | append; read | nothing reads the one, nothing writes the other |
| `Practicum2/s.c` | `client_sock` of `main`, `file_mutex`, descriptors, the files | accept loop, one thread per connection: WRITE, GET, RM, LS, STOP | shared variable passed by address, streams without message boundaries, tests outside the mutex, descriptors closed twice, SIGPIPE |
| `Practicum2/c.c` | one connection, one local file | one command per run | closes early, sends at its own pace |
| `process_queue` | a doubly linked list with `head`, `tail`, `size` | `add2q`, `popQ`, `rmProcess`, `qsize` | unlinking from the middle, ties and negative priorities |
| `Multiprocessing` (multiprocessing.c, queue.c, polybius.c) | the word file, the queue, one pipe and child per 100 words, one output file per child | generate, read, fork, write, wait; encrypt | who holds the write end of a pipe, children that fail or end early, pids given out again |
| `create_cipher` | a 6x6 table, a block per call | `pbEncode`, `pbDecode` | inputs outside the table, sizes of the blocks |
| `create_threads` | an array of 5 | writer and reader ordered by sleeps | a race by design |
| `Random_number`, `Memory_Management`, `command-line-argument`, `LearnC` | a seed; a block per line; strings; none | pure or straight-line | ranges and boundaries |

The programs do not call each other, except that `Multiprocessing` uses copies
of the queue, of the cipher and of the random generator. Within a program,
components interact through shared variables and a mutex (monitor), a struct
passed by pointer (cache), calls (queue, cipher), pipes, `wait` and the file
system (pipeline), and TCP streams, a descriptor table and the file system
(file server).

What makes each correct:

- **Monitor**: mutual exclusion; the buffer is a bounded stack; nothing is lost
  or handed out twice; the quota is met and, if exceeded, by how much; no
  waiter is forgotten; the program ends.
- **Cache**: a lookup returns the message of the id it was asked for; a stored
  message is there afterwards; what is replaced is the least recently used.
- **File server**: each thread serves its own connection; a file on the server
  is what one client sent; read-only files stay as they are; everyone comes to
  an end; the server survives its clients.
- **Queue**: the list is a sequence; `size` is its length; no freed node is
  reached; `rmProcess` takes the first element of the highest priority.
- **Pipeline**: every word reaches exactly one child, in order; each child has a
  file of its own, which ends up holding its encrypted words; nobody blocks for
  ever.
- **Cipher**: decoding inverts encoding and refuses what encoding cannot have
  made; the blocks are large enough.

## Modules

| Module | Models | Role |
|---|---|---|
| `BoundedStack` | what the monitor promises | abstract specification |
| `Monitor` | `pqueuepmain.c` | component; implements `BoundedStack` |
| `MonitorProofs` | | theorems about `Monitor` |
| `MessageCache` | `cache.c`, `create_msg`, `simulate_accesses` | component |
| `MessageCacheProofs` | | theorems about `MessageCache` |
| `RfsNet` | the TCP connections between `c.c` and `s.c` | external, from how both use it |
| `RfsClient` | `c.c` | component |
| `RfsServer` | `s.c` | component |
| `Rfs` | clients and server together | composition, properties |
| `RfsProofs` | | theorems about `Rfs`: types, read-only files |
| `RfsWriterProofs` | | theorems about `Rfs`: connections, files of several writers |
| `RfsEndProofs` | | theorems about `Rfs`: what ends the server, who waits for whom |
| `ProcessQueue` | what a queue of processes promises | abstract specification |
| `LinkedQueue` | `process_queue/queue.c` | component; implements `ProcessQueue` |
| `LinkedQueueProofs` | | theorems about `LinkedQueue` |
| `PolybiusTable` | the table of both `polybius.c`, and what encoding a word gives | operators, used by the next two |
| `Cipher` | `create_cipher` | component |
| `CipherProofs` | | theorems about `Cipher` |
| `WordPipeline` | `multiprocessing.c` with its children | component over `ProcessQueue` and `PolybiusTable` |
| `WordPipelineProofs` | | theorems about `WordPipeline` |
| `MCMonitor`, `MCMessageCache`, `MCRfs`, `MCLinkedQueue`, `MCCipher`, `MCWordPipeline` | | instances for TLC |

Definitions whose name ends in an underscore and a word (`MutexFree_Always`,
`StoreIndex_Inverted`) are faulty variants of the definition they are named
after. No specification uses them; they show that each property
can fail, by putting the variant in place of the definition.

### Monitor

A step is what a thread does between two points where another thread can
notice: acquiring the mutex (`Lock`, `Relock`), the quota test (`Quit`,
`GoOn`), the wait loop's test with what follows (`CondWait`, `LeaveLoop`), the
update of the buffer (`Produce`, `Consume`), `Unlock`, and `Broadcast`, which
the code does after the unlock. `pthread_cond_wait` releases and blocks in one
step, and may return without a broadcast (`SpuriousWakeup`). `CallsFail` lets
`pthread_create`, `pthread_cond_wait` and `pthread_cond_broadcast` fail, each of
which ends the program. The buffer holds the producer's counter; the model adds
the producer's name so that items can be told apart. The outer loop's
`sleep()`s only delay.

### MessageCache

The state is the words of the struct that the overrun makes visible, at the
offsets of the usual 64-bit ABI: the table at the head of the module says which
bytes of a `Message` end up where. `Stored` is the slot written after the three
assignments that follow the `memcpy`, `Overrun` what happened to the next slot,
`CounterAfterCopy` what happened to `time_counter` when the slot is the last.
What the code leaves uninitialised is a choice: `Junk` for padding and for what
lies behind the cache, `LastWord` for the last four bytes of `content`, of which
`strncpy` leaves one unset. `main` stores all messages before the first lookup,
and so does the model.

### Rfs

`RfsServer` has one action per call of `s.c` that others can notice. Thread `k`
is the one created after the `k`-th accept. Descriptors are small numbers taken
lowest first, so a number closed twice, or used after it was closed, may by then
stand for another connection or file, and `recv`, `send`, `fread` and `fwrite`
then act on that one (`SentTo`, `FileWritten`, `Unread`). The history field
`early`, which no step reads, records that a handler has closed its socket
after a failed `fopen` (`CloseEarly`), so that `handle_client` closes it twice. `accept` takes its
descriptor before it waits, as Linux
does. A `recv` that blocks keeps its connection alive (`ref`). A file is a
sequence of units; a unit stands for at least a block of stdio, so that
`fwrite` does not hold it back. A directory maps names to inodes, so a file
removed while it is open lives on. `Scanned` is the `sscanf` of the command;
the model takes `permission` as one of 644 and 444, of which the owner's bits
matter, and an uninitialised `command` as an unknown one.

`RfsClient` is one run of `c.c`: connect, one command (`n` is 1), close. Words
on the command line are a job; a line that is no command sends nothing. A WRITE
does not wait for an answer. Losing the client to SIGPIPE while it sends is the
same as sending on to nobody: it has nothing left to do but to close. The
server's first send to a client that has closed is lost or returns an error,
the second raises SIGPIPE (`Sent`, `BrokenBySend`).

`Spaced` says that users start a client only when the previous connection's
thread has read its argument; this is how the program is run by hand and the
only condition under which the code keeps connections apart.

### LinkedQueue and ProcessQueue

`LinkedQueue` keeps the nodes themselves: `node` maps each one to its `data`,
`next` and `prev`, `used` is the set of those between their `malloc` and their
`free`, and a node that is freed becomes `Garbage`. `add2q` and `popQ` have no
loop and are one step; `rmProcess` is a step to start (`RmProcess`), one for
each node its loop looks at (`Visit`) and one to unlink the node it has found
(`Unlink`) or to return `NULL` (`FoundNone`). When all nodes are in use `malloc`
returns `NULL`, `add2q` writes through it and the program ends
(`OutOfMemory`). The auxiliary variable `order` lists the nodes in use in the
order of the queue, nothing else reads it.

`ProcessQueue` is the same without nodes: a sequence, to which `Add` appends,
from which `TakeFront` takes the head and `TakeByPriority` the first element of
the highest priority. A queue in which every priority is below 0 gives `NULL`
(`FindNothing`): the code starts its search from -1.

### WordPipeline

The parent is one process: it checks its argument (`CheckArgs`), makes words
letter by letter with the LCG of the code (`GenLength`, `GenLetter`,
`WriteWord`; `UIntRange` is where unsigned arithmetic wraps), reads them back
into the queue (`ReadWord`), then forks a child per batch (`Fork`), hands it the
words of the batch and a newline after each (`PopWord`, `WriteString`,
`WriteNewLine`), counts it (`CloseBatch`), and in the end waits as often as it
has counted (`Wait`, `Return`). Each child is a record in `children`:
`CloseWriteEnd`, then `SetUp` (the calls of `dup2`, `freopen`, `execl`), then
`polybius` in it: `ReadString` and `ReadNewLine` are what `fgets` takes from the
pipe, `EndOfFile` its exit. A pipe holds `PipeCap` strings; `write` blocks when
it is full, and SIGPIPE ends the parent when the child is gone. A batch of the
code has at most 1600 bytes and never fills a pipe: a small `PipeCap` lets the
model do more than the program. The end of the
input comes when no process holds the write end: the parent's copy
closes at the end of the batch, the child's in `CloseWriteEnd`, and no later
child inherits it because the parent closes it before the next fork. `freopen`
empties `encrypted_output_<pid>.txt`; a pid can be given out again once its
child has been waited for. The queue is the abstract one, which `LinkedQueue`
implements. `CallsFail` lets `malloc`, `fopen`, `pipe`, `fork`, `dup2`,
`freopen` and `execl` fail where the code goes on or ends.

### Cipher

A user runs the program with `-e` and `-d` in any order, on given texts or on
the last ciphertext it printed. A run is the call (`Encode`, `Decode`,
`DecodeOdd`), a step for each round of the loop (`EncodeChar`, `DecodePair`,
`BadPair`) and the result (`Encoding`, `Decoding`). `block` is what was
allocated, `out` what has been written to it. Characters are numbers, those of
the table in the order of the table; `toupper` does what it does to letters.

## Runs

| Run | Instance | Shows |
|---|---|---|
| `monitor` | 2+2 threads, buffer 2, quota 3, failing calls | `TypeOK`, `MutualExclusion`, `NoItemTwice`, `OvershootBound`, `WakeupPending`, `ImplementsStack`, `WorkCompletes` |
| `monitor_hang` | buffer 1, quota 2 | violation: a consumer waits for ever, and `main` with it |
| `cache_store` | 3 slots, 8 messages, 2 lookups, any last word, failing malloc | `TypeOK`, `IndexMatchesData`, `OneHole`, `FlagBeforeHole`, `NewestIsCached` |
| `cache_lru` | 4 slots, 13 messages, zero last word | violation: the newest entry is replaced (`ReplacesOldest`) |
| `rfs_calm` | 2 clients, spaced, no open fails | `OwnThread`, `EveryoneFinishes` |
| `rfs_files` | 2 clients, spaced, all commands on a file that may be missing or read-only, failing `pthread_create`, 4 descriptors, files of 2 units, symmetry | `TypeOK`, `OneSourceIfAllOpen`, `EndsForAReason`, `NoCircleOfWaits`, `ReadOnlyUnchanged` |
| `rfs_race` | 2 clients at any moment | violation: a thread serves the wrong connection (`OwnThread`) |
| `rfs_whole` | 2 clients, spaced | violation: the beginning of a file is lost (`WholeFile`) |
| `rfs_twice` | 3 clients, spaced, that ask for a file or type a line that is no command; one of two files is missing | violation: a socket closed twice, a file sent to another client, SIGPIPE (`OnlyStopEnds`) |
| `queue` | 4 nodes, priorities -1, 0, 0, 2 | `TypeOK`, `ListWellFormed`, `NoDangling`, `ImplementsQueue`, `CallReturns` |
| `pipeline` | 1 to 5 words, batches of 2, pipes of 2 strings, 2 pids, any failing call | `TypeOK`, `OneFileEach`, `EachWordOnce`, `AllEncrypted`, `NobodyStuck`, `Finishes` |
| `cipher` | 2x2 table, texts up to 2 characters, ciphertexts up to 3 | `NoOverflow`, `RoundTrip`, `EncodesLetters`, `DecodesExactly` |

Bounds. Two producers and two consumers are what `main` creates; a buffer of 1
or 2 and a quota of 2 or 3 make threads wait for room and for items, and reach
the quota while others wait. Three or four slots and two to three rounds of
messages pass the last slot several times, which is where the counter is
overwritten. Two clients are enough for what a pair of connections can do to
each other or to a file; a descriptor closed twice ends the server only when a
third connection takes its number, so `rfs_twice` has three. The properties that
two clients satisfy are stated so that more satisfy them too, as the proofs show.
Files have one or two units, so that a reader can be between two of them.
`MaxFd` is 6, enough for all, or 4 where running out is part of the question.
Four nodes make a queue with a head, a tail and two nodes between them, and run
out. A pipe of two strings is full after one word, so that
the parent and a child take turns, a batch of two is closed by
its length or by the end of the queue, and five words are three batches, one
more than there are pids. Ciphertexts of up to three digits, and the
last one printed, are up to two pairs, in and outside the table, and an odd
digit.
Runs say `CHECK_DEADLOCK FALSE` because the programs end or, for the server,
wait for clients that do not come; the cipher never stops and is checked for
deadlock.

Fairness. The monitor's threads run when they can (weak), and a thread that
wants the mutex gets it eventually (strong): holders release it within a few
steps and then sleep for seconds. No fairness makes a spurious wake-up or a
failing call happen. The server's threads and the clients run when they can
(weak), each a process or thread of its own; there `file_mutex` needs no strong
fairness, as each thread locks it at most once. A call of `rmProcess` that has
begun goes on (weak); nothing makes the caller call. The parent of the pipeline
and each of its children are processes that run until they block (weak, one
conjunct each).

### What the checks found in the code

- `monitor_hang`: a consumer that has passed its test may wait for an item
  that never comes; `main` then never returns.
- `rfs_race`: two connections in quick succession are served by two threads on
  the second one, and the first is never served.
- `rfs_whole`: file data that arrives with the command line is dropped. Its
  first character may also become part of the permission (`ScannedPerm`): a file
  starting with an octal digit is then written with another mode.
- `rfs_twice`: a handler whose `fopen` fails closes the socket, and
  `handle_client` closes it again. In between another connection can take the
  number, and it is closed under its thread. In the run that thread is in a GET;
  a third client connects, gets the number, is sent the file and closes, and the
  next send raises SIGPIPE. The server has no handler for it: the process ends,
  and with it the threads of all clients.
- `cache_lru`: the store into the last slot overwrites `time_counter`, so the
  newest entry looks like the oldest. From the third round on the cache replaces
  its newest entry again and again; the other slots keep theirs for good.

The models also show, with no run of their own: with two producers 31 items
are produced, not the 30 that line 66 prints (`OvershootBound` is tight); a
message looked up may carry a `delivered_flag` that is a word of another
message, unless `FlagBeforeHole` applies; a GET that overlaps a WRITE returns
parts of two versions of a file; a client that cannot create its local file for
a GET, and closes, ends the server by SIGPIPE as well (the third reason of
`EndsForAReason`); a thread in a WRITE whose socket another one has closed can go
on to receive from whoever connects next, and stores that client's command line
as file data (`OneSource` holds only as long as no handler has closed its
socket, `AllOpen`); `remove_file` removes a file that became read-only after its
test; a client whose thread could not be created waits for ever, and its socket
stays open as long as the server runs (`LeftOpen`); a child of the pipeline that
cannot execute `polybius` ends the parent by SIGPIPE.

## Proofs

`MonitorProofs`, from `MonitorAssumption` (finite, nonempty, disjoint sets of
threads, positive sizes):

- `TypeCorrect`, `MutexCorrect` by the inductive invariant `SafeInv`, which adds
  to the type and to mutual exclusion that the mutex names the thread in its
  critical section, and that a thread about to act has found room or an item
  since it acquired the mutex. Without the latter, `num` in its range is not
  inductive.
- `OvershootCorrect` by counting the threads past the quota test: total plus the
  number of such threads is at most the quota plus the number of threads less
  one.
- `WakeupCorrect`: what a waiter waits for changes only in a critical section,
  which ends in a broadcast.
- `ItemsCorrect` by an invariant on the counters of the items: every item in the
  buffer or with a consumer is below its producer's counter, so a new one is new.
- `MonitorImplementsStack`: every step of `Monitor` is a push, a pop or a
  stutter of `BoundedStack` under the mapping that reads the live part of the
  buffer as a sequence.

`MessageCacheProofs`, from `CacheAssumption`:

- `CacheTypeCorrect`, `IndexCorrect`, `OneHoleCorrect`, `FlagCorrect`,
  `NewestCorrect`: ids in
  valid slots are below the next one; a store clobbers the id in the next slot's
  data but also makes that slot invalid; and it fills the one hole there is
  before it makes another.
- `FrozenCorrect`: why `ReplacesOldest` fails for every cache size. If the last
  words are zero, the second round leaves the access times such that the last
  slot stays the one to replace, so all other slots keep their messages.

`LinkedQueueProofs`, from `QueueAssumption` (a finite heap, any priorities):

- `QueueTypeCorrect`, `ListCorrect`, `NoDanglingCorrect` by the inductive
  invariant `IInv`: types, both chains as `order` lists them, `size`, and, while
  `rmProcess` looks for its node, what its locals say of the nodes visited so
  far. The pointers alone are not inductive: unlinking is right only because
  `prev` of a node's `next` is that node.
- `ListImplementsQueue`: under the mapping from the nodes to their processes,
  each step of `LinkedQueue` is one of `ProcessQueue` or a stutter; `Unlink`
  takes the first of the highest priority because the scan has seen all nodes.

`CipherProofs`, from `TableAssumption` and `CipherAssumption` (any table size,
any texts):

- `NoOverflowCorrect`, `RoundTripCorrect`, `DecodesExactlyCorrect` by an
  inductive invariant that relates the loop index, the block and what has been
  written: two digits for each letter kept, one letter for each pair. A letter's
  digits are those of its one place in the table, so that decoding finds it
  again.
- `EncodesLettersCorrect` by `LettersInv`, which adds that the letters kept so
  far are those found before the index. "In their order" is said without
  recursion: a character of the text that is in the table is the n-th letter
  kept when n characters up to it are in the table (`Clears`), so that a round
  of the loop is a step of a cardinality.

`WordPipelineProofs`, from `TableAssumption` and `PipelineAssumption` (any
number of words, size of a batch, capacity of a pipe, set of pids, and any
constants of the generator):

- `PipelineTypeCorrect`, `FilesCorrect`, `WordsCorrect`, `EncryptionCorrect` by
  the inductive invariant `IInv`. It says what has been read back and handed
  out (`StartInv`, `HandInv`), how many children are still to be waited for
  (`CountInv`), and of each child (`ChildInv`) that words and newlines alternate
  from the line it reads to the end of its pipe, that its file holds what it has
  printed once it has exited, and where in the file its words are
  (`Delivers`). `EachWordOnce` is not inductive without the alternation: a
  child tells the end of a word by the newline only. That no pid is given out
  twice rests on `ChildInv`, by which nobody is waited for before the last fork.
- `NobodyStuckCorrect` needs `EndsClosed` besides: past its first step no child
  holds the write end of its pipe. A parent that waits has children that it has
  counted and not waited for (`CountInv`), and a full pipe is not an empty one.
- A step of one process leaves what the others deliver alone (`OneMoves`,
  `ChildMoves`); with that, each action is a lemma of its own.

`RfsProofs`, from `NetAssumption`, `ClientAssumption` and `ServerAssumption`
(any finite set of clients, any file sizes and number of descriptors, clients
spaced or not):

- `RfsTypeCorrect`, `ReadOnlyCorrect` by the inductive invariant `Inv`, which
  holds even after descriptors have been closed twice. Accepted and waiting
  connections are distinct (`QueueInv`), so that main accepts no more than there
  are clients; a thread's locals fit the place it has reached (`MainInv`,
  `LocalInv`); an open file is its thread's between `fopen` and `fclose` and may
  be written if it was opened for writing (`OpenInv`); the mutex names the thread
  in the write section (`MutexInv`); the inode a thread's
  `fopen` would make has no name before (`InodeInv`). `ReadOnlyUnchanged` needs the last three: the permission
  test comes before the mutex, so it is `fopen` and the lock that protect the
  file.

`RfsWriterProofs`, on top of `Inv`:

- `OwnThreadCorrect`, `OneSourceCorrect` by `SharedInv`: if clients are spaced
  (`Spaced`) and no handler has closed its socket after a failed `fopen`
  (`AllOpen`), then descriptors belong to one thread each (`ReservedInv`,
  `SpacedInv`, `OwnInv`), what is under way on a connection is the last of what
  its client has sent (`StreamInv`), and the file a thread is writing holds the
  units received last (`WriteInv`). Without `StreamInv`, `OneSource` is not
  inductive: the next unit must be the one after the last stored. A WRITE that is
  refused as read-only closes its socket once and leaves `AllOpen` true.
  `OwnThread` fails in the traces of `rfs_race` and `rfs_twice`: neither
  condition can be dropped.
- What a thread's step does to connections, descriptors and files is stated once
  (`Effect`) and proved per action; the invariants use only that.

`RfsEndProofs`, on top of `Inv` and `SharedInv`:

- `EndsCorrect` by `EndInv`. A STOP that ends the server is some client's
  (`AskedInv`). When accept finds no descriptor, none is reserved for it
  (`ReservedOnce`); every socket is still to be closed by the thread it was
  accepted for, or its thread was never created (`LeakInv`, `CreatedInv`); and
  every open file is its thread's (`OpenInv`). So all descriptors are in threads at
  work (`InUse`) or left open for good (`LeftOpen`), which needs a
  `pthread_create` that fails; a thread that has finished leaves none. The
  third reason, SIGPIPE, needs most: a connection breaks only once its client has
  closed it (`ClosedInv`), a thread carries out its own client's command
  (`OwnCommand`), and the first thing a thread sends never meets a broken
  connection (`AnswerInv`), so only a GET's second send can; a client that
  receives a file stays until the server has closed (`JobInv`, `WaitsInv`), so it
  is a GET whose client could not create its local file. The last three need
  `AllOpen`, and `rfs_twice` shows why; without it `EndsForAReason` says no more
  than that a connection is broken.
- `NoCircleCorrect` by `WaitInv`: the mutex is kept only in the write section
  (`KeptInv`), `main` leaves no thread behind that it has created and that has not
  begun (`CreatedInv`), a client that waits for an answer is no WRITE (`AsksInv`), and
  its command is on its way until its thread has received it (`PendingInv`). So a
  thread in `recv` waits for a client that has something to send or to close, and
  a client that receives, for a thread that does not wait for a client. This is
  the part of `EveryoneFinishes` that is a safety property, for any number of
  clients.
- `Spaced` is needed: `rfs_race` has a client that nobody serves.

Only model-checked: liveness (`WorkCompletes`, `EveryoneFinishes`,
`CallReturns`, `Finishes`), which is beyond the prover. Every invariant and
action property of a passing run is a theorem.

## Not modelled

- `store.c` and `retrieve.c`: no state comes back from the files they write and
  read.
- `find_replacement_index_random`: dead under the compile-time policy.
- Uninitialised `command` and `permission` and the unterminated reply of `s.c`
  and `c.c`; set-up of sockets.
- `create_threads`: two threads without synchronisation, to show a race. The
  comment at the end of the file expects every outcome, so nothing can fail.
- `Random_number`: its generator is the one of `multiprocessing.c`, where it is
  modelled; the rest writes numbers to a file in one loop.
- `Memory_Management`: `load-mem` turns each line into a block of numbers, one
  line at a time; what can go wrong is in `strtok` and `strtol`, character by
  character. `alloc-mem` prints addresses.
- `command-line-argument`: converts the letters of `argv` in place, each by
  itself.
- `LearnC`: floating-point formulas. `Explore_Mutexes`: text.

## Plan

1. `Monitor`, `MessageCache`, `Rfs` with their runs; proofs of the first two.
2. `LinkedQueue` over `ProcessQueue`, `Cipher`, `WordPipeline`, with proofs.
3. Proofs of `Rfs`: types, read-only files, connections, files of several
   writers, what ends the server, who waits for whom.
4. Left: `store.c` if it ever reads back what it writes.
