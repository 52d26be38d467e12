---------------------------- MODULE WordPipeline ----------------------------
(***************************************************************************)
(* Multiprocessing: multiprocessing.c writes random words to a file, reads *)
(* them back into a queue and hands them, a batch at a time, through pipes *)
(* to child processes, which run polybius.c and write the encrypted words  *)
(* to a file named after their pid.  The parent starts the next child as   *)
(* soon as a batch is in the pipe and waits for the children at the end.   *)
(*                                                                         *)
(* The queue is the one of ProcessQueue (LinkedQueue shows that queue.c    *)
(* implements it).  A step is one call that another process can notice, or *)
(* one draw of the random generator; a child's stdio buffer is its own     *)
(* until the child exits (a batch's output is smaller than the buffer).    *)
(***************************************************************************)
EXTENDS PolybiusTable, FiniteSets

CONSTANTS Requests,      \* what argv[1] may ask for
          MinWords,      \* 10000
          BatchSize,     \* 100
          MaxLength,     \* 15, the longest word
          PipeCap,       \* strings that fit in a pipe
          Pids,          \* process ids the system can give to children
          CallsFail,     \* may malloc, fopen, pipe, fork, dup2, freopen, execl fail?
          Seeds, A, C, M, UIntRange     \* of the generator; UIntRange is 2^32

ASSUME PipelineAssumption ==
    /\ Requests \subseteq Int
    /\ MinWords \in Nat /\ BatchSize \in Nat \ {0}
    /\ MaxLength \in Nat \ {0} /\ MaxLength < 255      \* the buffers of fscanf and fgets
    /\ PipeCap \in Nat \ {0}
    /\ IsFiniteSet(Pids)
    /\ CallsFail \in BOOLEAN
    /\ Seeds \subseteq Nat
    /\ A \in Nat /\ C \in Nat /\ M \in Nat \ {0} /\ UIntRange \in Nat \ {0}

VARIABLES main,          \* where the parent is
          numOfWords,    \* argv[1]
          seed, length,  \* of the generator, of the word being made
          word,          \* the word in hand: being made, or popped
          file, pos,     \* the words in the file, how many have been read back
          queue,
          i,             \* words of this batch written so far
          processCount,
          children,      \* in the order of their forks
          output         \* the contents of encrypted_output_<pid>.txt

generator == <<seed, length, file>>
vars == <<main, numOfWords, generator, word, pos, queue, i, processCount, children, output>>

Q == INSTANCE ProcessQueue
       WITH Processes <- Seq(Letters), Priority <- <<>>, NULL <- <<>>, result <- word

NewLine == <<-1>>      \* the string "\n"; no character has that number

(* A child: calls tells whether one of its calls has failed; ownEnd is its *)
(* copy of the write end of its pipe; line, what it has read of a line;    *)
(* out, its stdout buffer.                                                 *)
NewChild(pid) == [pid |-> pid, pc |-> "forked", ownEnd |-> "open", calls |-> "ok",
                  stdout |-> "inherited", pipe |-> <<>>, line |-> <<>>, out |-> <<>>]

Init ==
    /\ main = "args"
    /\ numOfWords \in Requests
    /\ seed \in Seeds
    /\ length = 0 /\ word = <<>>
    /\ file = <<>> /\ pos = 0
    /\ queue = <<>>
    /\ i = 0 /\ processCount = 0
    /\ children = <<>>
    /\ output = [p \in Pids |-> <<>>]
-----------------------------------------------------------------------------
(* Task 1.  return 1 and exit(1) end in "failed".                          *)
LCG == ((A * seed + C) % UIntRange) % M
genRand_NoMin(lo, hi) == LCG % (hi - lo + 1)
genRand(lo, hi) == (LCG % (hi - lo + 1)) + lo

Fails(from) ==
    /\ main = from
    /\ main' = "failed"
    /\ UNCHANGED <<numOfWords, generator, word, pos, queue, i, processCount, children, output>>

CheckArgs ==
    /\ main = "args"
    /\ numOfWords >= MinWords
    /\ main' = "length"
    /\ UNCHANGED <<numOfWords, generator, word, pos, queue, i, processCount, children, output>>

TooFewWords == numOfWords < MinWords /\ Fails("args")

GenLength ==
    /\ main = "length"
    /\ Len(file) < numOfWords
    /\ seed' = LCG
    /\ length' = genRand(1, MaxLength)
    /\ word' = <<>>
    /\ main' = "letters"
    /\ UNCHANGED <<numOfWords, file, pos, queue, i, processCount, children, output>>

GenLetter ==
    /\ main = "letters"
    /\ Len(word) < length
    /\ seed' = LCG
    /\ word' = Append(word, genRand(0, 2 * Alphabet - 1))
    /\ UNCHANGED <<main, numOfWords, length, file, pos, queue, i, processCount, children, output>>

WriteWord ==
    /\ main = "letters"
    /\ Len(word) = length
    /\ file' = Append(file, word)
    /\ main' = "length"
    /\ UNCHANGED <<numOfWords, seed, length, word, pos, queue, i, processCount, children, output>>

(* Task 2.  fscanf skips white space, so an empty word would be lost.      *)
Generated ==
    /\ main = "length"
    /\ Len(file) >= numOfWords
    /\ main' = "read"
    /\ UNCHANGED <<numOfWords, generator, word, pos, queue, i, processCount, children, output>>

ReadWord ==
    /\ main = "read"
    /\ pos < Len(file)
    /\ pos' = pos + 1
    /\ IF file[pos + 1] # <<>> THEN Q!Add(file[pos + 1]) ELSE UNCHANGED <<queue, word>>
    /\ UNCHANGED <<main, numOfWords, generator, i, processCount, children, output>>

ReadAll ==
    /\ main = "read"
    /\ pos = Len(file)
    /\ main' = "loop"
    /\ UNCHANGED <<numOfWords, generator, word, pos, queue, i, processCount, children, output>>
-----------------------------------------------------------------------------
(* Task 3.  A pid is taken until the child has been waited for; when there *)
(* is none, fork fails.                                                    *)
Newest == Len(children)
FreePids == Pids \ {children[k].pid : k \in {j \in 1..Newest : children[j].pc # "reaped"}}

FirstOfBatch_Continued == i
FirstOfBatch == 0

Fork ==
    /\ main = "loop"
    /\ queue # <<>>
    /\ \E p \in FreePids : children' = Append(children, NewChild(p))
    /\ i' = FirstOfBatch
    /\ main' = "batch"
    /\ UNCHANGED <<numOfWords, generator, word, pos, queue, processCount, output>>

NoFork == queue # <<>> /\ (FreePids = {} \/ CallsFail) /\ Fails("loop")

PopWord ==
    /\ main = "batch"
    /\ i < BatchSize
    /\ Q!TakeFront
    /\ main' = "word"
    /\ UNCHANGED <<numOfWords, generator, pos, i, processCount, children, output>>

(* write() blocks while the pipe is full and the child lives; with no one  *)
(* left to read, SIGPIPE ends the parent.                                  *)
Reads(k) == children[k].pc \in {"forked", "setup", "run"}

Write(from, string, to, written) ==
    /\ main = from
    /\ IF Reads(Newest)
       THEN /\ Len(children[Newest].pipe) < PipeCap
            /\ children' = [children EXCEPT ![Newest].pipe = Append(@, string)]
            /\ main' = to
            /\ i' = written
       ELSE main' = "failed" /\ UNCHANGED <<children, i>>
    /\ UNCHANGED <<numOfWords, generator, word, pos, queue, processCount, output>>

WriteString == Write("word", word, "newline", i)
WriteNewLine == Write("newline", NewLine, "batch", i + 1)

Counted_FullOnly == IF i = BatchSize THEN processCount + 1 ELSE processCount
Counted == processCount + 1

CloseBatch ==
    /\ main = "batch"
    /\ i = BatchSize \/ queue = <<>>
    /\ processCount' = Counted
    /\ main' = "loop"
    /\ UNCHANGED <<numOfWords, generator, word, pos, queue, i, children, output>>

AllHandedOut ==
    /\ main = "loop"
    /\ queue = <<>>
    /\ main' = "wait"
    /\ UNCHANGED <<numOfWords, generator, word, pos, queue, i, processCount, children, output>>

(* wait(NULL) blocks until a child has exited, whichever.                  *)
Wait ==
    /\ main = "wait"
    /\ processCount > 0
    /\ \E k \in 1..Newest : /\ children[k].pc = "zombie"
                          /\ children' = [children EXCEPT ![k].pc = "reaped"]
    /\ processCount' = processCount - 1
    /\ UNCHANGED <<main, numOfWords, generator, word, pos, queue, i, output>>

Return ==
    /\ main = "wait"
    /\ processCount = 0
    /\ main' = "returned"
    /\ UNCHANGED <<numOfWords, generator, word, pos, queue, i, processCount, children, output>>

(* malloc in genWord, fopen twice, strdup.                                 *)
CallFails == CallsFail /\ \E l \in {"args", "length", "read"} : Fails(l)

ParentStep ==
    \/ CheckArgs \/ TooFewWords \/ GenLength \/ GenLetter \/ WriteWord \/ Generated
    \/ ReadWord \/ ReadAll \/ Fork \/ NoFork \/ PopWord \/ WriteString \/ WriteNewLine
    \/ CloseBatch \/ AllHandedOut \/ Wait \/ Return \/ CallFails
-----------------------------------------------------------------------------
KeepsParent == UNCHANGED <<main, numOfWords, generator, word, pos, queue, i, processCount>>

OwnEndAfterClose_Kept == "open"
OwnEndAfterClose == "closed"

CloseWriteEnd(k) ==
    /\ children[k].pc = "forked"
    /\ children' = [children EXCEPT ![k].ownEnd = OwnEndAfterClose, ![k].pc = "setup"]
    /\ KeepsParent /\ UNCHANGED output

(* dup2, freopen, execl.  freopen empties the file; when it fails, stdout  *)
(* is closed and the child goes on.  The other two end the child when they *)
(* fail, before the file is emptied or after.                              *)
Exited_AutoReaped == "reaped"
Exited == "zombie"

SetUp(k) ==
    /\ children[k].pc = "setup"
    /\ children' = [children EXCEPT ![k].pc = "run", ![k].stdout = "file"]
    /\ output' = [output EXCEPT ![children[k].pid] = <<>>]
    /\ KeepsParent

FreopenFails(k) ==
    /\ CallsFail
    /\ children[k].pc = "setup"
    /\ children' = [children EXCEPT ![k].pc = "run", ![k].stdout = "closed", ![k].calls = "failed"]
    /\ KeepsParent /\ UNCHANGED output

SetUpFails(k) ==
    /\ CallsFail
    /\ children[k].pc = "setup"
    /\ children' = [children EXCEPT ![k].pc = Exited, ![k].calls = "failed"]
    /\ output' \in {output, [output EXCEPT ![children[k].pid] = <<>>]}
    /\ KeepsParent

(* polybius.c: fgets to the end of a line, encode, print.  When malloc     *)
(* fails the line is left out.                                             *)
ReadString(k) ==
    /\ children[k].pc = "run"
    /\ children[k].pipe # <<>>
    /\ Head(children[k].pipe) # NewLine
    /\ children' = [children EXCEPT ![k].pipe = Tail(@), ![k].line = @ \o Head(children[k].pipe)]
    /\ KeepsParent /\ UNCHANGED output

ReadNewLine(k) ==
    /\ children[k].pc = "run"
    /\ children[k].pipe # <<>>
    /\ Head(children[k].pipe) = NewLine
    /\ \/ children' = [children EXCEPT ![k].pipe = Tail(@), ![k].line = <<>>,
                                       ![k].out = Append(@, Encoded(children[k].line))]
       \/ /\ CallsFail
          /\ children' = [children EXCEPT ![k].pipe = Tail(@), ![k].line = <<>>,
                                          ![k].calls = "failed"]
    /\ KeepsParent /\ UNCHANGED output

(* The end of the file, once no process holds the write end: the rest of   *)
(* a line, then exit, which writes the buffer to the file.                 *)
HasWriter(k) ==
    \/ children[k].ownEnd = "open"
    \/ k = Newest /\ main \in {"batch", "word", "newline"}

Printed(k) ==
    IF children[k].line = <<>> THEN children[k].out
    ELSE Append(children[k].out, Encoded(children[k].line))

EndOfFile(k) ==
    /\ children[k].pc = "run"
    /\ children[k].pipe = <<>>
    /\ ~HasWriter(k)
    /\ output' = IF children[k].stdout = "file"
                 THEN [output EXCEPT ![children[k].pid] = @ \o Printed(k)] ELSE output
    /\ children' = [children EXCEPT ![k].pc = Exited, ![k].line = <<>>, ![k].out = Printed(k)]
    /\ KeepsParent

ChildStep(k) ==
    \/ CloseWriteEnd(k) \/ SetUp(k) \/ FreopenFails(k) \/ SetUpFails(k)
    \/ ReadString(k) \/ ReadNewLine(k) \/ EndOfFile(k)

Next == ParentStep \/ \E k \in 1..Newest : ChildStep(k)

Spec == Init /\ [][Next]_vars

(* Every process runs on until it blocks.                                  *)
FairSpec ==
    /\ Spec
    /\ WF_vars(ParentStep)
    /\ \A k \in 1..Cardinality(Pids) : WF_vars(k <= Newest /\ ChildStep(k))
-----------------------------------------------------------------------------
Words == {w \in Seq(Letters) : Len(w) \in 1..MaxLength}

Child == [pid : Pids, pc : {"forked", "setup", "run", "zombie", "reaped"},
          ownEnd : {"open", "closed"}, calls : {"ok", "failed"},
          stdout : {"inherited", "file", "closed"},
          pipe : Seq(Words \cup {NewLine}), line : Words \cup {<<>>}, out : Seq(Seq(Int))]

(* Every word that is handed on is a word: not empty, which fscanf would   *)
(* skip, and no longer than the buffers it is read into, so that no line   *)
(* is read in two pieces.                                                  *)
TypeOK ==
    /\ main \in {"args", "length", "letters", "read", "loop", "batch", "word", "newline",
                 "wait", "returned", "failed"}
    /\ seed \in Nat
    /\ length \in 0..MaxLength
    /\ word \in Seq(Letters)
    /\ file \in Seq(Words) /\ pos \in 0..Len(file)
    /\ queue \in Seq(Words)
    /\ i \in 0..BatchSize
    /\ processCount \in 0..Newest
    /\ children \in Seq(Child) /\ \A k \in 1..Newest : Len(children[k].pipe) <= PipeCap

(* The output files are named after pids, and freopen empties a file that  *)
(* is there: no two children of the run ever have the same pid, because    *)
(* none is waited for before the last one has been forked.                 *)
OneFileEach ==
    \A j, k \in 1..Newest : j # k => children[j].pid # children[k].pid

(* Where the words of a batch are: the k-th child gets the k-th BatchSize  *)
(* words of the file, as a stream of words and newlines.                   *)
Base(k) == (k - 1) * BatchSize
Written(k) == IF k < Newest THEN 2 * BatchSize
              ELSE IF main = "newline" THEN 2 * i + 1 ELSE 2 * i
Consumed(x) == IF x.line = <<>> THEN 2 * Len(x.out) ELSE 2 * Len(x.out) + 1
StreamUnit(k, j) == IF j % 2 = 1 THEN file[Base(k) + (j + 1) \div 2] ELSE NewLine

Delivers(k, x) ==
    /\ Consumed(x) + Len(x.pipe) = Written(k)
    /\ \A j \in 1..Len(x.pipe) : x.pipe[j] = StreamUnit(k, Consumed(x) + j)
    /\ x.line # <<>> => x.line = file[Base(k) + Len(x.out) + 1]
    /\ \A j \in 1..Len(x.out) : x.out[j] = Encoded(file[Base(k) + j])

(* Each word is in one place, and in its turn: whatever the children do    *)
(* meanwhile, what a child has printed, what it is reading, what is in its *)
(* pipe and what is in the queue follow each other in the file.  It holds  *)
(* of every child but those a call of which has failed, and of the last    *)
(* one when the parent fails.                                              *)
InHand == IF main \in {"word", "newline"} THEN 1 ELSE 0
Taken == IF Newest = 0 THEN 0 ELSE Base(Newest) + i + InHand

EachWordOnce ==
    main \in {"loop", "batch", "word", "newline", "wait", "returned"} =>
        /\ queue = SubSeq(file, Taken + 1, numOfWords)
        /\ InHand = 1 => word = file[Taken]
        /\ \A k \in 1..Newest : children[k].calls = "ok" => Delivers(k, children[k])

(* "generate encrypted text files" (README:18): when the program returns   *)
(* and no call of a child has failed, the files, in the order of the       *)
(* forks, hold the encrypted words of the word file, and nobody is left:   *)
(* wait was called once for each child.                                    *)
BatchLength(k) == IF k < Newest THEN BatchSize ELSE numOfWords - Base(Newest)

AllEncrypted ==
    main = "returned" =>
        /\ Taken = numOfWords
        /\ \A k \in 1..Newest :
              /\ children[k].pc = "reaped"
              /\ children[k].calls = "ok" =>
                    output[children[k].pid] =
                        [j \in 1..BatchLength(k) |-> Encoded(file[Base(k) + j])]

(* No circle of processes waits on itself (the write at multiprocessing.c  *)
(* line 144, the wait at 161, the close of the inherited end at 121): a    *)
(* parent that waits does so for a child that is still at work, and while  *)
(* it waits, or is gone, no child waits for input that nobody would send.  *)
ParentBlocked ==
    \/ main \in {"word", "newline"} /\ Reads(Newest) /\ Len(children[Newest].pipe) >= PipeCap
    \/ main = "wait" /\ processCount > 0 /\ \A k \in 1..Newest : children[k].pc # "zombie"

ChildBlocked(k) == children[k].pc = "run" /\ children[k].pipe = <<>> /\ HasWriter(k)

NobodyStuck ==
    /\ ParentBlocked => \E k \in 1..Newest : Reads(k)
    /\ ParentBlocked \/ main \in {"returned", "failed"} =>
          \A k \in 1..Newest : ~ChildBlocked(k)

(* The pipes do not lock the processes up: the parent, blocked on a full   *)
(* pipe, is let go by a child that reads; a child sees the end of its      *)
(* input because no one else holds the write end; wait finds its children. *)
Finishes ==
    <>(/\ main \in {"returned", "failed"}
       /\ \A k \in 1..Newest : children[k].pc \in {"zombie", "reaped"})
=============================================================================
