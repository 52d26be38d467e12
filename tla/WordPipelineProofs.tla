------------------------ MODULE WordPipelineProofs --------------------------
(***************************************************************************)
(* Theorems about WordPipeline, for any number of words, size of a batch,  *)
(* capacity of the pipes and set of process ids.                           *)
(***************************************************************************)
EXTENDS WordPipeline, SequenceTheorems, FiniteSetTheorems, TLAPS

Starting == {"args", "length", "letters", "read"}
Writing == {"batch", "word", "newline"}
Handing == {"loop", "wait", "returned"} \cup Writing

TypeInv ==
    /\ main \in Starting \cup Handing \cup {"failed"}
    /\ numOfWords \in Int
    /\ seed \in Nat
    /\ length \in 0..MaxLength
    /\ word \in Seq(Letters)
    /\ file \in Seq(Words) /\ pos \in 0..Len(file)
    /\ queue \in Seq(Words)
    /\ i \in 0..BatchSize
    /\ processCount \in 0..Newest
    /\ children \in Seq(Child)
    /\ output \in [Pids -> Seq(Seq(Int))]

(* Before the first fork.                                                  *)
StartInv ==
    /\ main \in Starting => children = <<>> /\ processCount = 0
    /\ main \in Starting \ {"read"} => pos = 0 /\ queue = <<>>
    /\ main = "args" => file = <<>>
    /\ main = "length" => Len(file) <= numOfWords
    /\ main = "letters" => /\ Len(file) < numOfWords
                           /\ length \in 1..MaxLength /\ Len(word) <= length
    /\ main = "read" => Len(file) = numOfWords /\ queue = SubSeq(file, 1, pos)

(* What has been taken from the queue, and what remains in it.             *)
HandInv ==
    main \in Handing =>
        /\ Len(file) = numOfWords
        /\ Taken <= numOfWords
        /\ queue = SubSeq(file, Taken + 1, numOfWords)
        /\ InHand = 1 => word = file[Taken] /\ word \in Words /\ i < BatchSize
        /\ main = "loop" => queue = <<>> \/ Newest = 0 \/ i = BatchSize
        /\ main \in {"wait", "returned"} => Taken = numOfWords

Unreaped == {k \in 1..Newest : children[k].pc # "reaped"}

CountInv ==
    /\ main = "loop" => processCount = Newest
    /\ main \in Writing => processCount = Newest - 1
    /\ main \in {"wait", "returned"} => processCount = Cardinality(Unreaped)
    /\ main = "returned" => processCount = 0

(* Words and newlines alternate from the line read to the end of the pipe. *)
Alternates(x) ==
    /\ x.pipe # <<>> => (x.line # <<>> <=> x.pipe[1] = NewLine)
    /\ \A j \in 1..Len(x.pipe) - 1 : x.pipe[j] = NewLine <=> x.pipe[j + 1] # NewLine

MidLine(x) == IF x.pipe = <<>> THEN x.line # <<>> ELSE x.pipe[Len(x.pipe)] # NewLine

(* The file of a child none of whose calls has failed.                     *)
FileInv(x) ==
    /\ x.pc = "run" => x.stdout = "file" /\ output[x.pid] = <<>>
    /\ x.pc \in {"zombie", "reaped"} =>
          output[x.pid] = x.out /\ x.pipe = <<>> /\ x.line = <<>>

ChildInv(k, x) ==
    /\ Len(x.pipe) <= PipeCap
    /\ Alternates(x)
    /\ k = Newest /\ main \in {"batch", "word"} => ~MidLine(x)
    /\ k = Newest /\ main = "newline" => MidLine(x)
    /\ x.pc = "reaped" => main \in {"wait", "returned"}
    /\ x.calls = "ok" => FileInv(x) /\ (main \in Handing => Delivers(k, x))

IInv ==
    /\ TypeInv /\ StartInv /\ HandInv /\ CountInv
    /\ OneFileEach
    /\ \A k \in 1..Newest : ChildInv(k, children[k])
-----------------------------------------------------------------------------
(* Every letter is in the table once it is upper case.                     *)
LEMMA LettersInTable ==
  ASSUME NEW c \in Letters
  PROVE  InTable(toupper(c))
<1> DEFINE n == toupper(c) - Alphabet
<1>1. n \in 0..Alphabet-1 /\ n < TABLE_SIZE * TABLE_SIZE /\ toupper(c) = Alphabet + n
  BY TableAssumption DEF Letters, toupper
<1>2. \E r, k \in Index : n = r * TABLE_SIZE + k
  <2>1. n \in Int /\ 0 <= n /\ n < TABLE_SIZE * TABLE_SIZE /\ TABLE_SIZE \in 1..9
    BY <1>1, TableAssumption
  <2> HIDE DEF n
  <2> DEFINE r == n \div TABLE_SIZE
             k == n % TABLE_SIZE
  <2>2. \A T \in 1..9 : n < T * T =>
            n \div T \in 0..T-1 /\ n % T \in 0..T-1 /\ n = (n \div T) * T + (n % T)
    BY <2>1
  <2> QED BY <2>1, <2>2 DEF Index
<1>3. PICK r \in Index, k \in Index : n = r * TABLE_SIZE + k
  BY <1>2
<1>4. table[<<r, k>>] = Alphabet + r * TABLE_SIZE + k
  BY DEF table
<1>5. r \in Int /\ k \in Int /\ TABLE_SIZE \in Int /\ Alphabet \in Int
  BY TableAssumption DEF Index
<1>6. Alphabet + r * TABLE_SIZE + k = toupper(c)
  BY <1>1, <1>3, <1>5
<1> QED BY <1>4, <1>6 DEF InTable

LEMMA EncodedSeq ==
  ASSUME NEW w \in Seq(Letters)
  PROVE  Encoded(w) \in Seq(Int)
<1>1. \A c \in Letters : Digits(c)[1] \in Int /\ Digits(c)[2] \in Int
  <2> TAKE c \in Letters
  <2>1. helperFindChar(toupper(c)) \in Index \X Index
    BY LettersInTable DEF InTable, helperFindChar
  <2> QED BY <2>1, TableAssumption DEF Digits, Index
<1>2. Len(w) \in Nat /\ \A j \in 1..Len(w) : w[j] \in Letters
  OBVIOUS
<1>3. \A k \in 1..2*Len(w) : /\ k % 2 = 1 => (k + 1) \div 2 \in 1..Len(w)
                             /\ k % 2 # 1 => k \div 2 \in 1..Len(w)
  BY <1>2
<1>4. \A k \in 1..2*Len(w) : (IF k % 2 = 1 THEN Digits(w[(k + 1) \div 2])[1]
                                           ELSE Digits(w[k \div 2])[2]) \in Int
  BY <1>1, <1>2, <1>3
<1>5. 2 * Len(w) \in Nat
  BY <1>2
<1> QED BY <1>4, <1>5 DEF Encoded

(* What the generator returns, for any of its constants.                   *)
LEMMA GenRandRange ==
  ASSUME seed \in Nat, NEW lo \in Int, NEW hi \in Int, lo <= hi
  PROVE  genRand(lo, hi) \in lo..hi /\ LCG \in Nat
<1>1. \A x \in Int, d \in Nat \ {0} : x % d \in 0..d-1
  OBVIOUS
<1>2. A * seed + C \in Int
  BY PipelineAssumption
<1>3. LCG \in 0..M-1
  BY <1>1, <1>2, PipelineAssumption DEF LCG
<1>4. LCG \in Nat
  BY <1>3, PipelineAssumption
<1>5. LCG % (hi - lo + 1) \in 0..hi-lo
  <2>1. hi - lo + 1 \in Nat \ {0} /\ LCG \in Int
    BY <1>4
  <2>2. LCG % (hi - lo + 1) \in 0..(hi - lo + 1) - 1
    BY <1>1, <2>1
  <2> QED BY <2>1, <2>2
<1> HIDE DEF LCG
<1>6. genRand(lo, hi) \in lo..hi
  <2> DEFINE r == LCG % (hi - lo + 1)
  <2>1. r \in 0..hi-lo
    BY <1>5
  <2> HIDE DEF r
  <2>2. r + lo \in lo..hi
    BY <2>1
  <2> QED BY <2>2 DEF genRand, r
<1> QED BY <1>4, <1>6

(* A newline is no word, and a word is not empty.                          *)
LEMMA WordFacts ==
  ASSUME NEW w \in Words
  PROVE  w \in Seq(Letters) /\ w # <<>> /\ w # NewLine
<1>1. w \in Seq(Letters) /\ Len(w) \in 1..MaxLength
  BY DEF Words
<1>2. w # <<>>
  BY <1>1
<1>3. w[1] \in Letters
  BY <1>1
<1>4. -1 \notin Letters
  BY TableAssumption DEF Letters
<1> QED BY <1>1, <1>2, <1>3, <1>4 DEF NewLine

LEMMA BaseFacts ==
  /\ \A k \in Int : Base(k) \in Int /\ Base(k + 1) = Base(k) + BatchSize
  /\ Base(1) = 0
<1>1. BatchSize \in Nat \ {0}
  BY PipelineAssumption
<1>2. \A k, b \in Int : (k - 1) * b \in Int /\ ((k + 1) - 1) * b = (k - 1) * b + b
  OBVIOUS
<1> QED BY <1>1, <1>2 DEF Base
-----------------------------------------------------------------------------
LEMMA InitInv == Init => IInv
<1> SUFFICES ASSUME Init PROVE IInv
  OBVIOUS
<1> USE DEF Init
<1>1. TypeInv
  BY PipelineAssumption DEF TypeInv, Newest, Starting
<1>2. StartInv /\ HandInv /\ CountInv
  BY DEF StartInv, HandInv, CountInv, Starting, Handing, Writing
<1>3. Newest = 0
  BY DEF Newest
<1> QED BY <1>1, <1>2, <1>3 DEF IInv, OneFileEach

(* The steps of the parent before it forks.                                *)
LEMMA StartSteps ==
  ASSUME IInv,
         \/ CheckArgs \/ TooFewWords \/ GenLength \/ GenLetter \/ WriteWord \/ Generated
         \/ ReadWord \/ ReadAll \/ CallFails
  PROVE  IInv'
<1> USE DEF IInv, TypeInv, Starting
<1>1. children = <<>> /\ processCount = 0 /\ main \in Starting
  BY DEF StartInv, CheckArgs, TooFewWords, GenLength, GenLetter, WriteWord, Generated,
         ReadWord, ReadAll, CallFails, Fails
<1>2. children' = <<>> /\ processCount' = 0 /\ UNCHANGED <<numOfWords, i, output>>
  BY <1>1 DEF CheckArgs, TooFewWords, GenLength, GenLetter, WriteWord, Generated,
              ReadWord, ReadAll, CallFails, Fails, generator
<1>3. Newest = 0 /\ Newest' = 0
  BY <1>1, <1>2 DEF Newest
<1>4. OneFileEach' /\ \A k \in 1..Newest' : ChildInv(k, children[k])'
  BY <1>3 DEF OneFileEach
<1>5. CASE CheckArgs
  <2>1. TypeInv'
    BY <1>1, <1>2, <1>3, <1>5 DEF CheckArgs, generator
  <2>2. StartInv' /\ HandInv' /\ CountInv'
    BY <1>2, <1>5, PipelineAssumption
    DEF StartInv, HandInv, CountInv, CheckArgs, generator, Handing, Writing
  <2> QED BY <1>4, <2>1, <2>2
<1>6. CASE TooFewWords \/ CallFails
  <2>1. main' = "failed" /\ UNCHANGED <<generator, word, pos, queue>>
    BY <1>6 DEF TooFewWords, CallFails, Fails
  <2>2. TypeInv'
    BY <1>1, <1>2, <1>3, <2>1 DEF generator
  <2>3. StartInv' /\ HandInv' /\ CountInv'
    BY <1>2, <2>1 DEF StartInv, HandInv, CountInv, Handing, Writing
  <2> QED BY <1>4, <2>2, <2>3
<1>7. CASE GenLength
  <2>1. genRand(1, MaxLength) \in 1..MaxLength /\ LCG \in Nat
    <3>1. seed \in Nat /\ 1 \in Int /\ MaxLength \in Int /\ 1 <= MaxLength
      BY PipelineAssumption
    <3> QED BY ONLY <3>1, GenRandRange
  <2>2. TypeInv'
    BY <1>1, <1>2, <1>3, <1>7, <2>1 DEF GenLength
  <2>3. StartInv' /\ HandInv' /\ CountInv'
    BY <1>2, <1>7, <2>1, PipelineAssumption
    DEF StartInv, HandInv, CountInv, GenLength, Handing, Writing
  <2> QED BY <1>4, <2>2, <2>3
<1>8. CASE GenLetter
  <2>1. genRand(0, 2 * Alphabet - 1) \in Letters /\ LCG \in Nat
    BY GenRandRange, TableAssumption DEF Letters
  <2>2. TypeInv'
    BY <1>1, <1>2, <1>3, <1>8, <2>1 DEF GenLetter
  <2>3. Len(word') = Len(word) + 1
    BY <1>8 DEF GenLetter
  <2>4. StartInv' /\ HandInv' /\ CountInv'
    BY <1>2, <1>8, <2>3 DEF StartInv, HandInv, CountInv, GenLetter, Handing, Writing
  <2> QED BY <1>4, <2>2, <2>4
<1>9. CASE WriteWord
  <2>1. word \in Words
    BY <1>9 DEF WriteWord, StartInv, Words
  <2>2. file' \in Seq(Words) /\ Len(file') = Len(file) + 1
    BY <1>9, <2>1 DEF WriteWord
  <2>3. TypeInv'
    BY <1>1, <1>2, <1>3, <1>9, <2>2 DEF WriteWord, StartInv
  <2>4. StartInv' /\ HandInv' /\ CountInv'
    BY <1>2, <1>9, <2>2 DEF StartInv, HandInv, CountInv, WriteWord, Handing, Writing
  <2> QED BY <1>4, <2>3, <2>4
<1>10. CASE Generated
  <2>1. TypeInv'
    BY <1>1, <1>2, <1>3, <1>10 DEF Generated, generator
  <2>2. queue = SubSeq(file, 1, pos)
    BY <1>10 DEF Generated, StartInv
  <2>3. StartInv' /\ HandInv' /\ CountInv'
    BY <1>2, <1>10, <2>2 DEF StartInv, HandInv, CountInv, Generated, generator, Handing, Writing
  <2> QED BY <1>4, <2>1, <2>3
<1>11. CASE ReadWord
  <2>1. pos + 1 \in 1..Len(file) /\ file[pos + 1] \in Words
    BY <1>11 DEF ReadWord
  <2>2. queue' = Append(queue, file[pos + 1]) /\ word' = word /\ pos' = pos + 1
    BY <1>11, <2>1, WordFacts DEF ReadWord, Q!Add
  <2>3. TypeInv'
    BY <1>1, <1>2, <1>3, <1>11, <2>1, <2>2 DEF ReadWord, generator
  <2>4. queue' = SubSeq(file, 1, pos + 1)
    BY <1>11, <2>1, <2>2 DEF ReadWord, StartInv
  <2>5. StartInv' /\ HandInv' /\ CountInv'
    BY <1>2, <1>11, <2>2, <2>4
    DEF StartInv, HandInv, CountInv, ReadWord, generator, Handing, Writing
  <2> QED BY <1>4, <2>3, <2>5
<1>12. CASE ReadAll
  <2>1. TypeInv'
    BY <1>1, <1>2, <1>3, <1>12 DEF ReadAll, generator, Handing
  <2>2. queue = SubSeq(file, 1, numOfWords) /\ Len(file) = numOfWords
    BY <1>12 DEF ReadAll, StartInv
  <2>3. Taken' = 0 /\ InHand' = 0 /\ numOfWords \in Nat
    BY <1>3, <1>12, <2>2 DEF Taken, InHand, ReadAll
  <2>4. StartInv' /\ HandInv' /\ CountInv'
    BY <1>2, <1>3, <1>12, <2>2, <2>3
    DEF StartInv, HandInv, CountInv, ReadAll, generator, Handing, Writing
  <2> QED BY <1>4, <2>1, <2>4
<1> QED BY <1>5, <1>6, <1>7, <1>8, <1>9, <1>10, <1>11, <1>12
-----------------------------------------------------------------------------
(* A step of the parent that leaves the children alone.                    *)
LEMMA ChildrenKept ==
  ASSUME IInv, main \in Handing, UNCHANGED <<children, output, file, i>>,
         main \in {"wait", "returned"} => main' \in {"wait", "returned"},
         main' \in {"batch", "word"} => main \in {"batch", "word"},
         main' # "newline",
         main' = "failed" \/ (main' \in Handing /\ main # "newline")
  PROVE  OneFileEach' /\ \A k \in 1..Newest' : ChildInv(k, children[k])'
<1>1. Newest' = Newest
  BY DEF Newest
<1>2. OneFileEach'
  BY <1>1 DEF IInv, OneFileEach
<1>3. ASSUME NEW k \in 1..Newest
      PROVE  ChildInv(k, children[k])'
  <2>1. ChildInv(k, children[k])
    BY DEF IInv
  <2>2. main' \in Handing => Written(k)' = Written(k)
    BY <1>1 DEF Written, Handing, Writing
  <2>3. main' \in Handing => Delivers(k, children[k])' = Delivers(k, children[k])
    BY <2>2 DEF Delivers, StreamUnit, Base, Consumed
  <2>4. FileInv(children[k])' = FileInv(children[k])
    BY DEF FileInv
  <2> QED BY <1>1, <2>1, <2>3, <2>4 DEF ChildInv, Alternates, MidLine, Handing
<1> QED BY <1>1, <1>2, <1>3

LEMMA TakenNat ==
  ASSUME TypeInv
  PROVE  Taken \in Nat
<1>1. Newest \in Nat /\ i \in Nat /\ BatchSize \in Nat /\ InHand \in Nat
  BY PipelineAssumption DEF TypeInv, Newest, InHand
<1>2. \A a, b \in Nat : a >= 1 => (a - 1) * b \in Nat
  OBVIOUS
<1>3. Newest # 0 => Base(Newest) \in Nat
  BY <1>1, <1>2 DEF Base
<1> QED BY <1>1, <1>3 DEF Taken

(* The steps that change where the parent is and what it has in hand.      *)
LEMMA HandSteps ==
  ASSUME IInv, NoFork \/ PopWord \/ CloseBatch \/ AllHandedOut \/ Return
  PROVE  IInv'
<1> USE DEF IInv, TypeInv
<1>1. main \in {"loop", "batch", "wait"}
  BY DEF NoFork, Fails, PopWord, CloseBatch, AllHandedOut, Return
<1>2. UNCHANGED <<children, output, generator, pos, i, numOfWords>>
  BY DEF NoFork, Fails, PopWord, CloseBatch, AllHandedOut, Return
<1>3. file' = file /\ Newest' = Newest /\ seed' = seed /\ length' = length
  BY <1>2 DEF generator, Newest
<1>4. OneFileEach' /\ \A k \in 1..Newest' : ChildInv(k, children[k])'
  <2>1. /\ main \in Handing
        /\ main \in {"wait", "returned"} => main' \in {"wait", "returned"}
        /\ main' \in {"batch", "word"} => main \in {"batch", "word"}
        /\ main' # "newline"
        /\ main' = "failed" \/ (main' \in Handing /\ main # "newline")
    BY DEF NoFork, Fails, PopWord, CloseBatch, AllHandedOut, Return, Handing, Writing
  <2> QED BY <1>2, <1>3, <2>1, ChildrenKept
<1>5. StartInv'
  BY DEF StartInv, Starting, NoFork, Fails, PopWord, CloseBatch, AllHandedOut, Return
<1>6. Base(Newest)' = Base(Newest)
  BY <1>3 DEF Base
<1>7. CASE NoFork
  <2>1. TypeInv'
    BY <1>2, <1>3, <1>7 DEF NoFork, Fails
  <2>2. HandInv' /\ CountInv'
    BY <1>7 DEF HandInv, CountInv, NoFork, Fails, Handing, Writing
  <2> QED BY <1>4, <1>5, <2>1, <2>2
<1>8. CASE PopWord
  <2>1. main = "batch" /\ main' = "word" /\ i < BatchSize /\ processCount' = processCount
    BY <1>8 DEF PopWord
  <2>2. queue # <<>> /\ word' = Head(queue) /\ queue' = Tail(queue)
    BY <1>8 DEF PopWord, Q!TakeFront
  <2>3. word' \in Words /\ queue' \in Seq(Words) /\ word' \in Seq(Letters)
    BY <2>2, WordFacts
  <2>4. TypeInv'
    BY <1>2, <1>3, <2>1, <2>3 DEF Handing, Writing
  <2>5. Newest >= 1 /\ processCount = Newest - 1
    <3>1. processCount \in 0..Newest /\ Newest \in Nat
      BY DEF Newest
    <3>2. processCount = Newest - 1
      BY <2>1 DEF CountInv, Writing
    <3> QED BY ONLY <3>1, <3>2
  <2>6. InHand = 0 /\ InHand' = 1
    BY <2>1 DEF InHand
  <2>7. Taken = Base(Newest) + i /\ Taken' = Taken + 1 /\ Taken \in Int
    <3>1. Newest \in Int /\ Base(Newest) \in Int /\ i \in Int
      BY BaseFacts DEF Newest
    <3>2. Taken = Base(Newest) + i + 0 /\ Taken' = Base(Newest) + i + 1
      BY <1>2, <1>3, <1>6, <2>5, <2>6 DEF Taken
    <3> QED BY <3>1, <3>2
  <2>8. /\ Len(file) = numOfWords /\ Taken <= numOfWords
        /\ queue = SubSeq(file, Taken + 1, numOfWords)
    BY <2>1 DEF HandInv, Handing, Writing
  <2>9. Taken >= 0
    BY TakenNat
  <2>10. /\ Taken + 1 <= numOfWords
         /\ word' = file[Taken + 1]
         /\ queue' = SubSeq(file, Taken + 2, numOfWords)
    <3> DEFINE t == Taken
    <3>1. t \in Nat /\ numOfWords \in Int /\ file \in Seq(Words) /\ Len(file) = numOfWords
      BY <2>7, <2>8, <2>9
    <3>2. queue = SubSeq(file, t + 1, numOfWords) /\ queue # <<>> /\ t <= numOfWords
      BY <2>2, <2>8
    <3> HIDE DEF t
    <3>3. t < numOfWords
      BY <3>1, <3>2
    <3>4. /\ Head(queue) = file[t + 1]
          /\ Tail(queue) = SubSeq(file, t + 2, numOfWords)
      BY <3>1, <3>2, <3>3
    <3> QED BY <2>2, <3>1, <3>3, <3>4 DEF t
  <2>11. HandInv'
    <3>1. word' = file'[Taken'] /\ queue' = SubSeq(file', Taken' + 1, numOfWords')
      <4>1. Taken' = Taken + 1 /\ Taken' + 1 = Taken + 2
        BY ONLY <2>7
      <4> QED BY ONLY <1>2, <1>3, <2>10, <4>1
    <3>2. Len(file') = numOfWords' /\ Taken' <= numOfWords' /\ i' < BatchSize
      BY <1>2, <1>3, <2>1, <2>7, <2>8, <2>10
    <3> QED BY <2>1, <2>3, <3>1, <3>2 DEF HandInv
  <2>12. CountInv'
    BY <1>3, <2>1, <2>5 DEF CountInv, Writing
  <2> QED BY <1>4, <1>5, <2>4, <2>11, <2>12
<1>9. CASE CloseBatch
  <2>1. /\ main = "batch" /\ main' = "loop" /\ (i = BatchSize \/ queue = <<>>)
        /\ processCount' = processCount + 1 /\ UNCHANGED <<word, queue>>
    BY <1>9 DEF CloseBatch, Counted
  <2>2. Newest \in Int /\ processCount = Newest - 1
    BY <2>1 DEF CountInv, Writing, Newest
  <2>3. TypeInv'
    BY <1>2, <1>3, <2>1, <2>2 DEF Handing
  <2>4. InHand = 0 /\ InHand' = 0 /\ Taken' = Taken
    BY <1>2, <1>3, <1>6, <2>1 DEF InHand, Taken
  <2>5. HandInv'
    BY <1>2, <1>3, <2>1, <2>4 DEF HandInv, Handing, Writing
  <2>6. CountInv'
    BY <1>3, <2>1, <2>2 DEF CountInv, Writing
  <2> QED BY <1>4, <1>5, <2>3, <2>5, <2>6
<1>10. CASE AllHandedOut
  <2>1. /\ main = "loop" /\ main' = "wait" /\ queue = <<>>
        /\ UNCHANGED <<word, queue, processCount>>
    BY <1>10 DEF AllHandedOut
  <2>2. TypeInv'
    BY <1>2, <1>3, <2>1 DEF Handing
  <2>3. InHand = 0 /\ InHand' = 0 /\ Taken' = Taken
    BY <1>2, <1>3, <1>6, <2>1 DEF InHand, Taken
  <2>4. Taken \in Nat
    BY TakenNat
  <2>5. /\ Taken <= numOfWords /\ Len(file) = numOfWords
        /\ queue = SubSeq(file, Taken + 1, numOfWords)
    BY <2>1 DEF HandInv, Handing
  <2>6. Taken = numOfWords
    <3> DEFINE t == Taken
    <3>1. t \in Nat /\ numOfWords \in Nat /\ t <= numOfWords /\ file \in Seq(Words)
      BY <2>4, <2>5
    <3>2. SubSeq(file, t + 1, numOfWords) = <<>> /\ Len(file) = numOfWords
      BY <2>1, <2>5
    <3> HIDE DEF t
    <3>3. t < numOfWords => SubSeq(file, t + 1, numOfWords)[1] = file[t + 1]
                            /\ Len(SubSeq(file, t + 1, numOfWords)) = numOfWords - t
      BY <3>1, <3>2
    <3>4. ~(t < numOfWords)
      <4>1. Len(SubSeq(file, t + 1, numOfWords)) = 0
        BY ONLY <3>2
      <4> QED BY ONLY <3>1, <3>3, <4>1
    <3> QED BY <3>1, <3>4 DEF t
  <2>7. HandInv'
    BY <1>2, <1>3, <2>1, <2>3, <2>5, <2>6 DEF HandInv, Handing, Writing
  <2>8. CountInv'
    <3>1. Unreaped = 1..Newest
      BY <2>1 DEF Unreaped, ChildInv
    <3>2. Newest \in Nat /\ Cardinality(1..Newest) = Newest
      <4>1. Newest \in Nat
        BY DEF Newest
      <4>2. \A n \in Nat : Cardinality(1..n) = n
        BY FS_Interval
      <4> QED BY ONLY <4>1, <4>2
    <3>3. processCount = Newest
      BY <2>1 DEF CountInv
    <3>4. Unreaped' = Unreaped
      BY <1>2, <1>3 DEF Unreaped
    <3> QED BY <2>1, <3>1, <3>2, <3>3, <3>4 DEF CountInv, Writing
  <2> QED BY <1>4, <1>5, <2>2, <2>7, <2>8
<1>11. CASE Return
  <2>1. /\ main = "wait" /\ main' = "returned" /\ processCount = 0
        /\ UNCHANGED <<word, queue, processCount>>
    BY <1>11 DEF Return
  <2>2. TypeInv'
    BY <1>2, <1>3, <2>1 DEF Handing
  <2>3. InHand = 0 /\ InHand' = 0 /\ Taken' = Taken
    BY <1>2, <1>3, <1>6, <2>1 DEF InHand, Taken
  <2>4. HandInv'
    BY <1>2, <1>3, <2>1, <2>3 DEF HandInv, Handing, Writing
  <2>5. CountInv'
    <3>1. Unreaped' = Unreaped
      BY <1>2, <1>3 DEF Unreaped
    <3> QED BY <2>1, <3>1 DEF CountInv, Writing
  <2> QED BY <1>4, <1>5, <2>2, <2>4, <2>5
<1> QED BY <1>7, <1>8, <1>9, <1>10, <1>11
-----------------------------------------------------------------------------
(* What a child delivers is its own affair.                                *)
LEMMA DeliversKept ==
  ASSUME NEW k, file' = file, Written(k)' = Written(k),
         children'[k].pipe = children[k].pipe, children'[k].line = children[k].line,
         children'[k].out = children[k].out,
         Delivers(k, children[k])
  PROVE  Delivers(k, children[k])'
<1>1. Consumed(children[k])' = Consumed(children[k])
  BY DEF Consumed
<1>2. \A n : StreamUnit(k, n)' = StreamUnit(k, n)
  BY DEF StreamUnit, Base
<1>3. (Consumed(children[k]) + Len(children[k].pipe) = Written(k))'
  BY <1>1 DEF Delivers
<1>4. (\A j \in 1..Len(children[k].pipe) :
          children[k].pipe[j] = StreamUnit(k, Consumed(children[k]) + j))'
  BY <1>1, <1>2 DEF Delivers
<1>5. (children[k].line # <<>> => children[k].line = file[Base(k) + Len(children[k].out) + 1])'
  BY DEF Delivers, Base
<1>6. (\A j \in 1..Len(children[k].out) : children[k].out[j] = Encoded(file[Base(k) + j]))'
  BY DEF Delivers, Base
<1> QED BY <1>3, <1>4, <1>5, <1>6 DEF Delivers

LEMMA DeliversNext ==
  ASSUME NEW k, NEW y, children'[k] = y, file' = file, Written(k)' = Written(k), Delivers(k, y)
  PROVE  Delivers(k, children[k])'
<1>1. Consumed(children[k])' = Consumed(y)
  BY DEF Consumed
<1>2. \A n : StreamUnit(k, n)' = StreamUnit(k, n)
  BY DEF StreamUnit, Base
<1>3. (Consumed(children[k]) + Len(children[k].pipe) = Written(k))'
  BY <1>1 DEF Delivers
<1>4. (\A j \in 1..Len(children[k].pipe) :
          children[k].pipe[j] = StreamUnit(k, Consumed(children[k]) + j))'
  BY <1>1, <1>2 DEF Delivers
<1>5. (children[k].line # <<>> => children[k].line = file[Base(k) + Len(children[k].out) + 1])'
  BY DEF Delivers, Base
<1>6. (\A j \in 1..Len(children[k].out) : children[k].out[j] = Encoded(file[Base(k) + j]))'
  BY DEF Delivers, Base
<1> QED BY <1>3, <1>4, <1>5, <1>6 DEF Delivers

(* A step of one child, or of the parent with one child.                   *)
LEMMA OneMoves ==
  ASSUME IInv, NEW k \in 1..Newest, NEW y \in Child,
         children' = [children EXCEPT ![k] = y],
         y.pid = children[k].pid,
         \A p \in Pids : p # y.pid => output'[p] = output[p],
         file' = file,
         \/ main' = main /\ i' = i
         \/ k = Newest /\ main \in Writing /\ main' \in Writing \cup {"failed"}
  PROVE  /\ Newest' = Newest /\ children' \in Seq(Child) /\ children'[k] = y
         /\ \A j \in 1..Newest : j # k => children'[j] = children[j] /\ ChildInv(j, children[j])'
         /\ OneFileEach'
<1>1. children \in Seq(Child) /\ Newest = Len(children) /\ Newest \in Nat
  BY DEF IInv, TypeInv, Newest
<1>2. children' \in Seq(Child) /\ Len(children') = Len(children)
  BY <1>1
<1>3. /\ Newest' = Newest /\ children'[k] = y
      /\ \A j \in 1..Newest : j # k => children'[j] = children[j]
  <2>1. Newest' = Len(children')
    BY DEF Newest
  <2>2. k \in DOMAIN children /\ 1..Newest = DOMAIN children
    BY <1>1
  <2> QED BY <1>1, <1>2, <2>1, <2>2
<1>4. OneFileEach'
  BY <1>3 DEF OneFileEach, IInv
<1>5. ASSUME NEW j \in 1..Newest, j # k
      PROVE  ChildInv(j, children[j])'
  <2>1. ChildInv(j, children[j]) /\ children[j] \in Child /\ children'[j] = children[j]
    BY <1>1, <1>3, <1>5 DEF IInv
  <2>2. children[j].pid # y.pid /\ children[j].pid \in Pids
    BY <1>5, <2>1 DEF IInv, OneFileEach, Child
  <2>3. FileInv(children[j]) => FileInv(children[j])'
    BY <2>1, <2>2 DEF FileInv
  <2>4. CASE main' = main /\ i' = i
    <3>1. Written(j)' = Written(j)
      BY <1>3, <2>4 DEF Written
    <3>2. Delivers(j, children[j]) => Delivers(j, children[j])'
      BY <2>1, <3>1, DeliversKept
    <3> QED BY <1>3, <2>1, <2>3, <2>4, <3>2 DEF ChildInv, Alternates, MidLine
  <2>5. CASE k = Newest /\ main \in Writing /\ main' \in Writing \cup {"failed"}
    <3>1. j < Newest
      BY <1>1, <1>5, <2>5
    <3>2. Written(j) = Written(j)'
      BY <1>3, <3>1 DEF Written
    <3>3. Delivers(j, children[j]) => Delivers(j, children[j])'
      BY <2>1, <3>2, DeliversKept
    <3>4. j # Newest' /\ main \notin {"wait", "returned"} /\ main \in Handing
      BY <1>1, <1>3, <2>5, <3>1 DEF Handing, Writing
    <3>6. (Len(children[j].pipe) <= PipeCap /\ Alternates(children[j]))'
      BY <2>1 DEF ChildInv, Alternates
    <3>7. (children[j].pc = "reaped" => main \in {"wait", "returned"})'
      BY <2>1, <3>4 DEF ChildInv
    <3>8. (children[j].calls = "ok" =>
              FileInv(children[j]) /\ (main \in Handing => Delivers(j, children[j])))'
      BY <2>1, <2>3, <3>3, <3>4 DEF ChildInv
    <3> QED BY <3>4, <3>6, <3>7, <3>8 DEF ChildInv
  <2> QED BY <2>4, <2>5
<1> QED BY <1>2, <1>3, <1>4, <1>5

(* A step of one child.                                                    *)
LEMMA ChildMoves ==
  ASSUME IInv, NEW k \in 1..Newest, NEW y \in Child,
         children' = [children EXCEPT ![k] = y],
         y.pid = children[k].pid,
         y.pc # "reaped" /\ children[k].pc # "reaped",
         NEW o \in Seq(Seq(Int)),
         output' \in {output, [output EXCEPT ![y.pid] = o]},
         KeepsParent,
         ChildInv(k, children[k])'
  PROVE  IInv'
<1>1. /\ main' = main /\ i' = i /\ file' = file /\ word' = word /\ queue' = queue /\ pos' = pos
      /\ numOfWords' = numOfWords /\ processCount' = processCount
      /\ seed' = seed /\ length' = length
  BY DEF KeepsParent, generator
<1>2. \A p \in Pids : p # y.pid => output'[p] = output[p]
  BY DEF IInv, TypeInv
<1>3. output' \in [Pids -> Seq(Seq(Int))]
  BY DEF IInv, TypeInv, Child
<1>4. /\ Newest' = Newest /\ children' \in Seq(Child) /\ children'[k] = y
      /\ \A j \in 1..Newest : j # k => children'[j] = children[j] /\ ChildInv(j, children[j])'
      /\ OneFileEach'
  BY <1>1, <1>2, OneMoves
<1>5. \A j \in 1..Newest' : ChildInv(j, children[j])'
  <2> TAKE j \in 1..Newest'
  <2>1. CASE j = k
    BY <2>1
  <2>2. CASE j # k
    BY <1>4, <2>2
  <2> QED BY <2>1, <2>2
<1>6. TypeInv'
  BY <1>1, <1>3, <1>4 DEF IInv, TypeInv
<1>7. children # <<>> /\ children' # <<>>
  BY <1>4 DEF Newest
<1>8. StartInv'
  BY <1>1, <1>7 DEF IInv, StartInv
<1>9. HandInv'
  <2>1. Taken' = Taken /\ InHand' = InHand
    BY <1>1, <1>4 DEF Taken, InHand, Base
  <2> QED BY <1>1, <1>4, <2>1 DEF IInv, HandInv
<1>10. CountInv'
  <2>1. Unreaped' = Unreaped
    BY <1>4 DEF Unreaped
  <2> QED BY <1>1, <1>4, <2>1 DEF IInv, CountInv
<1> QED BY <1>4, <1>5, <1>6, <1>8, <1>9, <1>10 DEF IInv
-----------------------------------------------------------------------------
LEMMA ChildFacts ==
  ASSUME TypeInv, NEW k \in 1..Newest
  PROVE  /\ children[k] \in Child /\ DOMAIN children = 1..Newest
         /\ Newest \in Nat /\ k \in Nat
BY DEF TypeInv, Newest

(* The calls of a child before it reads.                                   *)
LEMMA SameStream ==
  ASSUME IInv, NEW k \in 1..Newest, Newest' = Newest,
         main' = main, i' = i, file' = file,
         children'[k].pipe = children[k].pipe, children'[k].line = children[k].line,
         children'[k].out = children[k].out, children'[k].pc # "reaped",
         children'[k].calls = "ok" => children[k].calls = "ok" /\ FileInv(children[k])'
  PROVE  ChildInv(k, children[k])'
<1>1. ChildInv(k, children[k])
  BY DEF IInv
<1>2. Written(k)' = Written(k)
  BY DEF Written
<1>3. Delivers(k, children[k]) => Delivers(k, children[k])'
  BY <1>2, DeliversKept
<1> QED BY <1>1, <1>3 DEF ChildInv, Alternates, MidLine

LEMMA SetUpSteps ==
  ASSUME IInv, NEW k \in 1..Newest,
         CloseWriteEnd(k) \/ SetUp(k) \/ FreopenFails(k) \/ SetUpFails(k)
  PROVE  IInv'
<1>1. children[k] \in Child /\ DOMAIN children = 1..Newest /\ output \in [Pids -> Seq(Seq(Int))]
  BY ChildFacts DEF IInv, TypeInv
<1>2. KeepsParent /\ children[k].pc \in {"forked", "setup"}
  BY DEF CloseWriteEnd, SetUp, FreopenFails, SetUpFails
<1>3. main' = main /\ i' = i /\ file' = file
  BY <1>2 DEF KeepsParent, generator
<1>4. output' \in {output, [output EXCEPT ![children[k].pid] = <<>>]}
  BY DEF CloseWriteEnd, SetUp, FreopenFails, SetUpFails
<1>5. <<>> \in Seq(Seq(Int))
  OBVIOUS
<1>6. ASSUME NEW y \in Child, children' = [children EXCEPT ![k] = y],
             y.pid = children[k].pid, y.pipe = children[k].pipe, y.line = children[k].line,
             y.out = children[k].out, y.pc \in {"setup", "run", "zombie"},
             y.calls = "ok" => /\ children[k].calls = "ok" /\ y.pc # "zombie"
                               /\ y.pc = "run" => y.stdout = "file" /\ output'[y.pid] = <<>>
      PROVE  IInv'
  <2>1. children'[k] = y
    BY <1>1, <1>6
  <2>2. Newest' = Newest
    BY <1>6 DEF Newest
  <2>3. children'[k].calls = "ok" => children[k].calls = "ok" /\ FileInv(children[k])'
    BY <1>6, <2>1 DEF FileInv
  <2>4. ChildInv(k, children[k])'
    BY <1>3, <1>6, <2>1, <2>2, <2>3, SameStream
  <2> QED BY <1>2, <1>4, <1>5, <1>6, <2>4, ChildMoves
<1>7. CASE CloseWriteEnd(k)
  <2> DEFINE y == [children[k] EXCEPT !.ownEnd = "closed", !.pc = "setup"]
  <2>1. children' = [children EXCEPT ![k] = y]
    BY <1>1, <1>7 DEF CloseWriteEnd, OwnEndAfterClose
  <2>2. /\ y \in Child /\ y.pid = children[k].pid /\ y.pipe = children[k].pipe
        /\ y.line = children[k].line /\ y.out = children[k].out /\ y.pc = "setup"
        /\ y.calls = children[k].calls
    BY <1>1 DEF Child
  <2> HIDE DEF y
  <2> QED BY <1>6, <2>1, <2>2
<1>8. CASE SetUp(k)
  <2> DEFINE y == [children[k] EXCEPT !.pc = "run", !.stdout = "file"]
  <2>1. children' = [children EXCEPT ![k] = y]
    BY <1>1, <1>8 DEF SetUp
  <2>2. /\ y \in Child /\ y.pid = children[k].pid /\ y.pipe = children[k].pipe
        /\ y.line = children[k].line /\ y.out = children[k].out /\ y.pc = "run"
        /\ y.calls = children[k].calls /\ y.stdout = "file" /\ y.pid \in Pids
    BY <1>1 DEF Child
  <2>3. output'[y.pid] = <<>>
    BY <1>1, <1>8, <2>2 DEF SetUp
  <2> HIDE DEF y
  <2> QED BY <1>6, <2>1, <2>2, <2>3
<1>9. CASE FreopenFails(k)
  <2> DEFINE y == [children[k] EXCEPT !.pc = "run", !.stdout = "closed", !.calls = "failed"]
  <2>1. children' = [children EXCEPT ![k] = y]
    BY <1>1, <1>9 DEF FreopenFails
  <2>2. /\ y \in Child /\ y.pid = children[k].pid /\ y.pipe = children[k].pipe
        /\ y.line = children[k].line /\ y.out = children[k].out /\ y.pc = "run"
        /\ y.calls = "failed"
    BY <1>1 DEF Child
  <2> HIDE DEF y
  <2> QED BY <1>6, <2>1, <2>2
<1>10. CASE SetUpFails(k)
  <2> DEFINE y == [children[k] EXCEPT !.pc = "zombie", !.calls = "failed"]
  <2>1. children' = [children EXCEPT ![k] = y]
    BY <1>1, <1>10 DEF SetUpFails, Exited
  <2>2. /\ y \in Child /\ y.pid = children[k].pid /\ y.pipe = children[k].pipe
        /\ y.line = children[k].line /\ y.out = children[k].out /\ y.pc = "zombie"
        /\ y.calls = "failed"
    BY <1>1 DEF Child
  <2> HIDE DEF y
  <2> QED BY <1>6, <2>1, <2>2
<1> QED BY <1>7, <1>8, <1>9, <1>10

(* Taking a string out of the pipe.                                        *)
LEMMA TailFacts ==
  ASSUME NEW S, NEW s \in Seq(S), s # <<>>
  PROVE  /\ Len(s) \in Nat /\ Len(s) >= 1 /\ Head(s) = s[1] /\ s[1] \in S
         /\ Tail(s) \in Seq(S) /\ Len(Tail(s)) = Len(s) - 1
         /\ \A j \in 1..Len(s)-1 : Tail(s)[j] = s[j + 1]
         /\ Tail(s) = <<>> <=> Len(s) = 1
<1>1. Len(s) \in Nat /\ Len(s) >= 1 /\ Head(s) = s[1] /\ s[1] \in S
  OBVIOUS
<1>2. /\ Tail(s) \in Seq(S) /\ Len(Tail(s)) = Len(s) - 1
      /\ \A j \in 1..Len(s)-1 : Tail(s)[j] = s[j + 1]
  OBVIOUS
<1>3. Tail(s) = <<>> <=> Len(Tail(s)) = 0
  BY <1>2, EmptySeq
<1> QED BY <1>1, <1>2, <1>3

LEMMA AlternatesOn ==
  ASSUME NEW x \in Child, NEW y \in Child, x.pipe # <<>>, y.pipe = Tail(x.pipe),
         y.line # <<>> <=> x.pipe[1] # NewLine,
         Alternates(x)
  PROVE  Alternates(y) /\ (MidLine(y) <=> MidLine(x))
<1> DEFINE s == x.pipe
           t == y.pipe
<1>1. s \in Seq(Words \cup {NewLine}) /\ s # <<>> /\ t = Tail(s)
  BY DEF Child
<1>2. /\ Len(s) \in Nat /\ Len(s) >= 1
      /\ Len(t) = Len(s) - 1
      /\ \A j \in 1..Len(s)-1 : t[j] = s[j + 1]
      /\ t = <<>> <=> Len(s) = 1
  BY <1>1, TailFacts
<1>3. \A j \in 1..Len(s)-1 : s[j] = NewLine <=> s[j + 1] # NewLine
  BY DEF Alternates
<1> HIDE DEF s, t
<1>4. t # <<>> => (y.line # <<>> <=> t[1] = NewLine)
  <2>1. CASE t # <<>>
    <3>1. 1 \in 1..Len(s)-1
      BY <1>2, <2>1
    <3>2. t[1] = s[1 + 1] /\ (s[1] = NewLine <=> s[1 + 1] # NewLine)
      BY <1>2, <1>3, <3>1
    <3> QED BY <3>2 DEF s
  <2> QED BY <2>1
<1>5. \A j \in 1..Len(t)-1 : t[j] = NewLine <=> t[j + 1] # NewLine
  <2> TAKE j \in 1..Len(t)-1
  <2>1. j \in 1..Len(s)-1 /\ j + 1 \in 1..Len(s)-1
    BY <1>2
  <2>2. t[j] = s[j + 1] /\ t[j + 1] = s[(j + 1) + 1]
    BY <1>2, <2>1
  <2> QED BY <1>3, <2>1, <2>2
<1>6. MidLine(y) <=> MidLine(x)
  <2>1. CASE t = <<>>
    BY <1>1, <1>2, <2>1 DEF MidLine, s, t
  <2>2. CASE t # <<>>
    <3>1. Len(t) \in 1..Len(s)-1 /\ Len(t) + 1 = Len(s)
      BY <1>2, <2>2
    <3>2. t[Len(t)] = s[Len(s)]
      BY <1>2, <3>1
    <3> QED BY <1>1, <2>2, <3>2 DEF MidLine, s, t
  <2> QED BY <2>1, <2>2
<1> QED BY <1>4, <1>5, <1>6 DEF Alternates, s, t

(* The units still in the pipe are the next ones of the stream.            *)
LEMMA StreamOn ==
  ASSUME NEW k \in Int, NEW x \in Child, NEW y \in Child, x.pipe # <<>>,
         y.pipe = Tail(x.pipe),
         Consumed(x) \in Int, Consumed(y) = Consumed(x) + 1, Written(k) \in Int,
         Delivers(k, x)
  PROVE  /\ Consumed(y) + Len(y.pipe) = Written(k)
         /\ \A j \in 1..Len(y.pipe) : y.pipe[j] = StreamUnit(k, Consumed(y) + j)
<1> DEFINE s == x.pipe
           t == y.pipe
           n == Consumed(x)
<1>1. s \in Seq(Words \cup {NewLine}) /\ s # <<>> /\ t = Tail(s)
  BY DEF Child
<1>2. /\ Len(s) \in Nat /\ Len(s) >= 1
      /\ Len(t) = Len(s) - 1
      /\ \A j \in 1..Len(s)-1 : t[j] = s[j + 1]
  BY <1>1, TailFacts
<1>3. n + Len(s) = Written(k) /\ \A j \in 1..Len(s) : s[j] = StreamUnit(k, n + j)
  BY DEF Delivers
<1>4. n \in Int /\ Consumed(y) = n + 1
  OBVIOUS
<1> HIDE DEF s, t, n
<1>5. Consumed(y) + Len(t) = Written(k)
  BY <1>2, <1>3, <1>4
<1>6. ASSUME NEW j \in 1..Len(t)
      PROVE  t[j] = StreamUnit(k, Consumed(y) + j)
  <2>1. j \in 1..Len(s)-1 /\ j + 1 \in 1..Len(s) /\ n + (j + 1) = (n + 1) + j
    BY <1>2, <1>4
  <2>2. t[j] = s[j + 1] /\ s[j + 1] = StreamUnit(k, n + (j + 1))
    BY <1>2, <1>3, <2>1
  <2> QED BY <1>4, <2>1, <2>2
<1> QED BY <1>5, <1>6 DEF t
-----------------------------------------------------------------------------
(* polybius.c in a child.                                                  *)
LEMMA StreamFacts ==
  ASSUME TypeInv, NEW k \in 1..Newest
  PROVE  /\ Written(k) \in Nat
         /\ Consumed(children[k]) \in Nat
         /\ \A n \in Int : n % 2 # 1 => StreamUnit(k, n) = NewLine
<1>1. children[k] \in Child
  BY ChildFacts
<1>2. Len(children[k].out) \in Nat
  BY <1>1 DEF Child
<1>3. BatchSize \in Nat /\ i \in Nat
  BY PipelineAssumption DEF TypeInv
<1> QED BY <1>2, <1>3 DEF Written, Consumed, StreamUnit

LEMMA ReadsOn ==
  ASSUME IInv, NEW k \in 1..Newest, NEW x, x = children[k], NEW y \in Child,
         children' = [children EXCEPT ![k] = y],
         x.pc = "run", y.pc = "run", y.pid = x.pid, y.stdout = x.stdout,
         x.pipe # <<>>, y.pipe = Tail(x.pipe),
         y.line # <<>> <=> x.pipe[1] # NewLine,
         y.calls = "ok" => x.calls = "ok" /\ (main \in Handing => Delivers(k, y)),
         KeepsParent, output' = output
  PROVE  IInv'
<1>1. x \in Child /\ DOMAIN children = 1..Newest
  BY ChildFacts DEF IInv
<1>2. ChildInv(k, x)
  BY DEF IInv
<1>3. children'[k] = y /\ Newest' = Newest
  BY <1>1 DEF Newest
<1>4. main' = main /\ i' = i /\ file' = file
  BY DEF KeepsParent, generator
<1>5. Alternates(y) /\ (MidLine(y) <=> MidLine(x))
  BY <1>1, <1>2, AlternatesOn DEF ChildInv
<1>6. ASSUME y.calls = "ok", main \in Handing
      PROVE  Delivers(k, children[k])'
  <2>1. Written(k)' = Written(k)
    BY <1>3, <1>4 DEF Written
  <2> QED BY <1>3, <1>4, <1>6, <2>1, DeliversNext
<1>7. y.calls = "ok" => FileInv(children[k])'
  BY <1>2, <1>3 DEF ChildInv, FileInv
<1>8. Len(y.pipe) <= PipeCap
  <2>1. x.pipe \in Seq(Words \cup {NewLine})
    BY <1>1 DEF Child
  <2>2. Len(x.pipe) \in Nat /\ Len(y.pipe) = Len(x.pipe) - 1
    BY <2>1, TailFacts
  <2>3. Len(x.pipe) <= PipeCap /\ PipeCap \in Nat
    BY <1>2, PipelineAssumption DEF ChildInv
  <2> QED BY ONLY <2>2, <2>3
<1>9. (Alternates(children[k]) /\ Len(children[k].pipe) <= PipeCap)'
  BY <1>3, <1>5, <1>8 DEF Alternates
<1>10. MidLine(children[k])' <=> MidLine(x)
  BY <1>3, <1>5 DEF MidLine
<1>11. (k = Newest /\ main \in {"batch", "word"} => ~MidLine(children[k]))'
  BY <1>2, <1>3, <1>4, <1>10 DEF ChildInv
<1>12. (k = Newest /\ main = "newline" => MidLine(children[k]))'
  BY <1>2, <1>3, <1>4, <1>10 DEF ChildInv
<1>13. children'[k].pc # "reaped" /\ children'[k].calls = y.calls
  BY <1>3
<1>14. ChildInv(k, children[k])'
  BY <1>4, <1>6, <1>7, <1>9, <1>11, <1>12, <1>13 DEF ChildInv
<1>15. <<>> \in Seq(Seq(Int)) /\ x.pc # "reaped" /\ y.pc # "reaped"
  OBVIOUS
<1> QED BY <1>14, <1>15, ChildMoves

LEMMA ReadStringInv ==
  ASSUME IInv, NEW k \in 1..Newest, ReadString(k)
  PROVE  IInv'
<1> PICK x : x = children[k]
  OBVIOUS
<1>0. PICK y : y = [x EXCEPT !.pipe = Tail(x.pipe), !.line = Head(x.pipe)]
  OBVIOUS
<1>1. x \in Child /\ DOMAIN children = 1..Newest /\ k \in Int
  BY ChildFacts DEF IInv
<1>2. x.pipe # <<>> /\ Head(x.pipe) # NewLine /\ x.pc = "run"
  BY DEF ReadString
<1>3. /\ x.pipe \in Seq(Words \cup {NewLine}) /\ Head(x.pipe) = x.pipe[1]
      /\ Head(x.pipe) \in Words /\ Head(x.pipe) # <<>> /\ Len(x.pipe) \in Nat /\ Len(x.pipe) >= 1
      /\ Tail(x.pipe) \in Seq(Words \cup {NewLine})
  <2>1. x.pipe \in Seq(Words \cup {NewLine})
    BY <1>1 DEF Child
  <2>2. /\ Len(x.pipe) \in Nat /\ Len(x.pipe) >= 1 /\ Head(x.pipe) = x.pipe[1]
        /\ x.pipe[1] \in Words \cup {NewLine}
        /\ Tail(x.pipe) \in Seq(Words \cup {NewLine})
    BY <1>2, <2>1, TailFacts
  <2> QED BY <1>2, <2>1, <2>2, WordFacts
<1>4. ChildInv(k, x)
  BY DEF IInv
<1>5. x.line = <<>>
  BY <1>2, <1>3, <1>4 DEF ChildInv, Alternates
<1>6. x.line \o Head(x.pipe) = Head(x.pipe)
  BY <1>3, <1>5, WordFacts, ConcatEmptySeq
<1>7. children' = [children EXCEPT ![k] = y]
  <2>1. children' = [children EXCEPT ![k] = [x EXCEPT !.pipe = Tail(@), !.line = @ \o Head(x.pipe)]]
    BY <1>1 DEF ReadString
  <2> QED BY <1>0, <1>6, <2>1
<1>8. /\ y \in Child /\ y.pid = x.pid /\ y.pipe = Tail(x.pipe) /\ y.line = Head(x.pipe)
      /\ y.out = x.out /\ y.pc = "run" /\ y.calls = x.calls /\ y.stdout = x.stdout
  BY <1>0, <1>1, <1>2, <1>3 DEF Child
<1>9. ASSUME x.calls = "ok", main \in Handing
      PROVE  Delivers(k, y)
  <2>1. Delivers(k, x)
    BY <1>4, <1>9 DEF ChildInv
  <2>2. Consumed(x) \in Nat /\ Written(k) \in Nat
    BY StreamFacts DEF IInv
  <2>3. Consumed(x) = 2 * Len(x.out) /\ Consumed(y) = Consumed(x) + 1 /\ Len(x.out) \in Nat
    BY <1>1, <1>3, <1>5, <1>8 DEF Consumed, Child
  <2>4. /\ Consumed(y) + Len(y.pipe) = Written(k)
        /\ \A j \in 1..Len(y.pipe) : y.pipe[j] = StreamUnit(k, Consumed(y) + j)
    <3>1. Consumed(x) \in Int /\ Written(k) \in Int
      BY <2>2
    <3> QED BY ONLY <1>1, <1>2, <1>8, <2>1, <2>3, <3>1, StreamOn
  <2>5. y.line = file[Base(k) + Len(y.out) + 1]
    <3>1. x.pipe[1] = StreamUnit(k, Consumed(x) + 1)
      BY <1>3, <2>1 DEF Delivers
    <3>2. (2 * Len(x.out) + 1) % 2 = 1 /\ ((2 * Len(x.out) + 1) + 1) \div 2 = Len(x.out) + 1
      <4>1. \A n \in Nat : (2 * n + 1) % 2 = 1 /\ ((2 * n + 1) + 1) \div 2 = n + 1
        OBVIOUS
      <4> QED BY ONLY <2>3, <4>1
    <3>3. StreamUnit(k, Consumed(x) + 1) = file[Base(k) + (Len(x.out) + 1)]
      BY <2>3, <3>2 DEF StreamUnit
    <3>4. Base(k) + (Len(x.out) + 1) = Base(k) + Len(x.out) + 1
      <4>1. Base(k) \in Int /\ Len(x.out) \in Int
        BY <1>1, <2>3, BaseFacts
      <4> QED BY ONLY <4>1
    <3> QED BY <1>3, <1>8, <3>1, <3>3, <3>4
  <2>6. \A j \in 1..Len(y.out) : y.out[j] = Encoded(file[Base(k) + j])
    BY <1>8, <2>1 DEF Delivers
  <2> QED BY <2>4, <2>5, <2>6 DEF Delivers
<1>10. KeepsParent /\ output' = output
  BY DEF ReadString
<1>11. y.line # <<>> <=> x.pipe[1] # NewLine
  BY ONLY <1>2, <1>3, <1>8
<1>12. y.calls = "ok" => x.calls = "ok" /\ (main \in Handing => Delivers(k, y))
  BY <1>8, <1>9
<1> QED BY <1>2, <1>7, <1>8, <1>10, <1>11, <1>12, ReadsOn

LEMMA ReadNewLineInv ==
  ASSUME IInv, NEW k \in 1..Newest, ReadNewLine(k)
  PROVE  IInv'
<1> PICK x : x = children[k]
  OBVIOUS
<1>1. x \in Child /\ DOMAIN children = 1..Newest /\ k \in Int
  BY ChildFacts DEF IInv
<1>2. x.pipe # <<>> /\ Head(x.pipe) = NewLine /\ x.pc = "run"
  BY DEF ReadNewLine
<1>3. /\ x.pipe \in Seq(Words \cup {NewLine}) /\ x.pipe[1] = NewLine
      /\ Tail(x.pipe) \in Seq(Words \cup {NewLine})
  <2>1. x.pipe \in Seq(Words \cup {NewLine})
    BY <1>1 DEF Child
  <2> QED BY <1>2, <2>1, TailFacts
<1>4. ChildInv(k, x)
  BY DEF IInv
<1>5. x.line # <<>> /\ x.line \in Words
  <2>1. x.line # <<>>
    BY <1>2, <1>3, <1>4 DEF ChildInv, Alternates
  <2> QED BY <1>1, <2>1 DEF Child
<1>6. KeepsParent /\ output' = output
  BY DEF ReadNewLine
<1>7. CASE children' = [children EXCEPT ![k].pipe = Tail(@), ![k].line = <<>>,
                                        ![k].out = Append(@, Encoded(children[k].line))]
  <2>1. PICK y : y = [x EXCEPT !.pipe = Tail(x.pipe), !.line = <<>>,
                               !.out = Append(x.out, Encoded(x.line))]
    OBVIOUS
  <2>2. children' = [children EXCEPT ![k] = y]
    BY <1>1, <1>7, <2>1
  <2>3. x.out \in Seq(Seq(Int)) /\ Encoded(x.line) \in Seq(Int)
    BY <1>1, <1>5, WordFacts, EncodedSeq DEF Child
  <2>4. PICK e \in Seq(Int) : e = Encoded(x.line)
    BY <2>3
  <2>5. Append(x.out, e) \in Seq(Seq(Int))
    BY <2>3, <2>4
  <2>6. /\ y \in Child /\ y.pid = x.pid /\ y.pipe = Tail(x.pipe) /\ y.line = <<>>
        /\ y.out = Append(x.out, e) /\ y.pc = "run" /\ y.calls = x.calls /\ y.stdout = x.stdout
    BY <1>1, <1>2, <1>3, <2>1, <2>4, <2>5 DEF Child
  <2>7. /\ Len(x.out) \in Nat /\ Len(y.out) = Len(x.out) + 1
        /\ \A j \in 1..Len(x.out) : y.out[j] = x.out[j]
        /\ y.out[Len(x.out) + 1] = e
    BY <2>3, <2>6
  <2>8. ASSUME x.calls = "ok", main \in Handing
        PROVE  Delivers(k, y)
    <3>1. Delivers(k, x)
      BY <1>4, <2>8 DEF ChildInv
    <3>2. Consumed(x) \in Int /\ Written(k) \in Int
      BY StreamFacts DEF IInv
    <3>3. Consumed(x) = 2 * Len(x.out) + 1 /\ Consumed(y) = 2 * Len(y.out)
      BY <1>5, <2>6 DEF Consumed
    <3>4. Consumed(y) = Consumed(x) + 1
      BY ONLY <2>7, <3>3
    <3>5. /\ Consumed(y) + Len(y.pipe) = Written(k)
          /\ \A j \in 1..Len(y.pipe) : y.pipe[j] = StreamUnit(k, Consumed(y) + j)
      BY ONLY <1>1, <1>2, <2>6, <3>1, <3>2, <3>4, StreamOn
    <3>6. x.line = file[Base(k) + Len(x.out) + 1]
          /\ \A j \in 1..Len(x.out) : x.out[j] = Encoded(file[Base(k) + j])
      BY <1>5, <3>1 DEF Delivers
    <3>7. Base(k) + (Len(x.out) + 1) = Base(k) + Len(x.out) + 1
      <4>1. Base(k) \in Int /\ Len(x.out) \in Int
        BY <1>1, <2>7, BaseFacts
      <4> QED BY ONLY <4>1
    <3>8. y.out[Len(x.out) + 1] = Encoded(file[Base(k) + (Len(x.out) + 1)])
      BY <2>4, <2>7, <3>6, <3>7
    <3>9. \A j \in 1..Len(y.out) : y.out[j] = Encoded(file[Base(k) + j])
      <4> TAKE j \in 1..Len(y.out)
      <4>1. j \in 1..Len(x.out) \/ j = Len(x.out) + 1
        BY ONLY <2>7
      <4> QED BY <2>7, <3>6, <3>8, <4>1
    <3> QED BY <2>6, <3>5, <3>9 DEF Delivers
  <2> QED BY <1>2, <1>3, <1>6, <2>2, <2>6, <2>8, ReadsOn
<1>8. CASE children' = [children EXCEPT ![k].pipe = Tail(@), ![k].line = <<>>,
                                        ![k].calls = "failed"]
  <2>1. PICK y : y = [x EXCEPT !.pipe = Tail(x.pipe), !.line = <<>>, !.calls = "failed"]
    OBVIOUS
  <2>2. children' = [children EXCEPT ![k] = y]
    BY <1>1, <1>8, <2>1
  <2>3. /\ y \in Child /\ y.pid = x.pid /\ y.pipe = Tail(x.pipe) /\ y.line = <<>>
        /\ y.pc = "run" /\ y.calls = "failed" /\ y.stdout = x.stdout
    BY <1>1, <1>2, <1>3, <2>1 DEF Child
  <2> QED BY <1>2, <1>3, <1>6, <2>2, <2>3, ReadsOn
<1> QED BY <1>7, <1>8 DEF ReadNewLine

(* The rest of the line is printed, and the file written.                  *)
LEMMA EndOfFileInv ==
  ASSUME IInv, NEW k \in 1..Newest, EndOfFile(k)
  PROVE  IInv'
<1> PICK x : x = children[k]
  OBVIOUS
<1>1. x \in Child /\ DOMAIN children = 1..Newest /\ k \in Int /\ Newest \in Nat
  BY ChildFacts DEF IInv
<1>2. /\ x.pc = "run" /\ x.pipe = <<>> /\ x.ownEnd # "open"
      /\ ~(k = Newest /\ main \in Writing)
  BY DEF EndOfFile, HasWriter, Writing
<1>3. PICK o : o = Printed(k)
  OBVIOUS
<1>4. o \in Seq(Seq(Int))
  <2>1. x.out \in Seq(Seq(Int)) /\ (x.line = <<>> \/ x.line \in Words)
    BY <1>1 DEF Child
  <2>2. CASE x.line = <<>>
    BY <1>3, <2>1, <2>2 DEF Printed
  <2>3. CASE x.line # <<>>
    <3>1. Encoded(x.line) \in Seq(Int)
      BY <2>1, <2>3, WordFacts, EncodedSeq
    <3>2. PICK e \in Seq(Int) : e = Encoded(x.line)
      BY <3>1
    <3>3. o = Append(x.out, e)
      BY <1>3, <2>3, <3>2 DEF Printed
    <3> QED BY <2>1, <3>3
  <2> QED BY <2>2, <2>3
<1>5. PICK y : y = [x EXCEPT !.pc = "zombie", !.line = <<>>, !.out = o]
  OBVIOUS
<1>6. children' = [children EXCEPT ![k] = y]
  <2>1. children' = [children EXCEPT ![k] = [x EXCEPT !.pc = "zombie", !.line = <<>>, !.out = o]]
    BY <1>1, <1>3 DEF EndOfFile, Exited
  <2> QED BY <1>5, <2>1
<1>7. /\ y \in Child /\ y.pid = x.pid /\ y.pipe = <<>> /\ y.line = <<>> /\ y.out = o
      /\ y.pc = "zombie" /\ y.calls = x.calls /\ y.stdout = x.stdout /\ y.pid \in Pids
  BY <1>1, <1>2, <1>4, <1>5 DEF Child
<1>8. children'[k] = y /\ Newest' = Newest
  BY <1>1, <1>6, <1>7 DEF Newest
<1>9. KeepsParent
  BY DEF EndOfFile
<1>10. main' = main /\ i' = i /\ file' = file
  BY <1>9 DEF KeepsParent, generator
<1>11. ChildInv(k, x) /\ output \in [Pids -> Seq(Seq(Int))]
  BY DEF IInv, TypeInv
<1>12. PICK w : w = output[y.pid] \o o
  OBVIOUS
<1>13. w \in Seq(Seq(Int)) /\ output' \in {output, [output EXCEPT ![y.pid] = w]}
       /\ (x.stdout = "file" => output'[y.pid] = w)
  <2>1. output[y.pid] \in Seq(Seq(Int))
    BY <1>7, <1>11
  <2>2. w \in Seq(Seq(Int))
    BY <1>4, <1>12, <2>1
  <2>3. output' = IF x.stdout = "file" THEN [output EXCEPT ![y.pid] = w] ELSE output
    BY <1>3, <1>7, <1>12 DEF EndOfFile
  <2> QED BY <1>7, <1>11, <2>2, <2>3
<1>14. ASSUME x.calls = "ok", main \in Handing
       PROVE  Delivers(k, children[k])'
  <2>1. Delivers(k, x)
    BY <1>11, <1>14 DEF ChildInv
  <2>2. Len(x.out) \in Nat /\ BatchSize \in Nat /\ i \in Nat
    <3>1. Len(x.out) \in Nat
      BY <1>1 DEF Child
    <3> QED BY <3>1, PipelineAssumption DEF IInv, TypeInv
  <2>3. Consumed(x) + 0 = Written(k)
    BY <1>2, <2>1 DEF Delivers
  <2>4. Written(k) = 2 * BatchSize \/ Written(k) = 2 * i
    <3>1. k < Newest \/ k = Newest
      BY ONLY <1>1, k \in 1..Newest
    <3> QED BY <1>2, <3>1 DEF Written, Writing
  <2>5. x.line = <<>>
    <3>1. x.line # <<>> => Consumed(x) = 2 * Len(x.out) + 1
      BY DEF Consumed
    <3>2. \A a, b \in Nat : (2 * a + 1) + 0 # 2 * b
      OBVIOUS
    <3> QED BY ONLY <2>2, <2>3, <2>4, <3>1, <3>2
  <2>6. y.out = x.out
    BY <1>3, <1>7, <2>5 DEF Printed
  <2>7. Written(k)' = Written(k)
    BY <1>8, <1>10 DEF Written
  <2> QED BY <1>2, <1>7, <1>8, <1>10, <2>1, <2>5, <2>6, <2>7, DeliversKept
<1>15. x.calls = "ok" => FileInv(children[k])'
  <2>1. x.calls = "ok" => x.stdout = "file" /\ output[y.pid] = <<>>
    BY <1>2, <1>7, <1>11 DEF ChildInv, FileInv
  <2>2. output[y.pid] = <<>> => w = o
    BY <1>4, <1>12, ConcatEmptySeq
  <2> QED BY <1>7, <1>8, <1>13, <2>1, <2>2 DEF FileInv
<1>16. (Alternates(children[k]) /\ Len(children[k].pipe) <= PipeCap)'
  BY <1>7, <1>8, PipelineAssumption DEF Alternates
<1>17. (k = Newest => main \notin {"batch", "word", "newline"})'
  BY <1>2, <1>8, <1>10 DEF Writing
<1>18. children'[k].pc # "reaped" /\ children'[k].calls = x.calls
  BY <1>7, <1>8
<1>19. ChildInv(k, children[k])'
  BY <1>10, <1>14, <1>15, <1>16, <1>17, <1>18 DEF ChildInv
<1>20. x.pc # "reaped" /\ y.pc # "reaped"
  BY <1>2, <1>7
<1> QED BY <1>6, <1>7, <1>9, <1>13, <1>19, <1>20, ChildMoves
-----------------------------------------------------------------------------
LEMMA WaitInv ==
  ASSUME IInv, Wait
  PROVE  IInv'
<1>1. PICK k \in 1..Newest : /\ children[k].pc = "zombie"
                            /\ children' = [children EXCEPT ![k].pc = "reaped"]
  BY DEF Wait
<1>2. PICK x : x = children[k]
  OBVIOUS
<1>3. PICK y : y = [x EXCEPT !.pc = "reaped"]
  OBVIOUS
<1>4. x \in Child /\ DOMAIN children = 1..Newest /\ Newest \in Nat
  BY <1>2, ChildFacts DEF IInv
<1>5. children' = [children EXCEPT ![k] = y]
  BY <1>1, <1>2, <1>3, <1>4
<1>6. /\ y \in Child /\ y.pid = x.pid /\ y.pipe = x.pipe /\ y.line = x.line /\ y.out = x.out
      /\ y.pc = "reaped" /\ y.calls = x.calls
  BY <1>3, <1>4 DEF Child
<1>7. /\ main = "wait" /\ main' = main /\ i' = i /\ file' = file /\ output' = output
      /\ processCount > 0 /\ processCount' = processCount - 1
      /\ UNCHANGED <<numOfWords, seed, length, word, pos, queue>>
  BY DEF Wait, generator
<1>8. /\ Newest' = Newest /\ children' \in Seq(Child) /\ children'[k] = y
      /\ \A j \in 1..Newest : j # k => children'[j] = children[j] /\ ChildInv(j, children[j])'
      /\ OneFileEach'
  BY <1>2, <1>5, <1>6, <1>7, OneMoves
<1>9. ChildInv(k, children[k])'
  <2>1. ChildInv(k, x)
    BY <1>2 DEF IInv
  <2>2. Written(k)' = Written(k)
    BY <1>7, <1>8 DEF Written
  <2>3. Delivers(k, x) => Delivers(k, children[k])'
    BY <1>2, <1>6, <1>7, <1>8, <2>2, DeliversKept
  <2>4. FileInv(x) => FileInv(children[k])'
    BY <1>1, <1>2, <1>6, <1>7, <1>8 DEF FileInv
  <2>5. (Alternates(children[k]) /\ Len(children[k].pipe) <= PipeCap)'
    BY <1>6, <1>8, <2>1 DEF ChildInv, Alternates
  <2>6. main' = "wait" /\ main = "wait" /\ children'[k].calls = x.calls
    BY <1>6, <1>7, <1>8
  <2> QED BY <2>1, <2>3, <2>4, <2>5, <2>6 DEF ChildInv
<1>10. \A j \in 1..Newest' : ChildInv(j, children[j])'
  BY <1>8, <1>9
<1>11. TypeInv'
  <2>1. processCount' \in 0..Newest'
    <3>1. processCount \in 0..Newest
      BY DEF IInv, TypeInv
    <3> QED BY ONLY <1>4, <1>7, <1>8, <3>1
  <2> QED BY <1>7, <1>8, <2>1 DEF IInv, TypeInv
<1>12. StartInv'
  BY <1>7 DEF StartInv, Starting
<1>13. HandInv'
  <2>1. Taken' = Taken /\ InHand' = InHand
    BY <1>7, <1>8 DEF Taken, InHand, Base
  <2> QED BY <1>7, <1>8, <2>1 DEF IInv, HandInv
<1>14. CountInv'
  <2>1. Unreaped' = Unreaped \ {k}
    BY <1>1, <1>6, <1>8 DEF Unreaped
  <2>2. IsFiniteSet(Unreaped) /\ k \in Unreaped
    <3>1. Unreaped \subseteq 1..Newest /\ IsFiniteSet(1..Newest)
      BY <1>4, FS_Interval DEF Unreaped
    <3> QED BY <1>1, <3>1, FS_Subset DEF Unreaped
  <2>3. Cardinality(Unreaped') = Cardinality(Unreaped) - 1
    BY <2>1, <2>2, FS_RemoveElement
  <2>4. processCount = Cardinality(Unreaped)
    BY <1>7 DEF IInv, CountInv
  <2> QED BY <1>7, <2>3, <2>4 DEF CountInv, Writing
<1> QED BY <1>8, <1>10, <1>11, <1>12, <1>13, <1>14 DEF IInv
-----------------------------------------------------------------------------
(* Putting a string into the pipe.                                         *)
LEMMA AlternatesWith ==
  ASSUME NEW x \in Child, NEW y \in Child, NEW u \in Words \cup {NewLine},
         y.pipe = Append(x.pipe, u), y.line = x.line,
         Alternates(x), u = NewLine <=> MidLine(x)
  PROVE  Alternates(y) /\ (MidLine(y) <=> u # NewLine)
<1> DEFINE s == x.pipe
           t == y.pipe
<1>1. s \in Seq(Words \cup {NewLine}) /\ t = Append(s, u)
  BY DEF Child
<1>2. /\ Len(s) \in Nat /\ Len(t) = Len(s) + 1 /\ t # <<>>
      /\ \A j \in 1..Len(s) : t[j] = s[j]
      /\ t[Len(s) + 1] = u
  BY <1>1
<1>3. s = <<>> <=> Len(s) = 0
  BY <1>1, EmptySeq
<1>4. s # <<>> => (x.line # <<>> <=> s[1] = NewLine)
  BY DEF Alternates
<1>5. \A j \in 1..Len(s)-1 : s[j] = NewLine <=> s[j + 1] # NewLine
  BY DEF Alternates
<1>6. u = NewLine <=> IF s = <<>> THEN x.line # <<>> ELSE s[Len(s)] # NewLine
  BY DEF MidLine
<1> HIDE DEF s, t
<1>7. x.line # <<>> <=> t[1] = NewLine
  <2>1. CASE s = <<>>
    BY <1>2, <1>3, <1>6, <2>1
  <2>2. CASE s # <<>>
    BY <1>2, <1>3, <1>4, <2>2
  <2> QED BY <2>1, <2>2
<1>8. \A j \in 1..Len(t)-1 : t[j] = NewLine <=> t[j + 1] # NewLine
  <2> TAKE j \in 1..Len(t)-1
  <2>1. CASE j = Len(s)
    <3>1. s # <<>> /\ t[j] = s[Len(s)] /\ t[j + 1] = u
      BY <1>2, <1>3, <2>1
    <3> QED BY <1>6, <3>1
  <2>2. CASE j # Len(s)
    <3>1. j \in 1..Len(s)-1 /\ j \in 1..Len(s) /\ j + 1 \in 1..Len(s)
      BY <1>2, <2>2
    <3> QED BY <1>2, <1>5, <3>1
  <2> QED BY <2>1, <2>2
<1>9. t[Len(t)] = u
  BY <1>2
<1> QED BY <1>2, <1>7, <1>8, <1>9 DEF Alternates, MidLine, t

LEMMA WriteInv ==
  ASSUME IInv, WriteString \/ WriteNewLine
  PROVE  IInv'
<1> DEFINE u == IF main = "word" THEN word ELSE NewLine
           to == IF main = "word" THEN "newline" ELSE "batch"
           written == IF main = "word" THEN i ELSE i + 1
<1>1. /\ main \in {"word", "newline"} /\ main \in Writing /\ main \in Handing
      /\ IF Reads(Newest)
         THEN /\ Len(children[Newest].pipe) < PipeCap
              /\ children' = [children EXCEPT ![Newest].pipe = Append(@, u)]
              /\ main' = to /\ i' = written
         ELSE main' = "failed" /\ UNCHANGED <<children, i>>
      /\ UNCHANGED <<numOfWords, seed, length, file, word, pos, queue, processCount, output>>
  BY DEF WriteString, WriteNewLine, Write, generator, Writing, Handing
<1>2. StartInv'
  BY <1>1 DEF StartInv, Starting
<1>3. i \in Nat /\ i < BatchSize /\ BatchSize \in Nat /\ word \in Words
  BY <1>1, PipelineAssumption DEF IInv, TypeInv, HandInv, InHand
<1>4. Newest \in Nat /\ Newest >= 1 /\ processCount = Newest - 1
  <2>1. processCount \in 0..Newest /\ Newest \in Nat
    BY DEF IInv, TypeInv, Newest
  <2>2. processCount = Newest - 1
    BY <1>1 DEF IInv, CountInv
  <2> QED BY ONLY <2>1, <2>2
<1>5. CASE ~Reads(Newest)
  <2>1. main' = "failed" /\ UNCHANGED <<children, i>>
    BY <1>1, <1>5
  <2>2. OneFileEach' /\ \A k \in 1..Newest' : ChildInv(k, children[k])'
    BY <1>1, <2>1, ChildrenKept
  <2>3. TypeInv'
    BY <1>1, <2>1 DEF IInv, TypeInv, Newest
  <2>4. HandInv' /\ CountInv'
    BY <2>1 DEF HandInv, CountInv, Handing, Writing
  <2> QED BY <1>2, <2>2, <2>3, <2>4 DEF IInv
<1>6. CASE Reads(Newest)
  <2> PICK v : v = u
    OBVIOUS
  <2> HIDE DEF u
  <2>1. PICK k \in 1..Newest : k = Newest
    BY <1>4
  <2>2. PICK x : x = children[k]
    OBVIOUS
  <2>3. x \in Child /\ DOMAIN children = 1..Newest
    BY <2>2, ChildFacts DEF IInv
  <2>4. v \in Words \cup {NewLine} /\ (v = NewLine <=> main = "newline")
    BY <1>1, <1>3, WordFacts DEF u
  <2>5. PICK y : y = [x EXCEPT !.pipe = Append(x.pipe, v)]
    OBVIOUS
  <2>6. children' = [children EXCEPT ![k] = y]
    BY <1>1, <1>6, <2>1, <2>2, <2>3, <2>5
  <2>7. /\ x.pipe \in Seq(Words \cup {NewLine}) /\ Append(x.pipe, v) \in Seq(Words \cup {NewLine})
        /\ Len(x.pipe) \in Nat /\ Len(Append(x.pipe, v)) = Len(x.pipe) + 1
        /\ \A j \in 1..Len(x.pipe) : Append(x.pipe, v)[j] = x.pipe[j]
        /\ Append(x.pipe, v)[Len(x.pipe) + 1] = v
    <3>1. x.pipe \in Seq(Words \cup {NewLine})
      BY <2>3 DEF Child
    <3> QED BY <2>4, <3>1
  <2>8. /\ y \in Child /\ y.pid = x.pid /\ y.pipe = Append(x.pipe, v) /\ y.line = x.line
        /\ y.out = x.out /\ y.pc = x.pc /\ y.calls = x.calls /\ y.stdout = x.stdout
    BY <2>3, <2>5, <2>7 DEF Child
  <2>9. /\ Newest' = Newest /\ children' \in Seq(Child) /\ children'[k] = y
        /\ \A j \in 1..Newest : j # k => children'[j] = children[j] /\ ChildInv(j, children[j])'
        /\ OneFileEach'
    <3>1. main' \in Writing
      BY <1>1, <1>6 DEF Writing
    <3> QED BY <1>1, <2>1, <2>2, <2>6, <2>8, <3>1, OneMoves
  <2>10. ChildInv(k, x)
    BY <2>2 DEF IInv
  <2>11. Alternates(y) /\ (MidLine(y) <=> main = "word")
    <3>1. MidLine(x) <=> main = "newline"
      BY <1>1, <2>1, <2>10 DEF ChildInv
    <3> QED BY <1>1, <2>3, <2>4, <2>8, <2>10, <3>1, AlternatesWith DEF ChildInv
  <2>12. Taken' = IF main = "word" THEN Taken ELSE Base(Newest) + (i + 1) + 0
    BY <1>1, <1>4, <1>6, <2>9 DEF Taken, InHand, Base
  <2>13. Base(Newest) \in Int /\ Taken = Base(Newest) + i + 1
    BY <1>1, <1>4, BaseFacts DEF Taken, InHand
  <2>14. Taken' = Taken
    BY ONLY <1>3, <2>12, <2>13
  <2>15. Written(k)' = Written(k) + 1 /\ Written(k) = IF main = "word" THEN 2 * i ELSE 2 * i + 1
    BY <1>1, <1>3, <1>4, <1>6, <2>1, <2>9 DEF Written
  <2>16. v = StreamUnit(k, Written(k) + 1)
    <3>1. CASE main = "word"
      <4>1. /\ (2 * i + 1) % 2 = 1 /\ ((2 * i + 1) + 1) \div 2 = i + 1
        <5>1. \A n \in Nat : (2 * n + 1) % 2 = 1 /\ ((2 * n + 1) + 1) \div 2 = n + 1
          OBVIOUS
        <5> QED BY <1>3, <5>1
      <4>2. StreamUnit(k, 2 * i + 1) = file[Base(k) + (i + 1)]
        BY <4>1 DEF StreamUnit
      <4>3. word = file[Taken]
        BY <1>1, <3>1 DEF IInv, HandInv, InHand
      <4>4. Base(k) + (i + 1) = Taken
        BY ONLY <1>3, <2>1, <2>13
      <4> QED BY <2>15, <3>1, <4>2, <4>3, <4>4 DEF u
    <3>2. CASE main = "newline"
      <4>1. ((2 * i + 1) + 1) % 2 # 1
        <5>1. \A n \in Nat : ((2 * n + 1) + 1) % 2 # 1
          OBVIOUS
        <5> QED BY <1>3, <5>1
      <4>2. StreamUnit(k, (2 * i + 1) + 1) = NewLine
        BY <4>1 DEF StreamUnit
      <4> QED BY <2>15, <3>2, <4>2 DEF u
    <3> QED BY <1>1, <3>1, <3>2
  <2>17. ASSUME x.calls = "ok"
         PROVE  Delivers(k, children[k])'
    <3>1. Delivers(k, x)
      BY <1>1, <2>10, <2>17 DEF ChildInv
    <3>2. Consumed(x) \in Nat /\ Consumed(children[k])' = Consumed(x)
      BY <2>2, <2>8, <2>9, StreamFacts DEF IInv, Consumed
    <3>3. \A n : StreamUnit(k, n)' = StreamUnit(k, n)
      BY <1>1 DEF StreamUnit, Base
    <3>4. Consumed(x) + Len(x.pipe) = Written(k)
          /\ \A j \in 1..Len(x.pipe) : x.pipe[j] = StreamUnit(k, Consumed(x) + j)
      BY <3>1 DEF Delivers
    <3>5. Consumed(x) + (Len(x.pipe) + 1) = Written(k) + 1
      BY ONLY <2>7, <3>2, <3>4
    <3>6. \A j \in 1..Len(x.pipe) + 1 : y.pipe[j] = StreamUnit(k, Consumed(x) + j)
      <4> TAKE j \in 1..Len(x.pipe) + 1
      <4>1. j \in 1..Len(x.pipe) \/ j = Len(x.pipe) + 1
        BY ONLY <2>7
      <4> QED BY <2>7, <2>8, <2>16, <3>4, <3>5, <4>1
    <3>7. (Consumed(children[k]) + Len(children[k].pipe) = Written(k))'
      BY <2>7, <2>8, <2>9, <2>15, <3>2, <3>5
    <3>8. (\A j \in 1..Len(children[k].pipe) :
              children[k].pipe[j] = StreamUnit(k, Consumed(children[k]) + j))'
      <4>1. children'[k].pipe = y.pipe /\ Len(y.pipe) = Len(x.pipe) + 1
        BY <2>7, <2>8, <2>9
      <4>2. \A j \in 1..Len(y.pipe) : y.pipe[j] = StreamUnit(k, Consumed(x) + j)
        BY <3>6, <4>1
      <4> QED BY <3>2, <3>3, <4>1, <4>2
    <3>9. (children[k].line # <<>> => children[k].line = file[Base(k) + Len(children[k].out) + 1])'
      BY <1>1, <2>8, <2>9, <3>1 DEF Delivers, Base
    <3>10. (\A j \in 1..Len(children[k].out) : children[k].out[j] = Encoded(file[Base(k) + j]))'
      BY <1>1, <2>8, <2>9, <3>1 DEF Delivers, Base
    <3> QED BY <3>7, <3>8, <3>9, <3>10 DEF Delivers
  <2>18. x.calls = "ok" => FileInv(children[k])'
    <3>1. x.pc \in {"forked", "setup", "run"}
      BY <1>6, <2>1, <2>2 DEF Reads
    <3> QED BY <1>1, <2>8, <2>9, <2>10, <3>1 DEF ChildInv, FileInv
  <2>19. ChildInv(k, children[k])'
    <3>1. (Alternates(children[k]) /\ Len(children[k].pipe) <= PipeCap)'
      <4>1. Len(x.pipe) < PipeCap /\ PipeCap \in Nat
        BY <1>1, <1>6, <2>1, <2>2, PipelineAssumption
      <4>2. Len(y.pipe) <= PipeCap
        BY ONLY <2>7, <2>8, <4>1
      <4> QED BY <2>9, <2>11, <4>2 DEF Alternates
    <3>2. MidLine(children[k])' <=> main' = "newline"
      BY <1>1, <1>6, <2>9, <2>11 DEF MidLine
    <3>3. (k = Newest /\ main \in {"batch", "word"} => ~MidLine(children[k]))'
      BY <3>2
    <3>4. (k = Newest /\ main = "newline" => MidLine(children[k]))'
      BY <3>2
    <3>5. children'[k].pc # "reaped"
      BY <1>6, <2>1, <2>2, <2>8, <2>9 DEF Reads
    <3>6. children'[k].calls = x.calls
      BY <2>8, <2>9
    <3> QED BY <2>17, <2>18, <3>1, <3>3, <3>4, <3>5, <3>6 DEF ChildInv
  <2>20. \A j \in 1..Newest' : ChildInv(j, children[j])'
    BY <2>9, <2>19
  <2>21. TypeInv'
    <3>1. i' \in 0..BatchSize /\ main' \in Handing
      BY <1>1, <1>3, <1>6 DEF Handing, Writing
    <3> QED BY <1>1, <2>9, <3>1 DEF IInv, TypeInv
  <2>22. HandInv'
    <3>1. /\ Len(file) = numOfWords /\ Taken <= numOfWords
          /\ queue = SubSeq(file, Taken + 1, numOfWords)
          /\ word = file[Taken]
      BY <1>1 DEF IInv, HandInv, InHand
    <3>2. main' = "newline" => i' = i
      BY <1>1, <1>6
    <3>3. InHand' = 1 => main' = "newline"
      BY <1>1, <1>6 DEF InHand
    <3>4. main' \in {"newline", "batch"}
      BY <1>1, <1>6
    <3> QED BY <1>1, <1>3, <2>14, <3>1, <3>2, <3>3, <3>4 DEF HandInv
  <2>23. CountInv'
    BY <1>1, <1>4, <1>6, <2>9 DEF CountInv, Writing
  <2> QED BY <1>2, <2>9, <2>20, <2>21, <2>22, <2>23 DEF IInv
<1> QED BY <1>5, <1>6
-----------------------------------------------------------------------------
(* A fork comes when the last batch was full, and takes a pid that nobody  *)
(* has: nobody has been waited for.                                        *)
LEMMA ForkInv ==
  ASSUME IInv, Fork
  PROVE  IInv'
<1>1. PICK p \in FreePids : children' = Append(children, NewChild(p))
  BY DEF Fork
<1>2. PICK z : z = NewChild(p)
  OBVIOUS
<1>3. /\ main = "loop" /\ main' = "batch" /\ i' = 0 /\ queue # <<>>
      /\ UNCHANGED <<numOfWords, seed, length, file, word, pos, queue, processCount, output>>
  BY DEF Fork, FirstOfBatch, generator
<1>4. /\ p \in Pids /\ z \in Child /\ z.pid = p /\ z.pc = "forked" /\ z.calls = "ok"
      /\ z.pipe = <<>> /\ z.line = <<>> /\ z.out = <<>>
  BY <1>1, <1>2 DEF FreePids, NewChild, Child
<1>5. /\ children \in Seq(Child) /\ Newest \in Nat /\ Newest' = Newest + 1
      /\ children' \in Seq(Child) /\ children'[Newest + 1] = z
      /\ \A j \in 1..Newest : children'[j] = children[j]
  <2>1. children \in Seq(Child)
    BY DEF IInv, TypeInv
  <2> QED BY <1>1, <1>2, <1>4, <2>1 DEF Newest
<1>6. \A j \in 1..Newest : children[j].pc # "reaped" /\ children[j].pid # p
  <2>1. \A j \in 1..Newest : children[j].pc # "reaped"
    BY <1>3 DEF IInv, ChildInv
  <2> QED BY <1>1, <2>1 DEF FreePids
<1>7. OneFileEach'
  <2>1. OneFileEach
    BY DEF IInv
  <2> SUFFICES ASSUME NEW j \in 1..Newest + 1, NEW m \in 1..Newest + 1, j # m
               PROVE  children'[j].pid # children'[m].pid
    BY <1>5 DEF OneFileEach
  <2>2. /\ j \in 1..Newest \/ j = Newest + 1
        /\ m \in 1..Newest \/ m = Newest + 1
    BY <1>5
  <2>3. CASE j \in 1..Newest /\ m \in 1..Newest
    BY <1>5, <2>1, <2>3 DEF OneFileEach
  <2>4. CASE j = Newest + 1 \/ m = Newest + 1
    BY <1>4, <1>5, <1>6, <2>2, <2>4
  <2> QED BY <2>2, <2>3, <2>4
<1>8. /\ processCount = Newest
      /\ Newest = 0 \/ i = BatchSize
      /\ Len(file) = numOfWords /\ Taken <= numOfWords
      /\ queue = SubSeq(file, Taken + 1, numOfWords)
  BY <1>3 DEF IInv, CountInv, HandInv, Handing
<1>9. BatchSize \in Nat /\ i \in Nat
  BY PipelineAssumption DEF IInv, TypeInv
<1>10. Base(Newest + 1) = Taken /\ Taken \in Int
  <2>1. InHand = 0 /\ Base(Newest) \in Int /\ Base(Newest + 1) = Base(Newest) + BatchSize
    <3>1. Newest \in Int
      BY <1>5
    <3> QED BY <1>3, <3>1, BaseFacts DEF InHand
  <2>2. CASE Newest = 0
    <3>1. Taken = 0 /\ Newest + 1 = 1
      BY <2>2 DEF Taken
    <3> QED BY <3>1, BaseFacts
  <2>3. CASE Newest # 0
    <3>1. Taken = Base(Newest) + i + 0 /\ i = BatchSize
      BY <1>8, <2>1, <2>3 DEF Taken
    <3> QED BY ONLY <1>9, <2>1, <3>1
  <2> QED BY <2>2, <2>3
<1>11. Taken' = Taken /\ InHand' = 0
  <2>1. InHand' = 0 /\ Newest' # 0 /\ Base(Newest)' = Base(Newest + 1)
    BY <1>3, <1>5 DEF InHand, Base
  <2>2. Taken' = Base(Newest + 1) + 0 + 0
    BY <1>3, <2>1 DEF Taken
  <2> QED BY <1>10, <2>1, <2>2
<1>12. ASSUME NEW j \in 1..Newest
       PROVE  ChildInv(j, children[j])'
  <2>1. ChildInv(j, children[j]) /\ children'[j] = children[j] /\ j \in Nat /\ j <= Newest
    BY <1>5 DEF IInv
  <2>2. Written(j)' = 2 * BatchSize
    BY <1>5, <2>1 DEF Written
  <2>3. Written(j) = 2 * BatchSize
    BY <1>3, <1>5, <1>8, <2>1 DEF Written
  <2>4. Delivers(j, children[j]) => Delivers(j, children[j])'
    BY <1>3, <2>1, <2>2, <2>3, DeliversKept
  <2>5. FileInv(children[j]) => FileInv(children[j])'
    BY <1>3, <2>1 DEF FileInv
  <2>6. j # Newest'
    BY <1>5, <2>1
  <2>7. (Len(children[j].pipe) <= PipeCap /\ Alternates(children[j]))'
    BY <2>1 DEF ChildInv, Alternates
  <2>8. children'[j].pc # "reaped"
    BY <1>6, <2>1
  <2>9. (children[j].calls = "ok" =>
            FileInv(children[j]) /\ (main \in Handing => Delivers(j, children[j])))'
    BY <1>3, <2>1, <2>4, <2>5 DEF ChildInv, Handing
  <2> QED BY <2>6, <2>7, <2>8, <2>9 DEF ChildInv
<1>13. PICK k : k = Newest + 1
  OBVIOUS
<1>14. ChildInv(k, children[k])'
  <2>1. children'[k] = z /\ k = Newest' /\ main' = "batch"
    BY <1>3, <1>5, <1>13
  <2>2. Len(z.pipe) = 0 /\ Len(z.out) = 0 /\ PipeCap \in Nat
    BY <1>4, PipelineAssumption
  <2>3. (Len(children[k].pipe) <= PipeCap /\ Alternates(children[k]) /\ ~MidLine(children[k]))'
    BY <1>4, <2>1, <2>2 DEF Alternates, MidLine
  <2>4. FileInv(children[k])'
    BY <1>4, <2>1 DEF FileInv
  <2>5. Consumed(children[k])' = 0 /\ Written(k)' = 0
    <3>1. Consumed(children[k])' = 2 * Len(z.out)
      BY <1>4, <2>1 DEF Consumed
    <3>2. Written(k)' = 2 * i'
      BY <1>5, <1>13, <2>1 DEF Written
    <3> QED BY <1>3, <2>2, <3>1, <3>2
  <2>6. Delivers(k, children[k])'
    BY <1>4, <2>1, <2>2, <2>5 DEF Delivers
  <2> QED BY <1>4, <2>1, <2>3, <2>4, <2>6 DEF ChildInv
<1>15. \A j \in 1..Newest' : ChildInv(j, children[j])'
  <2> TAKE j \in 1..Newest'
  <2>1. j \in 1..Newest \/ j = k
    BY <1>5, <1>13
  <2> QED BY <1>12, <1>14, <2>1
<1>16. TypeInv'
  <2>1. i' \in 0..BatchSize /\ main' \in Handing /\ processCount' \in 0..Newest'
    BY <1>3, <1>5, <1>8, <1>9 DEF Handing, Writing
  <2> QED BY <1>3, <1>5, <2>1 DEF IInv, TypeInv
<1>17. StartInv'
  BY <1>3 DEF StartInv, Starting
<1>18. HandInv'
  BY <1>3, <1>8, <1>11 DEF HandInv
<1>19. CountInv'
  BY <1>3, <1>5, <1>8 DEF CountInv, Writing
<1> QED BY <1>7, <1>15, <1>16, <1>17, <1>18, <1>19 DEF IInv
-----------------------------------------------------------------------------
LEMMA NextInv == IInv /\ [Next]_vars => IInv'
<1> SUFFICES ASSUME IInv, [Next]_vars
             PROVE  IInv'
  OBVIOUS
<1>1. CASE \/ CheckArgs \/ TooFewWords \/ GenLength \/ GenLetter \/ WriteWord \/ Generated
           \/ ReadWord \/ ReadAll \/ CallFails
  BY <1>1, StartSteps
<1>2. CASE Fork
  BY <1>2, ForkInv
<1>3. CASE NoFork \/ PopWord \/ CloseBatch \/ AllHandedOut \/ Return
  BY <1>3, HandSteps
<1>4. CASE WriteString \/ WriteNewLine
  BY <1>4, WriteInv
<1>5. CASE Wait
  BY <1>5, WaitInv
<1>6. ASSUME NEW k \in 1..Newest, ChildStep(k)
      PROVE  IInv'
  <2>1. CASE CloseWriteEnd(k) \/ SetUp(k) \/ FreopenFails(k) \/ SetUpFails(k)
    BY <2>1, SetUpSteps
  <2>2. CASE ReadString(k)
    BY <2>2, ReadStringInv
  <2>3. CASE ReadNewLine(k)
    BY <2>3, ReadNewLineInv
  <2>4. CASE EndOfFile(k)
    BY <2>4, EndOfFileInv
  <2> QED BY <1>6, <2>1, <2>2, <2>3, <2>4 DEF ChildStep
<1>7. CASE UNCHANGED vars
  <2>1. UNCHANGED <<main, numOfWords, seed, length, file, word, pos, queue, i, processCount,
                    children, output>>
    BY <1>7 DEF vars, generator
  <2>2. Newest' = Newest
    BY <2>1 DEF Newest
  <2>3. TypeInv' /\ StartInv' /\ OneFileEach'
    BY <2>1, <2>2 DEF IInv, TypeInv, StartInv, OneFileEach
  <2>4. Taken' = Taken /\ InHand' = InHand /\ Unreaped' = Unreaped
    BY <2>1, <2>2 DEF Taken, InHand, Base, Unreaped
  <2>5. HandInv' /\ CountInv'
    BY <2>1, <2>2, <2>4 DEF IInv, HandInv, CountInv
  <2>6. ASSUME NEW k \in 1..Newest
        PROVE  ChildInv(k, children[k])'
    <3>1. ChildInv(k, children[k])
      BY DEF IInv
    <3>2. Written(k)' = Written(k)
      BY <2>1, <2>2 DEF Written
    <3>3. Delivers(k, children[k]) => Delivers(k, children[k])'
      BY <2>1, <3>2, DeliversKept
    <3>4. FileInv(children[k]) => FileInv(children[k])'
      BY <2>1 DEF FileInv
    <3>5. Alternates(children[k])' = Alternates(children[k])
          /\ MidLine(children[k])' = MidLine(children[k])
      BY <2>1 DEF Alternates, MidLine
    <3> QED BY <2>1, <2>2, <3>1, <3>3, <3>4, <3>5 DEF ChildInv
  <2> QED BY <2>2, <2>3, <2>5, <2>6 DEF IInv
<1> QED BY <1>1, <1>2, <1>3, <1>4, <1>5, <1>6, <1>7 DEF Next, ParentStep

(* The inductive invariant holds of every run.                             *)
LEMMA Invariance == Spec => []IInv
<1>1. Init => IInv
  BY InitInv
<1>2. IInv /\ [Next]_vars => IInv'
  BY NextInv
<1> QED BY <1>1, <1>2, PTL DEF Spec
-----------------------------------------------------------------------------
(* Types, and with them that no word is empty or longer than the buffers   *)
(* of fscanf and fgets, and no pipe holds more than it can.                *)
THEOREM PipelineTypeCorrect == Spec => []TypeOK
<1>1. IInv => TypeOK
  BY DEF IInv, TypeInv, ChildInv, TypeOK, Starting, Handing, Writing
<1> QED BY <1>1, Invariance, PTL

(* No two children of a run write to the same file, although a pid can be  *)
(* given again as soon as its process has been waited for.                 *)
THEOREM FilesCorrect == Spec => []OneFileEach
<1>1. IInv => OneFileEach
  BY DEF IInv
<1> QED BY <1>1, Invariance, PTL

(* At every point of a run, and however parent and children interleave,    *)
(* each word is in one place and in its turn.                              *)
THEOREM WordsCorrect == Spec => []EachWordOnce
<1>1. IInv => EachWordOnce
  <2> SUFFICES ASSUME IInv, main \in Handing
               PROVE  /\ queue = SubSeq(file, Taken + 1, numOfWords)
                      /\ InHand = 1 => word = file[Taken]
                      /\ \A k \in 1..Newest :
                            children[k].calls = "ok" => Delivers(k, children[k])
    BY DEF EachWordOnce, Handing, Writing
  <2> QED BY DEF IInv, HandInv, ChildInv
<1> QED BY <1>1, Invariance, PTL

(* The files of a finished run hold the encrypted words, in the order of   *)
(* the word file, and every child has been waited for.                     *)
LEMMA ReturnedMeansDone ==
  ASSUME IInv, main = "returned"
  PROVE  /\ Taken = numOfWords
         /\ \A k \in 1..Newest :
               /\ children[k].pc = "reaped"
               /\ children[k].calls = "ok" =>
                     output[children[k].pid] =
                         [j \in 1..BatchLength(k) |-> Encoded(file[Base(k) + j])]
<1>1. Taken = numOfWords /\ Newest \in Nat /\ BatchSize \in Nat /\ i \in Nat
  BY PipelineAssumption DEF IInv, TypeInv, HandInv, Handing, Newest
<1>2. Unreaped = {}
  <2>1. Cardinality(Unreaped) = 0
    BY DEF IInv, CountInv
  <2>2. Unreaped \subseteq 1..Newest /\ IsFiniteSet(1..Newest)
    BY <1>1, FS_Interval DEF Unreaped
  <2> QED BY <2>1, <2>2, FS_Subset, FS_EmptySet
<1>3. ASSUME NEW k \in 1..Newest
      PROVE  children[k].pc = "reaped"
  BY <1>2 DEF Unreaped
<1>4. ASSUME NEW k \in 1..Newest, children[k].calls = "ok"
      PROVE  output[children[k].pid] =
                 [j \in 1..BatchLength(k) |-> Encoded(file[Base(k) + j])]
  <2>1. PICK x : x = children[k]
    OBVIOUS
  <2>2. x \in Child /\ k \in Nat /\ ChildInv(k, x)
    BY <2>1, ChildFacts DEF IInv
  <2>3. /\ output[x.pid] = x.out /\ x.pipe = <<>> /\ x.line = <<>>
        /\ Delivers(k, x)
    BY <1>3, <1>4, <2>1, <2>2 DEF ChildInv, FileInv, Handing
  <2>4. x.out \in Seq(Seq(Int)) /\ Len(x.out) \in Nat
    BY <2>2 DEF Child
  <2>5. 2 * Len(x.out) = Written(k)
    <3>1. Consumed(x) = 2 * Len(x.out) /\ Len(x.pipe) = 0
      BY <2>3 DEF Consumed
    <3>2. 2 * Len(x.out) + 0 = Written(k)
      BY <2>3, <3>1 DEF Delivers
    <3> QED BY ONLY <2>4, <3>2
  <2>6. Len(x.out) = BatchLength(k)
    <3>1. CASE k < Newest
      BY <1>1, <2>4, <2>5, <3>1 DEF Written, BatchLength
    <3>2. CASE ~(k < Newest)
      <4>1. k = Newest /\ Newest # 0 /\ InHand = 0
        BY <1>1, <2>2, <3>2 DEF InHand
      <4>2. numOfWords = Base(Newest) + i + 0 /\ Base(Newest) \in Int
        BY <1>1, <4>1, BaseFacts DEF Taken
      <4>3. BatchLength(k) = numOfWords - Base(Newest) /\ Written(k) = 2 * i
        BY <3>2 DEF BatchLength, Written
      <4> QED BY ONLY <1>1, <2>4, <2>5, <4>2, <4>3
    <3> QED BY <3>1, <3>2
  <2>7. \A j \in 1..Len(x.out) : x.out[j] = Encoded(file[Base(k) + j])
    BY <2>3 DEF Delivers
  <2>8. x.out = [j \in 1..Len(x.out) |-> x.out[j]]
    BY <2>4
  <2> QED BY <2>1, <2>3, <2>6, <2>7, <2>8
<1> QED BY <1>1, <1>3, <1>4

(* What the program was written for holds for every number of words, batch *)
(* size and pipe, whatever calls fail, of the children none of whose calls *)
(* did.                                                                    *)
THEOREM EncryptionCorrect == Spec => []AllEncrypted
<1>1. IInv => AllEncrypted
  BY ReturnedMeansDone DEF AllEncrypted
<1> QED BY <1>1, Invariance, PTL
-----------------------------------------------------------------------------
(* Past its first step a child does not hold the write end of its pipe:    *)
(* nothing a process does later opens it again.                            *)
EndsClosed == \A k \in 1..Newest : children[k].pc # "forked" => children[k].ownEnd = "closed"

LEMMA EndsClosedStep ==
  ASSUME IInv, EndsClosed, Next
  PROVE  EndsClosed'
<1>1. children \in Seq(Child) /\ Newest \in Nat
  BY DEF IInv, TypeInv, Newest
<1>2. CASE UNCHANGED children
  BY <1>2 DEF EndsClosed, Newest
<1>3. CASE Fork
  <2>1. PICK p \in FreePids : children' = Append(children, NewChild(p))
    BY <1>3 DEF Fork
  <2>2. Newest' = Newest + 1 /\ children'[Newest + 1].pc = "forked"
    BY <1>1, <2>1 DEF Newest, NewChild
  <2>3. \A k \in 1..Newest : children'[k] = children[k]
    BY <1>1, <2>1 DEF Newest
  <2> QED BY <1>1, <2>2, <2>3 DEF EndsClosed
<1>4. ASSUME NEW k \in 1..Newest, NEW x,
             children' = [children EXCEPT ![k] = x],
             x.pc # "forked" => x.ownEnd = "closed"
      PROVE  EndsClosed'
  <2>1. Newest' = Newest /\ children'[k] = x
    BY <1>1, <1>4 DEF Newest
  <2>2. \A j \in 1..Newest \ {k} : children'[j] = children[j]
    BY <1>1, <1>4 DEF Newest
  <2> QED BY <1>4, <2>1, <2>2 DEF EndsClosed
<1>5. ASSUME NEW k \in 1..Newest
      PROVE  children[k] \in Child /\ (children[k].pc # "forked" => children[k].ownEnd = "closed")
  BY <1>1 DEF EndsClosed, Newest
<1>6. CASE WriteString \/ WriteNewLine
  <2>1. UNCHANGED children \/ \E s : children' = [children EXCEPT ![Newest].pipe = Append(@, s)]
    BY <1>6 DEF WriteString, WriteNewLine, Write
  <2>2. CASE Newest = 0
    BY <1>1, <2>1, <2>2 DEF EndsClosed, Newest
  <2>3. ASSUME Newest # 0, NEW s, children' = [children EXCEPT ![Newest].pipe = Append(@, s)]
        PROVE  EndsClosed'
    <3> DEFINE x == [children[Newest] EXCEPT !.pipe = Append(@, s)]
    <3>1. Newest \in 1..Newest /\ children' = [children EXCEPT ![Newest] = x]
      BY <1>1, <2>3
    <3>2. x.pc = children[Newest].pc /\ x.ownEnd = children[Newest].ownEnd
      BY <1>5, <3>1 DEF Child
    <3> HIDE DEF x
    <3> QED BY <1>4, <1>5, <3>1, <3>2
  <2> QED BY <1>2, <2>1, <2>2, <2>3
<1>7. CASE Wait
  <2>1. PICK k \in 1..Newest : /\ children[k].pc = "zombie"
                               /\ children' = [children EXCEPT ![k].pc = "reaped"]
    BY <1>7 DEF Wait
  <2> DEFINE x == [children[k] EXCEPT !.pc = "reaped"]
  <2>2. children' = [children EXCEPT ![k] = x] /\ x.ownEnd = "closed"
    BY <1>5, <2>1 DEF Child
  <2> HIDE DEF x
  <2> QED BY <1>4, <2>2
<1>8. ASSUME NEW k \in 1..Newest, ChildStep(k)
      PROVE  EndsClosed'
  <2>1. \E x : children' = [children EXCEPT ![k] = x] /\ x.ownEnd = "closed"
    <3>1. CASE CloseWriteEnd(k)
      <4> DEFINE x == [children[k] EXCEPT !.ownEnd = "closed", !.pc = "setup"]
      <4>1. children' = [children EXCEPT ![k] = x] /\ x.ownEnd = "closed"
        BY <1>5, <3>1 DEF CloseWriteEnd, OwnEndAfterClose, Child
      <4> HIDE DEF x
      <4> QED BY <4>1
    <3>3. CASE SetUp(k)
      <4> DEFINE x == [children[k] EXCEPT !.pc = "run", !.stdout = "file"]
      <4>1. children' = [children EXCEPT ![k] = x] /\ x.ownEnd = children[k].ownEnd
        BY <1>5, <3>3 DEF SetUp, Child
      <4> QED BY <1>5, <3>3, <4>1 DEF SetUp
    <3>4. CASE FreopenFails(k)
      <4> DEFINE x == [children[k] EXCEPT !.pc = "run", !.stdout = "closed", !.calls = "failed"]
      <4>1. children' = [children EXCEPT ![k] = x] /\ x.ownEnd = children[k].ownEnd
        BY <1>5, <3>4 DEF FreopenFails, Child
      <4> QED BY <1>5, <3>4, <4>1 DEF FreopenFails
    <3>5. CASE SetUpFails(k)
      <4> DEFINE x == [children[k] EXCEPT !.pc = Exited, !.calls = "failed"]
      <4>1. children' = [children EXCEPT ![k] = x] /\ x.ownEnd = children[k].ownEnd
        BY <1>5, <3>5 DEF SetUpFails, Child
      <4> QED BY <1>5, <3>5, <4>1 DEF SetUpFails
    <3>6. CASE ReadString(k)
      <4> DEFINE x == [children[k] EXCEPT !.pipe = Tail(@), !.line = @ \o Head(children[k].pipe)]
      <4>1. children' = [children EXCEPT ![k] = x] /\ x.ownEnd = children[k].ownEnd
        BY <1>5, <3>6 DEF ReadString, Child
      <4> QED BY <1>5, <3>6, <4>1 DEF ReadString
    <3>7. CASE ReadNewLine(k)
      <4> DEFINE x == [children[k] EXCEPT !.pipe = Tail(@), !.line = <<>>,
                                          !.out = Append(@, Encoded(children[k].line))]
                 y == [children[k] EXCEPT !.pipe = Tail(@), !.line = <<>>, !.calls = "failed"]
      <4>1. \/ children' = [children EXCEPT ![k] = x]
            \/ children' = [children EXCEPT ![k] = y]
        BY <1>5, <3>7 DEF ReadNewLine
      <4>2. x.ownEnd = children[k].ownEnd /\ y.ownEnd = children[k].ownEnd
        BY <1>5 DEF Child
      <4> HIDE DEF x, y
      <4> QED BY <1>5, <3>7, <4>1, <4>2 DEF ReadNewLine
    <3>8. CASE EndOfFile(k)
      <4> DEFINE x == [children[k] EXCEPT !.pc = Exited, !.line = <<>>, !.out = Printed(k)]
      <4>1. children' = [children EXCEPT ![k] = x] /\ x.ownEnd = children[k].ownEnd
        BY <1>5, <3>8 DEF EndOfFile, Child
      <4> QED BY <1>5, <3>8, <4>1 DEF EndOfFile
    <3> QED BY <1>8, <3>1, <3>3, <3>4, <3>5, <3>6, <3>7, <3>8 DEF ChildStep
  <2> QED BY <1>4, <2>1
<1>9. ParentStep => UNCHANGED children \/ Fork \/ WriteString \/ WriteNewLine \/ Wait
  BY DEF ParentStep, CheckArgs, TooFewWords, GenLength, GenLetter, WriteWord, Generated,
         ReadWord, ReadAll, NoFork, PopWord, CloseBatch, AllHandedOut, Return, CallFails, Fails
<1> QED BY <1>2, <1>3, <1>6, <1>7, <1>8, <1>9 DEF Next

(* While the parent waits, or is gone, no child has a writer on its pipe   *)
(* and nothing in it.                                                      *)
LEMMA NobodyStuckNow ==
  ASSUME IInv, EndsClosed
  PROVE  NobodyStuck
<1>1. children \in Seq(Child) /\ Newest \in Nat
  BY DEF IInv, TypeInv, Newest
<1>2. ASSUME main = "wait", processCount > 0, \A k \in 1..Newest : children[k].pc # "zombie"
      PROVE  \E k \in 1..Newest : Reads(k)
  <2>1. Cardinality(Unreaped) > 0
    BY <1>2 DEF IInv, CountInv
  <2>2. PICK k \in 1..Newest : children[k].pc # "reaped"
    BY <2>1, FS_EmptySet DEF Unreaped
  <2>3. children[k] \in Child
    BY <1>1 DEF Newest
  <2> QED BY <1>2, <2>2, <2>3 DEF Child, Reads
<1>3. ASSUME main \in {"word", "newline"}
      PROVE  Newest \in 1..Newest
  BY <1>1, <1>3 DEF IInv, TypeInv, CountInv, Writing
<1>4. ASSUME NEW k \in 1..Newest, ChildBlocked(k)
      PROVE  k = Newest /\ main \in {"batch", "word", "newline"} /\ children[k].pipe = <<>>
  BY <1>4 DEF ChildBlocked, HasWriter, EndsClosed
<1>5. Len(<<>>) = 0 /\ PipeCap > 0
  BY PipelineAssumption
<1>6. ASSUME ParentBlocked
      PROVE  \E k \in 1..Newest : Reads(k)
  <2>1. CASE main \in {"word", "newline"}
    BY <1>3, <1>6, <2>1 DEF ParentBlocked
  <2>2. CASE main = "wait"
    BY <1>2, <1>6, <2>2 DEF ParentBlocked
  <2> QED BY <1>6, <2>1, <2>2 DEF ParentBlocked
<1>7. ASSUME ParentBlocked \/ main \in {"returned", "failed"}, NEW k \in 1..Newest
      PROVE  ~ChildBlocked(k)
  <2>1. SUFFICES ASSUME ChildBlocked(k)
                 PROVE  FALSE
    OBVIOUS
  <2>2. main \in {"word", "newline"} /\ Len(children[Newest].pipe) >= PipeCap
    BY <1>4, <1>7, <2>1 DEF ParentBlocked
  <2>3. children[Newest].pipe = <<>>
    BY <1>4, <2>1
  <2> QED BY <1>5, <2>2, <2>3, PipelineAssumption
<1> QED BY <1>6, <1>7 DEF NobodyStuck

(* However small the pipes and however the processes interleave, parent    *)
(* and children never wait for each other in a circle.                     *)
THEOREM NobodyStuckCorrect == Spec => []NobodyStuck
<1>1. Init => EndsClosed
  BY DEF Init, EndsClosed, Newest
<1>2. IInv /\ EndsClosed /\ [Next]_vars => EndsClosed'
  <2>1. UNCHANGED vars /\ EndsClosed => EndsClosed'
    BY DEF vars, EndsClosed, Newest
  <2> QED BY <2>1, EndsClosedStep
<1>3. IInv /\ EndsClosed => NobodyStuck
  BY NobodyStuckNow
<1> QED BY <1>1, <1>2, <1>3, Invariance, PTL DEF Spec
=============================================================================
