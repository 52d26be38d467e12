------------------------------- MODULE Cipher -------------------------------
(***************************************************************************)
(* create_cipher: a user runs cipher -e <plaintext> and -d <ciphertext>,   *)
(* any number of times; cipher.c calls pbEncode or pbDecode of polybius.c, *)
(* whose loops take one step for each round.  What was encrypted last, and *)
(* what came out, is remembered from one run to the next.                  *)
(***************************************************************************)
EXTENDS PolybiusTable, FiniteSets

CONSTANTS Plaintexts, Ciphertexts,    \* what users pass as argv[2]
          NULL,
          AllocFails                  \* may malloc return NULL?

ASSUME CipherAssumption ==
    /\ Plaintexts \subseteq Seq(Int) /\ Ciphertexts \subseteq Seq(Int)
    /\ NULL \notin Seq(Int)
    /\ AllocFails \in BOOLEAN

VARIABLES pc, option, arg,    \* the run: where it is, what it was asked ("none"
                              \* if it got no memory, or wrong arguments), argv[2]
          i, block,           \* the loop index, the size of the block from malloc
          out, letters,       \* the block up to index; the characters encoded
          printed,            \* the result of the last run
          secret, kept        \* the last ciphertext made, and of what

run == <<pc, option, arg, i, block, out, letters>>
vars == <<run, printed, secret, kept>>

Init ==
    /\ pc = "shell" /\ option = "none" /\ arg = <<>>
    /\ i = 0 /\ block = 0 /\ out = <<>> /\ letters = <<>>
    /\ printed = NULL
    /\ secret = <<>> /\ kept = <<>>
-----------------------------------------------------------------------------
(* argv[1] and argv[2] reach a function, which allocates size bytes.       *)
Call(op, text, to, size) ==
    /\ pc = "shell"
    /\ pc' = to /\ option' = op /\ arg' = text
    /\ i' = 0 /\ out' = <<>> /\ letters' = <<>>
    /\ block' = size
    /\ printed' = NULL
    /\ UNCHANGED <<secret, kept>>

(* main prints the result, or "Error occurred."                            *)
Result(value) ==
    /\ pc' = "shell"
    /\ printed' = value
    /\ UNCHANGED <<option, arg, i, block, out, letters>>

(* main without one of its options, or with an argument too many; malloc  *)
(* in either function.                                                     *)
Refuse == Call("none", <<>>, "shell", 0)
AllocationFails == AllocFails /\ Call("none", arg, "shell", 0)
-----------------------------------------------------------------------------
(* pbEncode: two digits for each character of the table, nothing for any   *)
(* other, after toupper.                                                   *)
EncodeSize_NoNull(n) == 2 * n
EncodeSize(n) == 2 * n + 1
Looked_AsIs(ch) == ch
Looked(ch) == toupper(ch)

Encode(text) == Call("-e", text, "encode", EncodeSize(Len(text)))

EncodeChar ==
    /\ pc = "encode"
    /\ i < Len(arg)
    /\ i' = i + 1
    /\ LET ch == Looked(arg[i + 1])
       IN  IF InTable(ch)
           THEN /\ out' = out \o <<helperFindChar(ch)[1] + 1, helperFindChar(ch)[2] + 1>>
                /\ letters' = Append(letters, ch)
           ELSE UNCHANGED <<out, letters>>
    /\ UNCHANGED <<pc, option, arg, block, printed, secret, kept>>

Encoding ==
    /\ pc = "encode"
    /\ i = Len(arg)
    /\ Result(out)
    /\ secret' = out /\ kept' = letters
-----------------------------------------------------------------------------
(* pbDecode: an odd length is refused before the malloc, a pair that is no *)
(* position of the table in the loop.                                      *)
InRange_Strict(d) == d >= 1 /\ d < TABLE_SIZE
InRange(d) == d >= 1 /\ d <= TABLE_SIZE
Position_Swapped(r, k) == table[<<k - 1, r - 1>>]
Position(r, k) == table[<<r - 1, k - 1>>]

Decode(text) ==
    /\ Len(text) % 2 = 0
    /\ Call("-d", text, "decode", (Len(text) \div 2) + 1)

DecodeOdd(text) ==
    /\ Len(text) % 2 = 1
    /\ Call("-d", text, "shell", 0)

DecodePair ==
    /\ pc = "decode"
    /\ i < Len(arg)
    /\ InRange(arg[i + 1]) /\ InRange(arg[i + 2])
    /\ out' = Append(out, Position(arg[i + 1], arg[i + 2]))
    /\ i' = i + 2
    /\ UNCHANGED <<pc, option, arg, block, letters, printed, secret, kept>>

BadPair ==
    /\ pc = "decode"
    /\ i < Len(arg)
    /\ ~(InRange(arg[i + 1]) /\ InRange(arg[i + 2]))
    /\ Result(NULL)
    /\ UNCHANGED <<secret, kept>>

Decoding ==
    /\ pc = "decode"
    /\ i >= Len(arg)
    /\ Result(out)
    /\ UNCHANGED <<secret, kept>>
-----------------------------------------------------------------------------
Next ==
    \/ Refuse \/ AllocationFails
    \/ \E text \in Plaintexts : Encode(text)
    \/ EncodeChar \/ Encoding
    \/ \E text \in Ciphertexts \cup {secret} : Decode(text) \/ DecodeOdd(text)
    \/ DecodePair \/ BadPair \/ Decoding

Spec == Init /\ [][Next]_vars
-----------------------------------------------------------------------------
(* Neither loop, whatever it is given, writes past the block it allocated, *)
(* and there is room for the null at the end.                              *)
NoOverflow == pc # "shell" => Len(out) + 1 <= block

(* Decoding what encoding has printed, however long ago and whatever was   *)
(* decoded in between, gives the characters that were encoded.             *)
RoundTrip ==
    pc = "shell" /\ option = "-d" /\ arg = secret => printed = kept

(* Encoding keeps the characters of the text that are in the table once    *)
(* they are upper case, in order, and prints what the word pipeline takes  *)
(* for their encryption: the k-th character of the text, if it is found,   *)
(* comes after those found before it.                                      *)
Found(text, n) == {k \in 1..n : InTable(toupper(text[k]))}

Clears(w, text, n) ==
    /\ Len(w) = Cardinality(Found(text, n))
    /\ \A k \in Found(text, n) : w[Cardinality(Found(text, k))] = toupper(text[k])

EncodesLetters ==
    pc = "shell" /\ option = "-e" =>
        printed = Encoded(kept) /\ secret = printed /\ Clears(kept, arg, Len(arg))

(* Decoding refuses exactly what is not made of pairs of digits of the     *)
(* table: no pair reads outside the table, and none of it is refused.      *)
DecodesExactly ==
    pc = "shell" /\ option = "-d" =>
        (printed # NULL <=> Len(arg) % 2 = 0 /\ \A k \in 1..Len(arg) : arg[k] \in 1..TABLE_SIZE)
=============================================================================
