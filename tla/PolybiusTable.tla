--------------------------- MODULE PolybiusTable ----------------------------
(***************************************************************************)
(* The square of polybius.c and what encoding with it means.  Characters   *)
(* are numbered as genWord numbers the letters: lower case, then upper     *)
(* case, then the digits 0 to 9; any other integer is some other           *)
(* character.  A character of a ciphertext is counted from '0'.            *)
(***************************************************************************)
EXTENDS Integers, Sequences

CONSTANTS TABLE_SIZE,   \* 6
          Alphabet      \* 26 letters

ASSUME TableAssumption ==
    /\ TABLE_SIZE \in 1..9
    /\ Alphabet \in Nat \ {0}
    /\ Alphabet <= TABLE_SIZE * TABLE_SIZE

Index == 0..TABLE_SIZE-1
Letters == 0..2*Alphabet-1       \* a to z, A to Z

toupper(c) == IF c \in 0..Alphabet-1 THEN c + Alphabet ELSE c

(* buildPolybiusTable: upper-case letters and digits, row after row.       *)
table == [p \in Index \X Index |-> Alphabet + p[1] * TABLE_SIZE + p[2]]

(* helperFindChar: where c is in the table; it is there at most once.      *)
InTable(c) == \E p \in Index \X Index : table[p] = c
helperFindChar(c) == CHOOSE p \in Index \X Index : table[p] = c

(* The two digits of a character.                                          *)
Digits(c) == <<helperFindChar(toupper(c))[1] + 1, helperFindChar(toupper(c))[2] + 1>>

(* pbEncode of a word of letters, which are all in the table.              *)
Encoded(w) == [k \in 1..2*Len(w) |-> IF k % 2 = 1 THEN Digits(w[(k + 1) \div 2])[1]
                                                  ELSE Digits(w[k \div 2])[2]]
=============================================================================
