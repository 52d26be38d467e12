---------------------------- MODULE CipherProofs ----------------------------
(***************************************************************************)
(* Theorems about Cipher, for a table and an alphabet of any size and any  *)
(* plaintexts and ciphertexts.                                             *)
(***************************************************************************)
EXTENDS Cipher, SequenceTheorems, FiniteSetTheorems, TLAPS

TypeInv ==
    /\ pc \in {"shell", "encode", "decode"}
    /\ arg \in Seq(Int) /\ out \in Seq(Int) /\ letters \in Seq(Int)
    /\ i \in Nat /\ block \in Int
    /\ printed \in Seq(Int) \cup {NULL}
    /\ secret \in Seq(Int) /\ kept \in Seq(Int)

(* Each character stands in the table where its two digits point.          *)
Spells(digits, chars) ==
    \A k \in 1..Len(chars) :
        /\ digits[2 * k - 1] \in Int /\ digits[2 * k] \in Int
        /\ InRange(digits[2 * k - 1]) /\ InRange(digits[2 * k])
        /\ Position(digits[2 * k - 1], digits[2 * k]) = chars[k]

(* What encoding has printed spells what it has kept.                      *)
SecretInv == Len(secret) = 2 * Len(kept) /\ Spells(secret, kept)

EncodeInv ==
    pc = "encode" =>
        /\ option = "-e"
        /\ block = 2 * Len(arg) + 1
        /\ i <= Len(arg) /\ Len(out) <= 2 * i
        /\ Len(out) = 2 * Len(letters) /\ Spells(out, letters)

DecodeInv ==
    pc = "decode" =>
        /\ option = "-d"
        /\ Len(arg) % 2 = 0 /\ block = (Len(arg) \div 2) + 1
        /\ i <= Len(arg) /\ i = 2 * Len(out)
        /\ Spells(arg, out)

Refused(text) == Len(text) % 2 = 1 \/ \E k \in 1..Len(text) : ~InRange(text[k])

ResultInv ==
    pc = "shell" /\ option = "-d" =>
        IF printed = NULL THEN Refused(arg)
        ELSE Len(arg) = 2 * Len(printed) /\ Spells(arg, printed)

IInv == TypeInv /\ SecretInv /\ EncodeInv /\ DecodeInv /\ ResultInv
-----------------------------------------------------------------------------
(* helperFindChar finds a character that is in the table.                  *)
LEMMA FindChar ==
  ASSUME NEW ch, InTable(ch)
  PROVE  /\ helperFindChar(ch)[1] \in Index /\ helperFindChar(ch)[2] \in Index
         /\ table[<<helperFindChar(ch)[1], helperFindChar(ch)[2]>>] = ch
<1>1. helperFindChar(ch) \in Index \X Index /\ table[helperFindChar(ch)] = ch
  BY DEF InTable, helperFindChar
<1>2. helperFindChar(ch) = <<helperFindChar(ch)[1], helperFindChar(ch)[2]>>
  BY <1>1
<1> QED BY <1>1, <1>2

LEMMA TableInt ==
  ASSUME NEW r \in Int, NEW k \in Int, InRange(r), InRange(k)
  PROVE  Position(r, k) \in Int
<1>1. r - 1 \in Index /\ k - 1 \in Index
  BY TableAssumption DEF InRange, Index
<1>2. \A p \in Index \X Index : Alphabet + p[1] * TABLE_SIZE + p[2] \in Int
  BY TableAssumption DEF Index
<1> QED BY <1>1, <1>2 DEF Position, table

(* The digits of one character more.                                       *)
AddsPair(D, digits, r, k) ==
    /\ D \in Seq(Int) /\ Len(D) = Len(digits) + 2
    /\ \A j \in 1..Len(digits) : D[j] = digits[j]
    /\ D[Len(digits) + 1] = r /\ D[Len(digits) + 2] = k

LEMMA PairAdded ==
  ASSUME NEW digits \in Seq(Int), NEW r \in Int, NEW k \in Int
  PROVE  AddsPair(digits \o <<r, k>>, digits, r, k)
<1> DEFINE T == <<r, k>>
<1>1. T \in Seq(Int) /\ Len(T) = 2 /\ T[1] = r /\ T[2] = k
  OBVIOUS
<1> HIDE DEF T
<1>2. /\ digits \o T \in Seq(Int) /\ Len(digits \o T) = Len(digits) + 2
      /\ \A j \in 1..Len(digits) + 2 :
            (digits \o T)[j] = IF j <= Len(digits) THEN digits[j] ELSE T[j - Len(digits)]
  <2>1. /\ digits \o T \in Seq(Int) /\ Len(digits \o T) = Len(digits) + Len(T)
        /\ \A j \in 1..Len(digits) + Len(T) :
              (digits \o T)[j] = IF j <= Len(digits) THEN digits[j] ELSE T[j - Len(digits)]
    BY <1>1, ConcatProperties
  <2> QED BY <1>1, <2>1
<1>3. Len(digits) \in Nat
  OBVIOUS
<1>4. Len(digits) + 1 \in 1..Len(digits) + 2 /\ Len(digits) + 2 \in 1..Len(digits) + 2
      /\ (Len(digits) + 1) - Len(digits) = 1 /\ (Len(digits) + 2) - Len(digits) = 2
  BY <1>3
<1>5. \A j \in 1..Len(digits) : (digits \o T)[j] = digits[j]
  BY <1>2, <1>3
<1>6. (digits \o T)[Len(digits) + 1] = T[1] /\ (digits \o T)[Len(digits) + 2] = T[2]
  <2> DEFINE n == Len(digits)
  <2>1. n \in Nat /\ ~(n + 1 <= n) /\ ~(n + 2 <= n)
    BY <1>3
  <2> HIDE DEF n
  <2> QED BY <1>2, <1>4, <2>1 DEF n
<1> QED BY <1>1, <1>2, <1>5, <1>6 DEF AddsPair, T

(* A pair of digits added to a ciphertext spells the character added.      *)
LEMMA SpellsMore ==
  ASSUME NEW digits \in Seq(Int), NEW chars \in Seq(Int),
         Len(digits) = 2 * Len(chars), Spells(digits, chars),
         NEW r \in Int, NEW k \in Int, InRange(r), InRange(k), NEW ch \in Int,
         Position(r, k) = ch, NEW D, AddsPair(D, digits, r, k)
  PROVE  /\ D \in Seq(Int) /\ Append(chars, ch) \in Seq(Int)
         /\ Len(D) = 2 * Len(Append(chars, ch))
         /\ Len(D) = Len(digits) + 2
         /\ Spells(D, Append(chars, ch))
<1> DEFINE X == Append(chars, ch)
<1>1. /\ D \in Seq(Int) /\ Len(D) = Len(digits) + 2
      /\ \A j \in 1..Len(digits) : D[j] = digits[j]
      /\ D[Len(digits) + 1] = r /\ D[Len(digits) + 2] = k
  BY DEF AddsPair
<1>2. /\ X \in Seq(Int) /\ Len(X) = Len(chars) + 1 /\ Len(chars) \in Nat
      /\ \A j \in 1..Len(chars) : X[j] = chars[j]
      /\ X[Len(chars) + 1] = ch
  BY AppendProperties
<1> HIDE DEF X
<1>3. ASSUME NEW j \in 1..Len(chars)
      PROVE  D[2 * j - 1] = digits[2 * j - 1] /\ D[2 * j] = digits[2 * j]
  <2>1. j \in Int /\ 1 <= j /\ j <= Len(chars) /\ Len(chars) \in Nat
    BY <1>2
  <2>2. 2 * j - 1 \in 1..2 * Len(chars) /\ 2 * j \in 1..2 * Len(chars)
    BY <2>1
  <2>3. 2 * j - 1 \in 1..Len(digits) /\ 2 * j \in 1..Len(digits)
    BY <2>2
  <2> QED BY <1>1, <2>3
<1>4. Spells(D, X)
  <2> SUFFICES ASSUME NEW j \in 1..Len(X)
               PROVE  /\ D[2 * j - 1] \in Int /\ D[2 * j] \in Int
                      /\ InRange(D[2 * j - 1]) /\ InRange(D[2 * j])
                      /\ Position(D[2 * j - 1], D[2 * j]) = X[j]
    BY DEF Spells
  <2>1. CASE j = Len(chars) + 1
    <3>1. 2 * j - 1 = Len(digits) + 1 /\ 2 * j = Len(digits) + 2
      BY <1>2, <2>1
    <3> QED BY <1>1, <1>2, <2>1, <3>1
  <2>2. CASE j # Len(chars) + 1
    <3>1. j \in 1..Len(chars)
      BY <1>2, <2>2
    <3> QED BY <1>2, <1>3, <3>1 DEF Spells
  <2> QED BY <2>1, <2>2
<1> QED BY <1>1, <1>2, <1>4 DEF X
-----------------------------------------------------------------------------
LEMMA InitInv == Init => IInv
  BY DEF Init, IInv, TypeInv, SecretInv, EncodeInv, DecodeInv, ResultInv, Spells

LEMMA NextInv == IInv /\ [Next]_vars => IInv'
<1> SUFFICES ASSUME IInv, [Next]_vars PROVE IInv'
  OBVIOUS
<1> USE CipherAssumption DEF IInv
<1>1. CASE Refuse
  BY <1>1 DEF Refuse, Call, TypeInv, SecretInv, EncodeInv, DecodeInv, ResultInv
<1>3. CASE AllocationFails
  BY <1>3 DEF AllocationFails, Call, TypeInv, SecretInv, EncodeInv, DecodeInv, ResultInv
<1>2. ASSUME NEW text \in Plaintexts, Encode(text) PROVE IInv'
  <2>1. text \in Seq(Int) /\ Len(text) \in Nat
    OBVIOUS
  <2> QED BY <1>2, <2>1 DEF Encode, EncodeSize, Call, TypeInv, SecretInv, EncodeInv, DecodeInv,
                          ResultInv, Spells
<1>4. CASE EncodeChar
  <2>1. /\ pc = "encode" /\ i < Len(arg) /\ i' = i + 1
        /\ UNCHANGED <<pc, option, arg, block, printed, secret, kept>>
    BY <1>4 DEF EncodeChar
  <2> DEFINE ch == Looked(arg[i + 1])
             h == helperFindChar(ch)
  <2>2. /\ out' \in Seq(Int) /\ letters' \in Seq(Int)
        /\ Len(out') = 2 * Len(letters') /\ Len(out') <= Len(out) + 2
        /\ Spells(out', letters')
    <3>1. CASE InTable(ch)
      <4>1. /\ out' = out \o <<h[1] + 1, h[2] + 1>>
            /\ letters' = Append(letters, ch)
        BY <1>4, <3>1 DEF EncodeChar
      <4>2. ch \in Int
        BY <2>1, TableAssumption DEF TypeInv, Looked, toupper
      <4>3. /\ h[1] \in Index /\ h[2] \in Index /\ table[<<h[1], h[2]>>] = ch
        BY <3>1, FindChar
      <4> HIDE DEF h, ch
      <4>4. /\ h[1] + 1 \in Int /\ h[2] + 1 \in Int
            /\ InRange(h[1] + 1) /\ InRange(h[2] + 1)
            /\ Position(h[1] + 1, h[2] + 1) = ch
        <5> DEFINE u == h[1]
                   v == h[2]
        <5>1. u \in Index /\ v \in Index
          BY <4>3
        <5> HIDE DEF u, v
        <5>2. u \in Int /\ v \in Int /\ (u + 1) - 1 = u /\ (v + 1) - 1 = v
              /\ InRange(u + 1) /\ InRange(v + 1)
          BY <5>1, TableAssumption DEF Index, InRange
        <5> QED BY <4>3, <5>2 DEF Position, u, v
      <4>5. out \in Seq(Int) /\ letters \in Seq(Int) /\ Len(out) = 2 * Len(letters)
            /\ Spells(out, letters)
        BY <2>1 DEF TypeInv, EncodeInv
      <4>6. AddsPair(out', out, h[1] + 1, h[2] + 1)
        BY <4>1, <4>4, <4>5, PairAdded
      <4> QED BY SMTT(30), <4>1, <4>2, <4>4, <4>5, <4>6, SpellsMore
    <3>2. CASE ~InTable(ch)
      <4>1. out' = out /\ letters' = letters
        BY <1>4, <3>2 DEF EncodeChar
      <4> QED BY <2>1, <4>1 DEF TypeInv, EncodeInv
    <3> QED BY <3>1, <3>2
  <2> HIDE DEF ch, h
  <2>3. EncodeInv'
    BY SMTT(30), <2>1, <2>2 DEF EncodeInv, TypeInv
  <2> QED BY <2>1, <2>2, <2>3 DEF TypeInv, SecretInv, DecodeInv, ResultInv
<1>5. CASE Encoding
  BY <1>5 DEF Encoding, Result, TypeInv, SecretInv, EncodeInv, DecodeInv, ResultInv
<1>6. ASSUME NEW text \in Ciphertexts \cup {secret}, Decode(text) PROVE IInv'
  <2>1. text \in Seq(Int) /\ Len(text) \in Nat
    BY DEF TypeInv
  <2>2. Len(text) \div 2 \in Nat
    BY <2>1
  <2> QED BY <1>6, <2>1, <2>2 DEF Decode, Call, TypeInv, SecretInv, EncodeInv, DecodeInv,
                                ResultInv, Spells
<1>7. ASSUME NEW text \in Ciphertexts \cup {secret}, DecodeOdd(text) PROVE IInv'
  <2>1. text \in Seq(Int) /\ Len(text) \in Nat
    BY DEF TypeInv
  <2> QED BY <1>7, <2>1 DEF DecodeOdd, Call, TypeInv, SecretInv, EncodeInv, DecodeInv,
                          ResultInv, Refused
<1>8. CASE DecodePair
  <2>1. /\ pc = "decode" /\ i < Len(arg) /\ i' = i + 2
        /\ InRange(arg[i + 1]) /\ InRange(arg[i + 2])
        /\ out' = Append(out, Position(arg[i + 1], arg[i + 2]))
        /\ UNCHANGED <<pc, option, arg, block, letters, printed, secret, kept>>
    BY <1>8 DEF DecodePair
  <2>2. /\ Len(arg) \in Nat /\ Len(out) \in Nat /\ i = 2 * Len(out) /\ Len(arg) % 2 = 0
        /\ Spells(arg, out)
    BY SMTT(30), <2>1 DEF DecodeInv, TypeInv
  <2>3. i + 2 <= Len(arg) /\ i + 1 \in 1..Len(arg) /\ i + 2 \in 1..Len(arg)
    <3> DEFINE n == Len(arg)
               q == Len(out)
    <3>1. n \in Nat /\ q \in Nat /\ n % 2 = 0 /\ i = 2 * q /\ i < n
      BY <2>1, <2>2
    <3> HIDE DEF n, q
    <3>2. i # n - 1
      BY <3>1
    <3>3. i + 2 <= n
      BY <3>1, <3>2
    <3> QED BY <3>1, <3>3 DEF n
  <2>4. /\ arg[i + 1] \in Int /\ arg[i + 2] \in Int
        /\ Position(arg[i + 1], arg[i + 2]) \in Int
    <3>1. arg[i + 1] \in Int /\ arg[i + 2] \in Int
      BY <2>3 DEF TypeInv
    <3> QED BY <2>1, <3>1, TableInt
  <2>5. /\ out' \in Seq(Int) /\ Len(out') = Len(out) + 1
        /\ \A k \in 1..Len(out) : out'[k] = out[k]
        /\ out'[Len(out) + 1] = Position(arg[i + 1], arg[i + 2])
    BY <2>1, <2>4, AppendProperties DEF TypeInv
  <2>6. Spells(arg, out')
    <3> SUFFICES ASSUME NEW k \in 1..Len(out')
                 PROVE  /\ arg[2 * k - 1] \in Int /\ arg[2 * k] \in Int
                        /\ InRange(arg[2 * k - 1]) /\ InRange(arg[2 * k])
                        /\ Position(arg[2 * k - 1], arg[2 * k]) = out'[k]
      BY DEF Spells
    <3>1. CASE k = Len(out) + 1
      <4>1. 2 * k - 1 = i + 1 /\ 2 * k = i + 2
        BY <2>2, <3>1
      <4> QED BY <2>1, <2>4, <2>5, <3>1, <4>1
    <3>2. CASE k # Len(out) + 1
      <4>1. k \in 1..Len(out)
        BY <2>2, <2>5, <3>2
      <4> QED BY <2>2, <2>5, <4>1 DEF Spells
    <3> QED BY <3>1, <3>2
  <2>7. DecodeInv'
    BY <2>1, <2>2, <2>3, <2>5, <2>6 DEF DecodeInv
  <2> QED BY <2>1, <2>5, <2>7 DEF TypeInv, SecretInv, EncodeInv, ResultInv
<1>9. CASE BadPair
  <2>1. /\ pc = "decode" /\ pc' = "shell" /\ printed' = NULL
        /\ UNCHANGED <<option, arg, i, block, out, letters, secret, kept>>
    BY <1>9 DEF BadPair, Result
  <2>2. Refused(arg)
    <3> DEFINE n == Len(arg)
               q == Len(out)
    <3>1. n \in Nat /\ q \in Nat /\ n % 2 = 0 /\ i = 2 * q /\ i < n
      BY <1>9, <2>1 DEF BadPair, DecodeInv, TypeInv
    <3> HIDE DEF n, q
    <3>2. i # n - 1
      BY <3>1
    <3>3. i + 1 \in 1..n /\ i + 2 \in 1..n
      BY <3>1, <3>2
    <3> QED BY <1>9, <3>3 DEF BadPair, Refused, n
  <2> QED BY <2>1, <2>2 DEF TypeInv, SecretInv, EncodeInv, DecodeInv, ResultInv
<1>10. CASE Decoding
  <2>1. /\ pc = "decode" /\ pc' = "shell" /\ printed' = out /\ i >= Len(arg)
        /\ UNCHANGED <<option, arg, i, block, out, letters, secret, kept>>
    BY <1>10 DEF Decoding, Result
  <2>2. Len(arg) = 2 * Len(out) /\ Spells(arg, out) /\ out # NULL
    BY <2>1 DEF DecodeInv, TypeInv
  <2> QED BY <2>1, <2>2 DEF TypeInv, SecretInv, EncodeInv, DecodeInv, ResultInv
<1>11. CASE UNCHANGED vars
  BY <1>11 DEF vars, run, TypeInv, SecretInv, EncodeInv, DecodeInv, ResultInv
<1> QED
  BY <1>1, <1>2, <1>3, <1>4, <1>5, <1>6, <1>7, <1>8, <1>9, <1>10, <1>11 DEF Next

LEMMA Invariance == Spec => []IInv
  BY InitInv, NextInv, PTL DEF Spec
-----------------------------------------------------------------------------
(* pbEncode and pbDecode stay within the blocks they allocate.             *)
THEOREM NoOverflowCorrect == Spec => []NoOverflow
<1>1. ASSUME IInv PROVE NoOverflow
  <2>1. Len(arg) \in Nat /\ Len(out) \in Nat
    BY <1>1 DEF IInv, TypeInv
  <2>2. CASE pc = "encode"
    BY <1>1, <2>1, <2>2 DEF IInv, EncodeInv, NoOverflow, TypeInv
  <2>3. CASE pc = "decode"
    <3>1. 2 * Len(out) <= Len(arg) /\ block = (Len(arg) \div 2) + 1
      BY <1>1, <2>3 DEF IInv, DecodeInv
    <3> QED BY <2>1, <3>1 DEF NoOverflow
  <2> QED BY <1>1, <2>2, <2>3 DEF NoOverflow, IInv, TypeInv
<1> QED BY <1>1, Invariance, PTL

(* pbDecode undoes pbEncode.                                               *)
THEOREM RoundTripCorrect == Spec => []RoundTrip
<1>1. ASSUME IInv PROVE RoundTrip
  <2> SUFFICES ASSUME pc = "shell", option = "-d", arg = secret
               PROVE  printed = kept
    BY <1>1 DEF RoundTrip, IInv, TypeInv
  <2>1. /\ Len(arg) = 2 * Len(kept) /\ Spells(arg, kept) /\ Len(kept) \in Nat
        /\ arg \in Seq(Int) /\ kept \in Seq(Int)
    BY <1>1 DEF IInv, SecretInv, TypeInv
  <2>2. ~Refused(arg)
    <3> SUFFICES ASSUME NEW k \in 1..Len(arg) PROVE InRange(arg[k])
      BY <2>1 DEF Refused
    <3>1. PICK j \in 1..Len(kept) : k = 2 * j - 1 \/ k = 2 * j
      <4>1. (k + 1) \div 2 \in 1..Len(kept)
            /\ (k = 2 * ((k + 1) \div 2) - 1 \/ k = 2 * ((k + 1) \div 2))
        BY <2>1
      <4> QED BY <4>1
    <3> QED BY <2>1, <3>1 DEF Spells
  <2>3. printed \in Seq(Int) /\ Len(arg) = 2 * Len(printed) /\ Spells(arg, printed)
    BY <1>1, <2>2 DEF IInv, ResultInv, TypeInv
  <2>4. Len(printed) = Len(kept)
    BY <2>1, <2>3
  <2>5. \A k \in 1..Len(kept) : printed[k] = kept[k]
    BY <2>1, <2>3, <2>4 DEF Spells
  <2> QED BY <2>1, <2>3, <2>4, <2>5, SeqEqual
<1> QED BY <1>1, Invariance, PTL

(* pbDecode refuses a ciphertext exactly when it has an odd length or a    *)
(* digit that is no row or column.                                         *)
THEOREM DecodesExactlyCorrect == Spec => []DecodesExactly
<1>1. ASSUME IInv PROVE DecodesExactly
  <2> SUFFICES ASSUME pc = "shell", option = "-d"
               PROVE  printed # NULL <=> /\ Len(arg) % 2 = 0
                                         /\ \A k \in 1..Len(arg) : arg[k] \in 1..TABLE_SIZE
    BY <1>1 DEF DecodesExactly, IInv, TypeInv
  <2>1. Len(arg) \in Nat /\ \A k \in 1..Len(arg) : arg[k] \in Int
    BY <1>1 DEF IInv, TypeInv
  <2>2. \A k \in 1..Len(arg) : InRange(arg[k]) <=> arg[k] \in 1..TABLE_SIZE
    BY <2>1, TableAssumption DEF InRange
  <2>3. CASE printed = NULL
    BY <1>1, <2>1, <2>2, <2>3 DEF IInv, ResultInv, Refused
  <2>4. CASE printed # NULL
    <3>1. Len(arg) = 2 * Len(printed) /\ Spells(arg, printed) /\ Len(printed) \in Nat
      BY <1>1, <2>4 DEF IInv, ResultInv, TypeInv
    <3>2. ASSUME NEW k \in 1..Len(arg) PROVE InRange(arg[k])
      <4>1. (k + 1) \div 2 \in 1..Len(printed)
            /\ (k = 2 * ((k + 1) \div 2) - 1 \/ k = 2 * ((k + 1) \div 2))
        BY <3>1
      <4> QED BY <3>1, <4>1 DEF Spells
    <3> QED BY <2>2, <2>4, <3>1, <3>2
  <2> QED BY <2>3, <2>4
<1> QED BY <1>1, Invariance, PTL
-----------------------------------------------------------------------------
(* What pbEncode has made of the text up to its index.                     *)
Shows(digits, chars) ==
    \A k \in 1..Len(chars) : /\ digits[2 * k - 1] = Digits(chars[k])[1]
                             /\ digits[2 * k] = Digits(chars[k])[2]

LettersInv ==
    /\ pc = "encode" => Clears(letters, arg, i) /\ Shows(out, letters)
    /\ EncodesLetters

LEMMA FoundFinite ==
  ASSUME NEW text \in Seq(Int), NEW n \in Nat
  PROVE  IsFiniteSet(Found(text, n)) /\ Cardinality(Found(text, n)) \in Nat
<1>1. IsFiniteSet(1..n) /\ Found(text, n) \subseteq 1..n
  BY FS_Interval DEF Found
<1> QED BY <1>1, FS_Subset, FS_CardinalityType

(* A character found goes behind those found before.                       *)
LEMMA FoundNext ==
  ASSUME NEW text \in Seq(Int), NEW n \in Nat
  PROVE  Cardinality(Found(text, n + 1)) =
             Cardinality(Found(text, n)) + IF InTable(toupper(text[n + 1])) THEN 1 ELSE 0
<1>1. IsFiniteSet(Found(text, n)) /\ n + 1 \notin Found(text, n)
      /\ Cardinality(Found(text, n)) \in Nat
  BY FoundFinite DEF Found
<1>2. CASE InTable(toupper(text[n + 1]))
  <2>1. Found(text, n + 1) = Found(text, n) \cup {n + 1}
    BY <1>2 DEF Found
  <2> QED BY <1>1, <1>2, <2>1, FS_AddElement
<1>3. CASE ~InTable(toupper(text[n + 1]))
  <2>1. Found(text, n + 1) = Found(text, n)
    BY <1>3 DEF Found
  <2> QED BY <1>1, <1>3, <2>1
<1> QED BY <1>2, <1>3

LEMMA FoundRank ==
  ASSUME NEW text \in Seq(Int), NEW n \in Nat, NEW k \in Found(text, n)
  PROVE  Cardinality(Found(text, k)) \in 1..Cardinality(Found(text, n))
<1>1. k \in Nat /\ k <= n /\ k \in Found(text, k) /\ Found(text, k) \subseteq Found(text, n)
  BY DEF Found
<1>2. IsFiniteSet(Found(text, n)) /\ IsFiniteSet(Found(text, k))
      /\ Cardinality(Found(text, n)) \in Nat /\ Cardinality(Found(text, k)) \in Nat
  BY <1>1, FoundFinite
<1>3. Cardinality(Found(text, k)) <= Cardinality(Found(text, n))
  BY <1>1, <1>2, FS_Subset
<1>4. Cardinality(Found(text, k)) # 0
  BY <1>1, <1>2, FS_EmptySet
<1> QED BY <1>2, <1>3, <1>4

LEMMA ClearsMore ==
  ASSUME NEW text \in Seq(Int), NEW n \in Nat, NEW w \in Seq(Int), Clears(w, text, n),
         NEW v \in Seq(Int), toupper(text[n + 1]) \in Int,
         v = IF InTable(toupper(text[n + 1])) THEN Append(w, toupper(text[n + 1])) ELSE w
  PROVE  Clears(v, text, n + 1)
<1> DEFINE ch == toupper(text[n + 1])
<1>1. Len(w) = Cardinality(Found(text, n)) /\ Len(w) \in Nat
  BY DEF Clears
<1>2. CASE ~InTable(ch)
  <2>1. Found(text, n + 1) = Found(text, n)
    BY <1>2 DEF Found
  <2> QED BY <1>2, <2>1 DEF Clears
<1>3. CASE InTable(ch)
  <2>1. /\ Len(v) = Len(w) + 1 /\ v[Len(w) + 1] = ch
        /\ \A k \in 1..Len(w) : v[k] = w[k]
    BY <1>3, AppendProperties
  <2>2. Cardinality(Found(text, n + 1)) = Len(w) + 1
    BY <1>1, <1>3, FoundNext
  <2>3. ASSUME NEW k \in Found(text, n + 1)
        PROVE  v[Cardinality(Found(text, k))] = toupper(text[k])
    <3>1. CASE k = n + 1
      BY <2>1, <2>2, <3>1
    <3>2. CASE k # n + 1
      <4>1. k \in Found(text, n)
        BY <3>2 DEF Found
      <4>2. Cardinality(Found(text, k)) \in 1..Len(w)
        BY <1>1, <4>1, FoundRank
      <4> QED BY <2>1, <4>1, <4>2 DEF Clears
    <3> QED BY <3>1, <3>2
  <2> QED BY <2>1, <2>2, <2>3 DEF Clears
<1> QED BY <1>2, <1>3

LEMMA ShowsMore ==
  ASSUME NEW digits \in Seq(Int), NEW chars \in Seq(Int),
         Len(digits) = 2 * Len(chars), Shows(digits, chars),
         NEW r \in Int, NEW k \in Int, NEW ch \in Int, Digits(ch)[1] = r, Digits(ch)[2] = k,
         NEW D, AddsPair(D, digits, r, k)
  PROVE  Shows(D, Append(chars, ch))
<1> DEFINE X == Append(chars, ch)
<1>1. /\ \A j \in 1..Len(digits) : D[j] = digits[j]
      /\ D[Len(digits) + 1] = r /\ D[Len(digits) + 2] = k
  BY DEF AddsPair
<1>2. /\ Len(X) = Len(chars) + 1 /\ Len(chars) \in Nat
      /\ \A j \in 1..Len(chars) : X[j] = chars[j]
      /\ X[Len(chars) + 1] = ch
  BY AppendProperties
<1> HIDE DEF X
<1> SUFFICES ASSUME NEW j \in 1..Len(X)
             PROVE  D[2 * j - 1] = Digits(X[j])[1] /\ D[2 * j] = Digits(X[j])[2]
  BY DEF Shows, X
<1>3. CASE j = Len(chars) + 1
  <2>1. 2 * j - 1 = Len(digits) + 1 /\ 2 * j = Len(digits) + 2
    BY <1>2, <1>3
  <2> QED BY <1>1, <1>2, <1>3, <2>1
<1>4. CASE j # Len(chars) + 1
  <2>1. j \in 1..Len(chars)
    BY <1>2, <1>4
  <2>2. 2 * j - 1 \in 1..Len(digits) /\ 2 * j \in 1..Len(digits)
    <3>1. Len(digits) = 2 * Len(chars) /\ Len(chars) \in Nat
      BY <1>2
    <3>2. \A m, n \in Nat : j \in 1..m /\ n = 2 * m => 2 * j - 1 \in 1..n /\ 2 * j \in 1..n
      OBVIOUS
    <3>3. 2 * Len(chars) \in Nat
      BY ONLY <3>1
    <3> QED BY ONLY <2>1, <3>1, <3>2, <3>3
  <2> QED BY <1>1, <1>2, <2>1, <2>2 DEF Shows
<1> QED BY <1>3, <1>4

LEMMA ShowsEncoded ==
  ASSUME NEW digits \in Seq(Int), NEW chars \in Seq(Int),
         Len(digits) = 2 * Len(chars), Shows(digits, chars)
  PROVE  digits = Encoded(chars)
<1>1. Len(chars) \in Nat
  OBVIOUS
<1>2. ASSUME NEW k \in 1..2*Len(chars)
      PROVE  digits[k] = IF k % 2 = 1 THEN Digits(chars[(k + 1) \div 2])[1]
                                      ELSE Digits(chars[k \div 2])[2]
  <2>1. CASE k % 2 = 1
    <3>1. (k + 1) \div 2 \in 1..Len(chars) /\ k = 2 * ((k + 1) \div 2) - 1
      BY SMTT(30), <1>1, <2>1
    <3> QED BY <2>1, <3>1 DEF Shows
  <2>2. CASE k % 2 # 1
    <3>1. k \div 2 \in 1..Len(chars) /\ k = 2 * (k \div 2)
      BY SMTT(30), <1>1, <2>2
    <3> QED BY <2>2, <3>1 DEF Shows
  <2> QED BY <2>1, <2>2
<1>3. digits = [k \in 1..2*Len(chars) |-> digits[k]]
  OBVIOUS
<1> QED BY <1>2, <1>3 DEF Encoded

LEMMA LettersStep == IInv /\ IInv' /\ LettersInv /\ [Next]_vars => LettersInv'
<1> SUFFICES ASSUME IInv, IInv', LettersInv, [Next]_vars PROVE LettersInv'
  OBVIOUS
<1> USE CipherAssumption
<1>1. CASE \/ Refuse \/ AllocationFails \/ DecodePair \/ BadPair \/ Decoding
           \/ \E text \in Ciphertexts \cup {secret} : Decode(text) \/ DecodeOdd(text)
  BY <1>1 DEF Refuse, AllocationFails, DecodePair, BadPair, Decoding, Decode, DecodeOdd, Call,
              Result, LettersInv, EncodesLetters, IInv, DecodeInv
<1>2. ASSUME NEW text \in Plaintexts, Encode(text) PROVE LettersInv'
  <2>1. pc' = "encode" /\ arg' = text /\ i' = 0 /\ out' = <<>> /\ letters' = <<>>
    BY <1>2 DEF Encode, Call
  <2>2. Clears(<<>>, text, 0) /\ Shows(<<>>, <<>>)
    <3>1. Found(text, 0) = {} /\ Cardinality({}) = 0 /\ Len(<<>>) = 0
      BY FS_EmptySet, EmptySeq DEF Found
    <3>2. Clears(<<>>, text, 0)
      BY <3>1 DEF Clears
    <3>3. Shows(<<>>, <<>>)
      <4>1. \A k \in 1..Len(<<>>) : FALSE
        BY <3>1
      <4> QED BY <4>1 DEF Shows
    <3> QED BY <3>2, <3>3
  <2> QED BY <2>1, <2>2 DEF LettersInv, EncodesLetters
<1>3. CASE EncodeChar
  <2>1. /\ pc = "encode" /\ i < Len(arg) /\ i' = i + 1
        /\ UNCHANGED <<pc, option, arg, block, printed, secret, kept>>
    BY <1>3 DEF EncodeChar
  <2>2. /\ arg \in Seq(Int) /\ out \in Seq(Int) /\ letters \in Seq(Int) /\ letters' \in Seq(Int)
        /\ i \in Nat /\ Len(out) = 2 * Len(letters) /\ Clears(letters, arg, i) /\ Shows(out, letters)
    BY <2>1 DEF IInv, TypeInv, EncodeInv, LettersInv
  <2>3. PICK ch \in Int : ch = toupper(arg[i + 1])
    <3>1. i + 1 \in 1..Len(arg)
      BY <2>1, <2>2
    <3>2. arg[i + 1] \in Int
      BY <2>2, <3>1
    <3> QED BY <3>2, TableAssumption DEF toupper
  <2>4. letters' = (IF InTable(ch) THEN Append(letters, ch) ELSE letters)
    BY <1>3, <2>3 DEF EncodeChar, Looked
  <2>5. Clears(letters', arg, i + 1)
    BY <2>2, <2>3, <2>4, ClearsMore
  <2>6. Shows(out', letters')
    <3>1. CASE ~InTable(ch)
      BY <1>3, <2>2, <2>3, <3>1 DEF EncodeChar, Looked
    <3>2. CASE InTable(ch)
      <4>1. /\ out' = out \o <<helperFindChar(ch)[1] + 1, helperFindChar(ch)[2] + 1>>
            /\ letters' = Append(letters, ch)
        BY <1>3, <2>3, <3>2 DEF EncodeChar, Looked
      <4>2. toupper(ch) = ch
        BY <2>3, TableAssumption DEF toupper
      <4>3. Digits(ch) = <<helperFindChar(ch)[1] + 1, helperFindChar(ch)[2] + 1>>
        BY <4>2 DEF Digits
      <4>4. helperFindChar(ch)[1] \in Int /\ helperFindChar(ch)[2] \in Int
        <5>1. Index \subseteq Int
          BY TableAssumption DEF Index
        <5> QED BY <3>2, <5>1, FindChar
      <4>5. PICK r \in Int, k \in Int :
              r = helperFindChar(ch)[1] + 1 /\ k = helperFindChar(ch)[2] + 1
        BY <4>4
      <4>6. AddsPair(out', out, r, k)
        BY <2>2, <4>1, <4>5, PairAdded
      <4>7. Digits(ch)[1] = r /\ Digits(ch)[2] = k
        BY <4>3, <4>5
      <4> QED BY <2>2, <4>1, <4>6, <4>7, ShowsMore
    <3> QED BY <3>1, <3>2
  <2> QED BY <2>1, <2>5, <2>6 DEF LettersInv, EncodesLetters
<1>4. CASE Encoding
  <2>1. /\ pc = "encode" /\ i = Len(arg) /\ pc' = "shell"
        /\ printed' = out /\ secret' = out /\ kept' = letters
        /\ UNCHANGED <<option, arg>>
    BY <1>4 DEF Encoding, Result
  <2>2. out = Encoded(letters)
    BY <2>1, ShowsEncoded DEF IInv, TypeInv, EncodeInv, LettersInv
  <2> QED BY <2>1, <2>2 DEF LettersInv, EncodesLetters
<1>5. CASE UNCHANGED vars
  BY <1>5 DEF vars, run, LettersInv, EncodesLetters
<1> QED
  BY <1>1, <1>2, <1>3, <1>4, <1>5 DEF Next

(* pbEncode gives two digits for each character of the text that is found  *)
(* in the table after toupper (polybius.c:38-45), none for any other, in   *)
(* the order of the text, whatever the text and the size of the table.     *)
THEOREM EncodesLettersCorrect == Spec => []EncodesLetters
<1>1. Init => LettersInv
  BY DEF Init, LettersInv, EncodesLetters
<1>2. LettersInv => EncodesLetters
  BY DEF LettersInv
<1> QED BY <1>1, <1>2, LettersStep, Invariance, PTL DEF Spec
=============================================================================
