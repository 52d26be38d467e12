------------------------------ MODULE MCCipher ------------------------------
(* Instance of Cipher for TLC: two letters and two digits in a table of    *)
(* 2 x 2, every text of up to two characters, a character outside the      *)
(* table among them, and every ciphertext of up to three.                  *)
EXTENDS Cipher, SequencesExt

MCPlaintexts == BoundedSeq({0, 1, 3, 4, 9}, 2)
MCCiphertexts == BoundedSeq(0..3, 3)
=============================================================================
