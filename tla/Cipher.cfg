CONSTANTS
    TABLE_SIZE = 2
    Alphabet = 2
    Plaintexts <- MCPlaintexts
    Ciphertexts <- MCCiphertexts
    NULL = NULL
    AllocFails = TRUE
SPECIFICATION Spec
INVARIANTS
    NoOverflow
    RoundTrip
    EncodesLetters
    DecodesExactly
