------------------------------ MODULE CryptoH --------------------------------
(* libnpmcrypto/crypto.h: the error codes that the functions return, and   *)
(* XOR on a value that is the set of its bits that are 1.                  *)
EXTENDS Naturals

CRYPTO_OK == 0
CRYPTO_INVALID_DATA_SIZE == 1
CRYPTO_INVALID_KEYSIZE == 2
CRYPTO_INVALID_STRUCT == 3
CRYPTO_INVALID_ARG == 4
CRYPTO_HASH_OVERFLOW == 5
CRYPTO_ERROR == 6
CRYPTO_BUFFER_OVERFLOW == 7
CRYPTO_MEMORY == 8

Xor(a, b) == (a \ b) \cup (b \ a)
=============================================================================
