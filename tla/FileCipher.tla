---------------------------- MODULE FileCipher ----------------------------
(***************************************************************************)
(* The cipher of src/common/crypto_common.c: XOR with a key that starts    *)
(* again with every buffer (lines 7-18, 30-133).  A byte is the set of its *)
(* one bits.                                                               *)
(***************************************************************************)
EXTENDS Integers, Sequences

CONSTANTS Bit, BUFFER_SIZE, KEY_LENGTH, IV_LENGTH

ASSUME CipherAssumption == {BUFFER_SIZE, KEY_LENGTH, IV_LENGTH} \subseteq Nat \ {0}

Byte      == SUBSET Bit
CryptoKey == [key : [1 .. KEY_LENGTH -> Byte], iv : [1 .. IV_LENGTH -> Byte]]

Xor(a, b) == (a \ b) \cup (b \ a)

(* data, processed in buffers of the given size: the byte of the key that  *)
(* the i-th byte meets, and what becomes of them all.                      *)
KeyIndex(i, size) == (((i - 1) % size) % KEY_LENGTH) + 1
XorBuffers(data, k, size) ==
  [i \in DOMAIN data |-> Xor(data[i], k.key[KeyIndex(i, size)])]

(* encrypt_file: what it writes.  Mutant: the IV is forgotten.             *)
EncryptWithoutIV(plain, k) == XorBuffers(plain, k, BUFFER_SIZE)
EncryptFile(plain, k)      == k.iv \o XorBuffers(plain, k, BUFFER_SIZE)

(* decrypt_file: the IV must be there and be the key's; the output file is *)
(* created before that is known, and stays empty when it is not so.        *)
Decrypts(cipher, k) == Len(cipher) >= IV_LENGTH /\ SubSeq(cipher, 1, IV_LENGTH) = k.iv
Body(cipher)        == SubSeq(cipher, IV_LENGTH + 1, Len(cipher))
(* Mutant: the buffers are counted from the IV on.                         *)
DecryptFromIV(cipher, k) ==
  IF Decrypts(cipher, k)
  THEN [i \in DOMAIN Body(cipher) |->
          Xor(Body(cipher)[i], k.key[KeyIndex(i + IV_LENGTH, BUFFER_SIZE)])]
  ELSE <<>>
DecryptFile(cipher, k) ==
  IF Decrypts(cipher, k) THEN XorBuffers(Body(cipher), k, BUFFER_SIZE) ELSE <<>>

(* send_encrypted_data and receive_encrypted_data: one send, one recv; the *)
(* key starts again with each, and within it after KEY_LENGTH bytes.       *)
(* Neither has a caller in src/.                                           *)
SendEncryptedData(data, k)      == XorBuffers(data, k, KEY_LENGTH)
ReceiveEncryptedData(piece, k)  == XorBuffers(piece, k, KEY_LENGTH)
=============================================================================
