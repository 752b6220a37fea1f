------------------------- MODULE EncryptionProofs -------------------------
(***************************************************************************)
(* What the cipher of FileCipher gives back, for every key, file and       *)
(* buffer size, and that the key exchange of KeyExchange agrees, for every *)
(* pair of private keys.                                                   *)
(***************************************************************************)
EXTENDS KeyExchange, SequenceTheorems, TLAPS

(* XOR with the same byte twice is nothing.                                *)
LEMMA XorTwice == \A a, b : Xor(Xor(a, b), b) = a
BY DEF Xor

(* Buffers of the same size use the same bytes of the key.                 *)
LEMMA BuffersTwice ==
  ASSUME NEW data \in Seq(Byte), NEW k, NEW size
  PROVE  XorBuffers(XorBuffers(data, k, size), k, size) = data
<1>. DEFINE once  == XorBuffers(data, k, size)
            twice == XorBuffers(once, k, size)
<1>1. DOMAIN once = DOMAIN data /\ DOMAIN twice = DOMAIN data
  BY DEF XorBuffers
<1>2. \A i \in DOMAIN data : twice[i] = data[i]
  BY <1>1, XorTwice DEF XorBuffers
<1>3. data \in [DOMAIN data -> Byte] /\ twice = [i \in DOMAIN data |-> twice[i]]
  BY <1>1 DEF XorBuffers
<1>. QED
  BY <1>2, <1>3

LEMMA BuffersTyped ==
  ASSUME NEW data \in Seq(Byte), NEW k \in CryptoKey, NEW size \in Nat \ {0}
  PROVE  XorBuffers(data, k, size) \in Seq(Byte) /\ Len(XorBuffers(data, k, size)) = Len(data)
<1>. DEFINE at(i) == KeyIndex(i, size)
            out == [i \in 1 .. Len(data) |-> Xor(data[i], k.key[at(i)])]
<1>1. Len(data) \in Nat /\ DOMAIN data = 1 .. Len(data)
      /\ \A i \in 1 .. Len(data) : data[i] \in Byte
  BY LenProperties, ElementOfSeq
<1>2. \A i \in 1 .. Len(data) : at(i) \in 1 .. KEY_LENGTH
  <2>. SUFFICES ASSUME NEW i \in 1 .. Len(data) PROVE KeyIndex(i, size) \in 1 .. KEY_LENGTH
    OBVIOUS
  <2>. DEFINE r == (i - 1) % size
  <2>1. r \in Nat
    BY <1>1
  <2>2. r % KEY_LENGTH \in 0 .. KEY_LENGTH - 1
    <3>. HIDE DEF r
    <3>. QED
      BY <2>1, CipherAssumption
  <2>. QED
    BY <2>2, CipherAssumption DEF KeyIndex
<1>3. k.key \in [1 .. KEY_LENGTH -> Byte]
  BY DEF CryptoKey
<1>. HIDE DEF at
<1>4. \A i \in 1 .. Len(data) : Xor(data[i], k.key[at(i)]) \in Byte
  BY <1>1, <1>2, <1>3 DEF Xor, Byte
<1>5. out \in Seq(Byte) /\ DOMAIN out = 1 .. Len(data)
  BY <1>1, <1>4
<1>6. XorBuffers(data, k, size) = out
  BY <1>1 DEF XorBuffers, at
<1>. HIDE DEF out
<1>7. Len(out) = Len(data)
  BY <1>1, <1>5, LenProperties
<1>. QED
  BY <1>5, <1>6, <1>7

(* The beginning and the end of what was put together.                     *)
LEMMA ConcatParts ==
  ASSUME NEW S, NEW s \in Seq(S), NEW t \in Seq(S)
  PROVE  /\ SubSeq(s \o t, 1, Len(s)) = s
         /\ SubSeq(s \o t, Len(s) + 1, Len(s \o t)) = t
<1>1. /\ s \o t \in Seq(S) /\ Len(s \o t) = Len(s) + Len(t)
      /\ \A i \in 1 .. Len(s) + Len(t) :
           (s \o t)[i] = IF i <= Len(s) THEN s[i] ELSE t[i - Len(s)]
  BY ConcatProperties
<1>2. Len(s) \in Nat /\ Len(t) \in Nat
  BY LenProperties
<1>3. \A i \in 1 .. Len(s) + Len(t) : (s \o t)[i] \in S
  BY <1>1, ElementOfSeq
<1>. DEFINE u == s \o t
            a == SubSeq(u, 1, Len(s))
            b == SubSeq(u, Len(s) + 1, Len(s) + Len(t))
<1>. HIDE DEF u
<1>4. a \in Seq(S) /\ Len(a) = Len(s) /\ \A i \in 1 .. Len(s) : a[i] = u[i]
  BY <1>2, <1>3, SubSeqProperties DEF u
<1>5. b \in Seq(S) /\ Len(b) = Len(t) /\ \A i \in 1 .. Len(t) : b[i] = u[Len(s) + i]
  BY <1>2, <1>3, SubSeqProperties DEF u
<1>. HIDE DEF a, b
<1>6. \A i \in 1 .. Len(s) : a[i] = s[i]
  BY <1>1, <1>2, <1>4 DEF u
<1>7. \A i \in 1 .. Len(t) : b[i] = t[i]
  BY <1>1, <1>2, <1>5 DEF u
<1>8. a = s /\ b = t
  BY <1>4, <1>5, <1>6, <1>7, SeqEqual
<1>. QED
  BY <1>1, <1>8 DEF a, b, u

(* decrypt_file succeeds and gives back a file on exactly one input, what  *)
(* encrypt_file makes of that file under the same key: nothing is lost on  *)
(* the way through, and no other or shorter input passes for the file      *)
(* (lines 30-104).                                                         *)
THEOREM DecryptsOnlyItsOwn ==
  ASSUME NEW plain \in Seq(Byte), NEW cipher \in Seq(Byte), NEW k \in CryptoKey
  PROVE  Decrypts(cipher, k) /\ DecryptFile(cipher, k) = plain
           <=> cipher = EncryptFile(plain, k)
<1>1. k.iv \in Seq(Byte) /\ DOMAIN k.iv = 1 .. IV_LENGTH /\ IV_LENGTH \in Nat
  BY CipherAssumption DEF CryptoKey
<1>2. Len(k.iv) = IV_LENGTH
  BY <1>1, LenProperties
<1>. DEFINE enc(data) == XorBuffers(data, k, BUFFER_SIZE)
<1>3. \A data \in Seq(Byte) : enc(data) \in Seq(Byte) /\ enc(enc(data)) = data
  BY BuffersTwice, BuffersTyped, CipherAssumption
<1>. HIDE DEF enc
<1>4. ASSUME cipher = EncryptFile(plain, k)
      PROVE  Decrypts(cipher, k) /\ DecryptFile(cipher, k) = plain
  <2>1. cipher = k.iv \o enc(plain) /\ enc(plain) \in Seq(Byte)
    BY <1>3, <1>4 DEF EncryptFile, enc
  <2>2. SubSeq(cipher, 1, IV_LENGTH) = k.iv /\ Body(cipher) = enc(plain)
    BY <1>1, <1>2, <2>1, ConcatParts DEF Body
  <2>3. Len(cipher) >= IV_LENGTH
    BY <1>1, <1>2, <2>1, ConcatProperties, LenProperties
  <2>4. Decrypts(cipher, k)
    BY <2>2, <2>3 DEF Decrypts
  <2>5. DecryptFile(cipher, k) = enc(enc(plain))
    BY <2>2, <2>4 DEF DecryptFile, enc
  <2>. QED
    BY <1>3, <2>4, <2>5
<1>5. ASSUME Decrypts(cipher, k), DecryptFile(cipher, k) = plain
      PROVE  cipher = EncryptFile(plain, k)
  <2>1. Len(cipher) \in Nat /\ \A i \in 1 .. Len(cipher) : cipher[i] \in Byte
    BY LenProperties, ElementOfSeq
  <2>2. Len(cipher) >= IV_LENGTH /\ SubSeq(cipher, 1, IV_LENGTH) = k.iv
    BY <1>5 DEF Decrypts
  <2>3. Body(cipher) \in Seq(Byte)
    BY <1>1, <2>1, <2>2, SubSeqProperties DEF Body
  <2>4. cipher = k.iv \o Body(cipher)
    <3>1. cipher = SubSeq(cipher, 1, IV_LENGTH) \o SubSeq(cipher, IV_LENGTH + 1, Len(cipher))
      <4>1. /\ 1 \in 1 .. Len(cipher) + 1 /\ IV_LENGTH \in 1 - 1 .. Len(cipher)
            /\ Len(cipher) \in IV_LENGTH .. Len(cipher)
        BY <1>1, <2>1, <2>2
      <4>2. SubSeq(cipher, 1, IV_LENGTH) \o SubSeq(cipher, IV_LENGTH + 1, Len(cipher))
              = SubSeq(cipher, 1, Len(cipher))
        BY <4>1, ConcatAdjacentSubSeq
      <4>3. SubSeq(cipher, 1, Len(cipher)) = cipher
        BY SubSeqFull
      <4>. QED
        BY <4>2, <4>3
    <3>. QED
      BY <2>2, <3>1 DEF Body
  <2>5. enc(Body(cipher)) = plain
    BY <1>5 DEF DecryptFile, enc
  <2>6. Body(cipher) = enc(plain)
    BY <1>3, <2>3, <2>5
  <2>. QED
    BY <2>4, <2>6 DEF EncryptFile, enc
<1>. QED
  BY <1>4, <1>5

(* A remainder does not see whole multiples.                               *)
LEMMA Wrap ==
  ASSUME NEW L \in Nat \ {0}, NEW q \in Nat, NEW r \in Nat
  PROVE  (q * L + r) % L = r % L
<1>. DEFINE x == q * L + r
            a == x \div L
            c == r \div L
            n == a - (q + c)
<1>1. q * L \in Nat
  OBVIOUS
<1>2. /\ x \in Nat /\ a \in Int /\ c \in Int /\ n \in Int
      /\ x % L \in 0 .. L - 1 /\ r % L \in 0 .. L - 1
  BY <1>1
<1>3. x = L * a + (x % L)
  BY <1>2
<1>4. r = L * c + (r % L)
  BY <1>2
<1>5. L * a = L * n + L * q + L * c
  BY <1>2
<1>6. L * n = (r % L) - (x % L)
  <2>. HIDE DEF a, c, n
  <2>1. x = q * L + r
    OBVIOUS
  <2>. HIDE DEF x
  <2>2. q * L = L * q
    OBVIOUS
  <2>. QED
    BY <1>2, <1>3, <1>4, <1>5, <2>1, <2>2
<1>. HIDE DEF n, x, a, c
<1>7. n >= 1 => L * n >= L
  BY <1>2
<1>8. n <= -1 => L * n <= -L
  BY <1>2
<1>9. n = 0
  BY <1>2, <1>6, <1>7, <1>8
<1>10. x % L = r % L
  BY <1>2, <1>6, <1>9
<1>. QED
  BY <1>10 DEF x

(* A stream sent by one send_encrypted_data and received in two pieces is  *)
(* what was sent if the cut is at a multiple of the key's length           *)
(* (lines 106-133): the key starts again exactly where it would have.      *)
THEOREM PiecesAlign ==
  ASSUME NEW data \in Seq(Byte), NEW k \in CryptoKey, NEW q \in Nat,
         q * KEY_LENGTH <= Len(data)
  PROVE  LET sent == SendEncryptedData(data, k)
             cut  == q * KEY_LENGTH
         IN  ReceiveEncryptedData(SubSeq(sent, 1, cut), k)
               \o ReceiveEncryptedData(SubSeq(sent, cut + 1, Len(sent)), k) = data
<1>. DEFINE sent  == SendEncryptedData(data, k)
            cut   == q * KEY_LENGTH
            one   == SubSeq(sent, 1, cut)
            two   == SubSeq(sent, cut + 1, Len(sent))
            first == ReceiveEncryptedData(one, k)
            rest  == ReceiveEncryptedData(two, k)
            at(i) == KeyIndex(i, KEY_LENGTH)
<1>1. KEY_LENGTH \in Nat \ {0}
  BY CipherAssumption
<1>2. cut \in Nat /\ cut <= Len(data) /\ Len(data) \in Nat /\ DOMAIN data = 1 .. Len(data)
  BY <1>1, LenProperties
<1>3. /\ sent \in Seq(Byte) /\ Len(sent) = Len(data)
      /\ \A i \in 1 .. Len(data) : sent[i] \in Byte /\ sent[i] = Xor(data[i], k.key[at(i)])
  <2>1. sent \in Seq(Byte) /\ Len(sent) = Len(data)
    BY <1>1, BuffersTyped DEF SendEncryptedData
  <2>2. \A i \in 1 .. Len(data) : sent[i] = Xor(data[i], k.key[at(i)])
    BY <1>2 DEF SendEncryptedData, XorBuffers
  <2>. QED
    BY <2>1, <2>2, ElementOfSeq
<1>. HIDE DEF sent
<1>4. \A j \in 1 .. Len(data) - cut : at(cut + j) = at(j)
  <2>. SUFFICES ASSUME NEW j \in 1 .. Len(data) - cut PROVE at(cut + j) = at(j)
    OBVIOUS
  <2>. DEFINE r == j - 1
  <2>1. r \in Nat /\ (cut + j) - 1 = cut + r
    BY <1>2
  <2>. HIDE DEF r
  <2>2. (cut + r) % KEY_LENGTH = r % KEY_LENGTH
    BY <1>1, <2>1, Wrap
  <2>. HIDE DEF cut
  <2>3. KeyIndex(cut + j, KEY_LENGTH) = (((cut + r) % KEY_LENGTH) % KEY_LENGTH) + 1
    BY <2>1 DEF KeyIndex
  <2>4. KeyIndex(j, KEY_LENGTH) = ((r % KEY_LENGTH) % KEY_LENGTH) + 1
    BY DEF KeyIndex, r
  <2>. QED
    BY <2>2, <2>3, <2>4
<1>. HIDE DEF cut, at
<1>5. /\ one \in Seq(Byte) /\ Len(one) = cut
      /\ \A i \in 1 .. cut : one[i] = sent[i]
  BY <1>2, <1>3, SubSeqProperties
<1>6. /\ two \in Seq(Byte) /\ Len(two) = Len(data) - cut
      /\ \A j \in 1 .. Len(data) - cut : two[j] = sent[cut + j]
  <2>1. \A i \in cut + 1 .. Len(data) : sent[i] \in Byte
    BY <1>2, <1>3
  <2>2. /\ two \in Seq(Byte)
        /\ Len(two) = IF cut + 1 <= Len(data) THEN Len(data) - (cut + 1) + 1 ELSE 0
        /\ \A j \in 1 .. Len(data) - (cut + 1) + 1 : two[j] = sent[(cut + 1) + j - 1]
    BY <1>2, <1>3, <2>1, SubSeqProperties
  <2>. HIDE DEF two
  <2>3. \A j \in 1 .. Len(data) - cut : two[j] = sent[cut + j]
    <3>. SUFFICES ASSUME NEW j \in 1 .. Len(data) - cut PROVE two[j] = sent[cut + j]
      OBVIOUS
    <3>1. j \in 1 .. Len(data) - (cut + 1) + 1 /\ (cut + 1) + j - 1 = cut + j
      BY <1>2
    <3>. QED
      BY <2>2, <3>1
  <2>4. Len(two) = Len(data) - cut
    <3>1. Len(two) = IF cut + 1 <= Len(data) THEN Len(data) - (cut + 1) + 1 ELSE 0
      BY <2>2
    <3>2. Len(data) \in Nat /\ cut \in 0 .. Len(data)
      BY <1>2
    <3>3. CASE cut + 1 <= Len(data)
      <4>1. Len(two) = Len(data) - (cut + 1) + 1
        BY <3>1, <3>3
      <4>. QED
        BY <3>2, <4>1
    <3>4. CASE cut = Len(data)
      <4>1. ~(cut + 1 <= Len(data)) /\ Len(data) - cut = 0
        BY <3>2, <3>4
      <4>. QED
        BY <3>1, <4>1
    <3>. QED
      BY <3>2, <3>3, <3>4
  <2>. QED
    BY <2>2, <2>3, <2>4
<1>. HIDE DEF one, two
<1>7. /\ first \in Seq(Byte) /\ Len(first) = cut
      /\ \A i \in 1 .. cut : first[i] = Xor(one[i], k.key[at(i)])
  <2>1. first \in Seq(Byte) /\ Len(first) = cut
    BY <1>1, <1>5, BuffersTyped DEF ReceiveEncryptedData
  <2>2. DOMAIN one = 1 .. cut
    BY <1>5, LenProperties
  <2>. QED
    BY <2>1, <2>2 DEF ReceiveEncryptedData, XorBuffers, at
<1>8. /\ rest \in Seq(Byte) /\ Len(rest) = Len(data) - cut
      /\ \A j \in 1 .. Len(data) - cut : rest[j] = Xor(two[j], k.key[at(j)])
  <2>1. rest \in Seq(Byte) /\ Len(rest) = Len(data) - cut
    BY <1>1, <1>6, BuffersTyped DEF ReceiveEncryptedData
  <2>2. DOMAIN two = 1 .. Len(data) - cut
    BY <1>6, LenProperties
  <2>. QED
    BY <2>1, <2>2 DEF ReceiveEncryptedData, XorBuffers, at
<1>. HIDE DEF first, rest
<1>9. \A i \in 1 .. cut : first[i] = data[i]
  BY <1>2, <1>3, <1>5, <1>7, XorTwice
<1>10. \A j \in 1 .. Len(data) - cut : rest[j] = data[cut + j]
  <2>. SUFFICES ASSUME NEW j \in 1 .. Len(data) - cut PROVE rest[j] = data[cut + j]
    OBVIOUS
  <2>. DEFINE i == cut + j
  <2>1. i \in 1 .. Len(data)
    BY <1>2
  <2>2. at(i) = at(j)
    BY <1>4
  <2>. HIDE DEF i
  <2>3. sent[i] = Xor(data[i], k.key[at(j)])
    BY <1>3, <2>1, <2>2
  <2>4. rest[j] = Xor(sent[i], k.key[at(j)])
    BY <1>6, <1>8 DEF i
  <2>. QED
    BY <2>3, <2>4, XorTwice DEF i
<1>11. /\ first \o rest \in Seq(Byte) /\ Len(first \o rest) = Len(data)
       /\ \A i \in 1 .. Len(data) :
            (first \o rest)[i] = IF i <= cut THEN first[i] ELSE rest[i - cut]
  <2>1. /\ first \o rest \in Seq(Byte) /\ Len(first \o rest) = Len(first) + Len(rest)
        /\ \A i \in 1 .. Len(first) + Len(rest) :
             (first \o rest)[i] = IF i <= Len(first) THEN first[i] ELSE rest[i - Len(first)]
    BY <1>7, <1>8, ConcatProperties
  <2>2. Len(first) + Len(rest) = Len(data)
    BY <1>2, <1>7, <1>8
  <2>. QED
    BY <1>7, <2>1, <2>2
<1>12. \A i \in 1 .. Len(data) : (first \o rest)[i] = data[i]
  <2>. SUFFICES ASSUME NEW i \in 1 .. Len(data) PROVE (first \o rest)[i] = data[i]
    OBVIOUS
  <2>1. CASE i <= cut
    BY <1>2, <1>9, <1>11, <2>1
  <2>2. CASE ~(i <= cut)
    <3>1. i - cut \in 1 .. Len(data) - cut /\ cut + (i - cut) = i
      BY <1>2, <2>2
    <3>. QED
      BY <1>10, <1>11, <2>2, <3>1
  <2>. QED
    BY <2>1, <2>2
<1>13. first \o rest = data
  BY <1>11, <1>12, SeqEqual
<1>. QED
  BY <1>13 DEF first, rest, one, two, cut, sent

-----------------------------------------------------------------------------
(* The key exchange.                                                       *)

(* The powers of dh_g, which has order 22.                                 *)
PowerOfG(e) ==
  CASE e = 0 -> 1   [] e = 1 -> 5   [] e = 2 -> 2   [] e = 3 -> 10  [] e = 4 -> 4
    [] e = 5 -> 20  [] e = 6 -> 8   [] e = 7 -> 17  [] e = 8 -> 16  [] e = 9 -> 11
    [] e = 10 -> 9  [] e = 11 -> 22 [] e = 12 -> 18 [] e = 13 -> 21 [] e = 14 -> 13
    [] e = 15 -> 19 [] e = 16 -> 3  [] e = 17 -> 15 [] e = 18 -> 6  [] e = 19 -> 7
    [] e = 20 -> 12 [] e = 21 -> 14

LEMMA PowerTyped == \A i \in 0 .. 21 : PowerOfG(i) \in 1 .. 22
BY DEF PowerOfG

(* To multiply two of them is to add their exponents, modulo 22.           *)
LEMMA PowersMultiply ==
  ASSUME NEW i \in 0 .. 21, NEW j \in 0 .. 21
  PROVE  (PowerOfG(i) * PowerOfG(j)) % dh_p = PowerOfG((i + j) % 22)
<1>1. CASE i \in 0 .. 3
  BY <1>1 DEF PowerOfG, dh_p
<1>2. CASE i \in 4 .. 7
  BY <1>2 DEF PowerOfG, dh_p
<1>3. CASE i \in 8 .. 11
  BY <1>3 DEF PowerOfG, dh_p
<1>4. CASE i \in 12 .. 15
  BY <1>4 DEF PowerOfG, dh_p
<1>5. CASE i \in 16 .. 17
  BY <1>5 DEF PowerOfG, dh_p
<1>6. CASE i \in 18 .. 19
  BY <1>6 DEF PowerOfG, dh_p
<1>7. CASE i \in 20 .. 21
  BY <1>7 DEF PowerOfG, dh_p
<1>. QED
  BY <1>1, <1>2, <1>3, <1>4, <1>5, <1>6, <1>7

LEMMA MultiplesOf22 ==
  ASSUME NEW m \in Int, NEW n \in Int
  PROVE  (m + 22 * n) % 22 = m % 22
OBVIOUS

(* The invariant of the loop: result * base^exp stays the e-th power of    *)
(* dh_g.                                                                   *)
RoundInv(w, e) ==
  \E r, b \in 0 .. 21, x \in Nat :
    w = [result |-> PowerOfG(r), base |-> PowerOfG(b), exp |-> x] /\ (r + b * x) % 22 = e

LEMMA RoundKeeps ==
  ASSUME NEW w, NEW e, RoundInv(w, e)
  PROVE  RoundInv(Round(w), e) /\ Round(w).exp = w.exp \div 2
<1>1. PICK r \in 0 .. 21, b \in 0 .. 21, x \in Nat :
        w = [result |-> PowerOfG(r), base |-> PowerOfG(b), exp |-> x] /\ (r + b * x) % 22 = e
  BY DEF RoundInv
<1>. DEFINE q == x \div 2
            s == IF x % 2 = 1 THEN (r + b) % 22 ELSE r
            c == (b + b) % 22
<1>2. q \in Nat /\ s \in 0 .. 21 /\ c \in 0 .. 21
  OBVIOUS
<1>3. Round(w) = [result |-> PowerOfG(s), base |-> PowerOfG(c), exp |-> q]
  <2>1. /\ (PowerOfG(r) * PowerOfG(b)) % dh_p = PowerOfG((r + b) % 22)
        /\ (PowerOfG(b) * PowerOfG(b)) % dh_p = PowerOfG(c)
    BY PowersMultiply
  <2>. QED
    BY <1>1, <2>1 DEF Round
<1>4. (s + c * q) % 22 = e
  <2>1. PICK k \in Int, l \in Int, y \in 0 .. 1 :
          c = b + b - 22 * k /\ s = r + y * b - 22 * l /\ x = 2 * q + y
    <3>1. PICK k \in {0, 1} : c = b + b - 22 * k
      OBVIOUS
    <3>2. PICK y \in 0 .. 1 : x = 2 * q + y /\ x % 2 = y
      OBVIOUS
    <3>3. PICK l \in {0, 1} : s = r + y * b - 22 * l
      BY <3>2
    <3>. HIDE DEF q, s, c
    <3>4. k \in Int /\ l \in Int
      OBVIOUS
    <3>. QED
      BY <3>1, <3>2, <3>3, <3>4, Zenon
  <2>. HIDE DEF q, s, c
  <2>2. s + c * q = (r + b * x) + 22 * (-l - k * q)
    BY <1>2, <2>1
  <2>. QED
    BY <1>1, <1>2, <2>1, <2>2, MultiplesOf22
<1>5. Round(w).exp = w.exp \div 2
  BY <1>1, <1>3
<1>. HIDE DEF q, s, c
<1>6. RoundInv(Round(w), e)
  BY <1>2, <1>3, <1>4 DEF RoundInv
<1>. QED
  BY <1>5, <1>6

(* The rounds of Power are enough for a private key: the exponent is 0     *)
(* after the fifth.                                                        *)
LEMMA Powers ==
  ASSUME NEW b \in 0 .. 21, NEW x \in PrivateKeys
  PROVE  Power(PowerOfG(b), x) = PowerOfG((b * x) % 22)
<1>. DEFINE w0 == [result |-> 1, base |-> PowerOfG(b), exp |-> x]
            e  == (b * x) % 22
<1>1. RoundInv(w0, e)
  <2>1. PowerOfG(0) = 1 /\ x \in Nat /\ 0 + b * x = b * x
    BY DEF PowerOfG, PrivateKeys
  <2>2. /\ w0 = [result |-> PowerOfG(0), base |-> PowerOfG(b), exp |-> x]
        /\ (0 + b * x) % 22 = e /\ 0 \in 0 .. 21
    BY <2>1
  <2>. HIDE DEF w0, e
  <2>. QED
    BY <2>1, <2>2 DEF RoundInv
<1>. DEFINE w1 == Round(w0)
            w2 == Round(w1)
            w3 == Round(w2)
            w4 == Round(w3)
            w5 == Round(w4)
<1>2. w0.exp = x
  OBVIOUS
<1>. HIDE DEF w0, e
<1>3. RoundInv(w1, e) /\ w1.exp = x \div 2
  BY <1>1, <1>2, RoundKeeps
<1>. HIDE DEF w1
<1>4. RoundInv(w2, e) /\ w2.exp = (x \div 2) \div 2
  BY <1>3, RoundKeeps
<1>. HIDE DEF w2
<1>5. RoundInv(w3, e) /\ w3.exp = ((x \div 2) \div 2) \div 2
  BY <1>4, RoundKeeps
<1>. HIDE DEF w3
<1>6. RoundInv(w4, e) /\ w4.exp = (((x \div 2) \div 2) \div 2) \div 2
  BY <1>5, RoundKeeps
<1>. HIDE DEF w4
<1>7. RoundInv(w5, e) /\ w5.exp = ((((x \div 2) \div 2) \div 2) \div 2) \div 2
  BY <1>6, RoundKeeps
<1>. HIDE DEF w5
<1>8. w5.exp = 0
  BY <1>7 DEF PrivateKeys
<1>9. w5.result = PowerOfG(e)
  <2>1. PICK r \in 0 .. 21, c \in 0 .. 21, y \in Nat :
          w5 = [result |-> PowerOfG(r), base |-> PowerOfG(c), exp |-> y] /\ (r + c * y) % 22 = e
    BY <1>7 DEF RoundInv
  <2>2. y = 0
    BY <1>8, <2>1
  <2>3. r = e
    BY <2>1, <2>2
  <2>. QED
    BY <2>1, <2>3
<1>. QED
  BY <1>9 DEF Power, w5, w4, w3, w2, w1, w0, e

(* A public key, and the secret that is computed from one.                 *)
LEMMA PublicKeyIs == \A x \in PrivateKeys : PublicKey(x) = PowerOfG(x % 22)
<1>. SUFFICES ASSUME NEW x \in PrivateKeys PROVE PublicKey(x) = PowerOfG(x % 22)
  OBVIOUS
<1>1. dh_g = PowerOfG(1) /\ 1 * x = x
  BY DEF dh_g, PowerOfG, PrivateKeys
<1>. QED
  BY <1>1, Powers DEF PublicKey

LEMMA SharedSecretIs ==
  \A x, y \in PrivateKeys : SharedSecret(x, PublicKey(y)) = PowerOfG((y * x) % 22)
<1>. SUFFICES ASSUME NEW x \in PrivateKeys, NEW y \in PrivateKeys
              PROVE  SharedSecret(x, PublicKey(y)) = PowerOfG((y * x) % 22)
  OBVIOUS
<1>1. PublicKey(y) = PowerOfG(y) /\ y \in 0 .. 21
  BY PublicKeyIs DEF PrivateKeys
<1>. QED
  BY <1>1, Powers DEF SharedSecret

(* The two sides of perform_key_exchange compute the same secret, whatever *)
(* keys they draw (crypto_common.c:143-179).                               *)
THEOREM SharedSecretsAgree == SecretsAgree
<1>. SUFFICES ASSUME NEW a \in PrivateKeys, NEW b \in PrivateKeys
              PROVE  SharedSecret(a, PublicKey(b)) = SharedSecret(b, PublicKey(a))
  BY DEF SecretsAgree
<1>1. b * a = a * b
  BY DEF PrivateKeys
<1>. QED
  BY <1>1, SharedSecretIs

(* Keys and secrets are numbers modulo dh_p, and never 0.                  *)
LEMMA KeysTyped ==
  \A x, y \in PrivateKeys : PublicKey(x) \in 1 .. dh_p - 1
                             /\ SharedSecret(x, PublicKey(y)) \in 1 .. dh_p - 1
<1>. SUFFICES ASSUME NEW x \in PrivateKeys, NEW y \in PrivateKeys
              PROVE  PublicKey(x) \in 1 .. dh_p - 1
                     /\ SharedSecret(x, PublicKey(y)) \in 1 .. dh_p - 1
  OBVIOUS
<1>1. x % 22 \in 0 .. 21 /\ y * x \in Int
  BY DEF PrivateKeys
<1>2. (y * x) % 22 \in 0 .. 21
  BY <1>1
<1>. QED
  BY <1>1, <1>2, PublicKeyIs, SharedSecretIs, PowerTyped DEF dh_p
=============================================================================
