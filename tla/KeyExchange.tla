---------------------------- MODULE KeyExchange ----------------------------
(***************************************************************************)
(* The arithmetic of the key exchange (src/common/crypto_common.c:135-225).*)
(***************************************************************************)
EXTENDS FileCipher

dh_p == 23
dh_g == 5
PrivateKeys == 1 .. 20      \* rand() % 20 + 1

(* Square and multiply: one round of the loop.  Both factors are below     *)
(* dh_p, for an honest peer's key is: the 32 bits of an unsigned int are   *)
(* never used up.                                                          *)
Round(loop) ==
  [result |-> IF loop.exp % 2 = 1 THEN (loop.result * loop.base) % dh_p ELSE loop.result,
   base   |-> (loop.base * loop.base) % dh_p,
   exp    |-> loop.exp \div 2]

(* A private key is below 32: five rounds at most, and a round more than   *)
(* the loop runs leaves the result alone.                                  *)
Power(base, exp) ==
  Round(Round(Round(Round(Round([result |-> 1, base |-> base, exp |-> exp]))))).result

PublicKey(private) == Power(dh_g, private)

(* Mutant: the base of generate_dh_keys is left in place.                  *)
SharedSecretOfG(private, other) == Power(dh_g, private)
SharedSecret(private, other)    == Power(other, private)

(* g^(a*b), whichever side computes it.                                    *)
SecretsAgree ==
  \A a, b \in PrivateKeys : SharedSecret(a, PublicKey(b)) = SharedSecret(b, PublicKey(a))

(* srand(shared_secret), then rand() for every byte: bytes that are equal  *)
(* if the seeds are.  A byte is one bit here that no other byte has.       *)
DerivedKey(secret) ==
  [key |-> [i \in 1 .. KEY_LENGTH |-> {<<"key", secret, i>>}],
   iv  |-> [i \in 1 .. IV_LENGTH  |-> {<<"iv", secret, i>>}]]
=============================================================================
