------------------------------- MODULE Token -------------------------------
(***************************************************************************)
(* Tokens and nonces: core/src/crypto/token.rs and core/src/crypto/nonce.rs. *)
(*                                                                         *)
(* A key is its identity and the method of its signatures.  A string of    *)
(* bytes is its length and what tells it apart from other strings.  SHA-256 *)
(* is taken as injective and a signature as something only the owner of    *)
(* the key can make; base64 is the bijection it is.                        *)
(***************************************************************************)
EXTENDS Integers, Sequences

CONSTANTS
    U64,        \* number of values of a u64: 2^64 in the program
    MaxAge      \* 60 * 60 seconds

ASSUME U64Assumption == U64 \in Nat /\ MaxAge \in Nat /\ MaxAge < U64

Key(id, method) == [id |-> id, method |-> method]

\* SigningTokenKey holds an Ed25519 key, RsaPssVerifyingKey exists only to verify.
SigningKey(id) == Key(id, "ed25519")

Bytes(len, value) == [len |-> len, value |-> value]

\* 32 random bytes: no two calls return the same ones.
generate_nonce(owner) == Bytes(32, <<owner>>)

validate_nonce(nonce) == nonce.len >= 16 /\ nonce.len <= 128

Concat(a, b) == Bytes(a.len + b.len, a.value \o b.value)

\* The hash of the DER form of the public key followed by the salt.
Digest(key, salt) == <<key, salt>>

generate_token_nonce(key, salt) ==
    [hash |-> "sha256", digest |-> Digest(key, salt), salt |-> salt,
     sign |-> "ed25519", signature |-> [by |-> key, over |-> Digest(key, salt)]]

\* The salt is the time in seconds, as the 8 bytes of a u64.
generate_token_timestamp(key, now) == generate_token_nonce(key, Bytes(8, now))

\* The checks in their order; saltOk is the verdict of the closure verify_salt.
verify_token_with_result(key, token, saltOk) ==
    /\ token.hash = "sha256"
    /\ token.sign = key.method
    /\ saltOk
    /\ token.digest = Digest(key, token.salt)
    /\ token.signature = [by |-> key, over |-> token.digest]

verify_token_nonce(key, token, nonce) ==
    verify_token_with_result(key, token, token.salt = nonce)

\* now_seconds - salt, in u64: it wraps when the salt lies in the future (a
\* build with overflow checks panics there instead, and accepts nothing).
Age(now, salt) == (now - salt) % U64

verify_token_timestamp(key, token, now) ==
    verify_token_with_result(key, token,
        token.salt.len = 8 /\ ~(Age(now, token.salt.value) > MaxAge))

\* A time-stamped token is accepted for exactly an hour: never before the time
\* it claims, although the age is computed with an unsigned subtraction that
\* wraps for a salt from the future, and never after the hour (token.rs:155-159).
\* This needs a clock that is past the first hour of 1970.
TimestampWindow ==
    \A now \in MaxAge..(U64 - 1), salt \in 0..(U64 - 1) :
        LET key == SigningKey("S")
        IN  verify_token_timestamp(key, generate_token_timestamp(key, salt), now)
                <=> (salt <= now /\ now <= salt + MaxAge)
=============================================================================
