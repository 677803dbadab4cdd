----------------------------- MODULE SquareMultiply -----------------------------
(***************************************************************************)
(* Diffie-Hellman as src/server/dh.c and src/client/dh.c (the same text)   *)
(* compute it: sq_mult raises G to the own secret, secret_maker raises the *)
(* share of the other end to it, both by squaring and multiplying from the *)
(* bit below the highest down to bit 0.  Each end runs the two functions   *)
(* one after the other; numbers are small here, the loops are the code's.  *)
(* In E2E and ChatServer the key of two secrets is a symbol: this module   *)
(* is why that symbol does not depend on the end that computes it.         *)
(***************************************************************************)
EXTENDS Integers, FiniteSets

CONSTANTS
    End,        \* the two ends of an exchange
    G,          \* the generator
    Modulus,    \* the values MODP is tried with, primes or not
    Width       \* bound: bits of a secret

ASSUME EndAssumption == IsFiniteSet(End) /\ Cardinality(End) = 2
ASSUME NumberAssumption == /\ G \in Nat \ {0} /\ Width \in Nat
                           /\ \A m \in Modulus : m \in Nat /\ m > G

VARIABLES
    modp,       \* MODP
    exponent,   \* the secret of an end
    at,         \* "share" (in sq_mult), "wait", "secret" (in secret_maker) or "done"
    i, base,    \* the locals of the loop
    share, key, \* the results, 0 as long as there is none (a new BIGNUM)
    failed      \* the ends in which BN_new returned NULL

vars == <<modp, exponent, at, i, base, share, key, failed>>

Other(e) == CHOOSE o \in End : o # e

\* 2 to the power of k.
Two[k \in Nat] == IF k = 0 THEN 1 ELSE 2 * Two[k - 1]

\* BN_num_bits and BN_is_bit_set.
NumBits(a)  == Cardinality({k \in 0..Width - 1 : Two[k] <= a})
IsBitSet(a, k) == (a \div Two[k]) % 2 = 1

\* Seeded fault: the loop starts at the highest bit, which base already stands for.
FirstBitHighest(a) == NumBits(a) - 1
\* The bit the loop starts at: below 0 if the secret is 0 or 1.
FirstBit(a) == NumBits(a) - 2

Init == /\ modp \in Modulus
        /\ exponent \in [End -> 0..Two[Width] - 1]
        /\ at = [e \in End |-> "share"]
        /\ i = [e \in End |-> FirstBit(exponent[e])]
        /\ base = [e \in End |-> G]
        /\ share = [e \in End |-> 0] /\ key = [e \in End |-> 0]
        /\ failed = {}

\* What is multiplied in: G in sq_mult, the other end's share in secret_maker.
Root(e) == IF at[e] = "share" THEN G ELSE share[Other(e)]

\* Seeded fault: multiply, then square.
SquaredLast(e) == LET b == IF IsBitSet(exponent[e], i[e]) THEN (base[e] * Root(e)) % modp ELSE base[e] IN
    (b * b) % modp
\* One turn of the loop: square, and multiply if the bit is set.
Squared(e) == LET square == (base[e] * base[e]) % modp IN
    IF IsBitSet(exponent[e], i[e]) THEN (square * Root(e)) % modp ELSE square

Turn(e) ==
    /\ at[e] \in {"share", "secret"} /\ i[e] >= 0
    /\ base' = [base EXCEPT ![e] = Squared(e)]
    /\ i' = [i EXCEPT ![e] = @ - 1]
    /\ UNCHANGED <<modp, exponent, at, share, key, failed>>

\* The end of sq_mult: the share goes to the other end.
ShareMade(e) ==
    /\ at[e] = "share" /\ i[e] < 0
    /\ share' = [share EXCEPT ![e] = base[e]]
    /\ at' = [at EXCEPT ![e] = "wait"]
    /\ UNCHANGED <<modp, exponent, i, base, key, failed>>

\* The share of the other end is there: secret_maker begins.
ShareReceived(e) ==
    /\ at[e] = "wait" /\ at[Other(e)] # "share"
    /\ at' = [at EXCEPT ![e] = "secret"]
    /\ base' = [base EXCEPT ![e] = share[Other(e)]]
    /\ i' = [i EXCEPT ![e] = FirstBit(exponent[e])]
    /\ UNCHANGED <<modp, exponent, share, key, failed>>

\* The end of secret_maker.
SecretMade(e) ==
    /\ at[e] = "secret" /\ i[e] < 0
    /\ key' = [key EXCEPT ![e] = base[e]]
    /\ at' = [at EXCEPT ![e] = "done"]
    /\ UNCHANGED <<modp, exponent, i, base, share, failed>>

\* BN_new fails: the function returns and its result stays 0, which no caller sees.
NoMemory(e) ==
    /\ at[e] \in {"share", "secret"} /\ i[e] = FirstBit(exponent[e])
    /\ at' = [at EXCEPT ![e] = IF @ = "share" THEN "wait" ELSE "done"]
    /\ failed' = failed \cup {e}
    /\ UNCHANGED <<modp, exponent, i, base, share, key>>

Next == \E e \in End : Turn(e) \/ ShareMade(e) \/ ShareReceived(e) \/ SecretMade(e) \/ NoMemory(e)

Spec == Init /\ [][Next]_vars

--------------------------------------------------------------------------------
(* Properties. *)

\* The reference: x to the power of n modulo m, by n multiplications.
Power(x, n, m) == LET p[k \in Nat] == IF k = 0 THEN 1 ELSE (p[k - 1] * x) % m IN p[n]

\* The power that a secret stands for: 0 is treated as 1, by both functions.
Meant(a) == IF a = 0 THEN 1 ELSE a

\* The invariant of the loops: base is the root to the power that the bits already read make.
BaseIsPower == \A e \in End :
    at[e] \in {"share", "secret"} =>
        base[e] = Power(Root(e), Meant(exponent[e]) \div Two[IF i[e] < 0 THEN 0 ELSE i[e] + 1], modp)

\* Two ends that computed their secret hold the same one, for any two secrets, 0 and 1 among
\* them, and for any modulus, a prime or not; it is G to the power of both.
SecretsAgree ==
    (failed = {} /\ \A e \in End : at[e] = "done") =>
        \A e \in End : key[e] = Power(G, Meant(exponent[e]) * Meant(exponent[Other(e)]), modp)

=================================================================================
