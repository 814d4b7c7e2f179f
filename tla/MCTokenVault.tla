------------------------------ MODULE MCTokenVault ------------------------------
(* Small instances of TokenVault.                                               *)
EXTENDS TokenVault, TLC

CONSTANTS t1, t2, r1, r2, v1, v2, k1, k2, k3

MCThreads == {t1, t2}
MCRequestIds == {r1, r2}
MCValues == {v1, v2}
MCTokens == {k1, k2, k3}

\* Two rows of the long value are over the byte cap; three rows of any kind are
\* over the entry cap, and two short ones and a long one are not over the byte cap.
MCValueBytes == (v1 :> 1 @@ v2 :> 3)

\* The proxy's use: one executor thread mints for a request.
OneMinterEach == (t1 :> {r1} @@ t2 :> {r2})

\* A negative ttl is clamped to zero.
MCTtls == {-1, 2}

Symmetry == Permutations(MCTokens)
=============================================================================
