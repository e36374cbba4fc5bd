---------------------------- MODULE MCKeyManager ----------------------------
(***************************************************************************)
(* KeyManager on small instances: two pools, one of which lists a key of   *)
(* the other.                                                              *)
(***************************************************************************)
EXTENDS KeyManager, TLC

CONSTANTS k1, k2, A, B

\* A lists both keys and B the second, as the Gemini flash and pro models do.
FixedRosters == (A :> {<<k1, k2>>}) @@ (B :> {<<k2>>})

\* The second key may be imported into B, and taken out again.
ImportRosters == (A :> {<<k1, k2>>}) @@ (B :> {<<>>, <<k2>>})

\* Transient and unknown failures cost a tick, an empty account or a dead key two.
ShortCooldowns == [c \in Faults |-> CASE c \in {"auth", "no_balance"} -> 2
                                      [] c \in {"permission", "bad_request"} -> 0
                                      [] OTHER -> 1]

Symmetry == Permutations(Workers)

=============================================================================
