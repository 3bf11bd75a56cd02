--------------------------- MODULE OrdinaryClock ---------------------------
(***************************************************************************)
(* The vector clock of crates/common/src/ordinary_clock.rs: a map from key *)
(* ids to u32 counters in which an id may be missing or be zero.           *)
(***************************************************************************)
EXTENDS Integers, FiniteSetsExt

CONSTANTS
    Keys,      \* KeyId
    U32Max     \* the largest counter

ASSUME U32MaxAssumption == U32Max \in Nat \ {0}

(* A KeyId is a u64: there are finitely many.                              *)
ASSUME KeysAssumption == IsFiniteSet(Keys)

OrdinaryClocks == UNION {[S -> 0..U32Max] : S \in SUBSET Keys}

(* What a clock says of an id, missing or not.                             *)
Entry(c, id) == IF id \in DOMAIN c THEN c[id] ELSE 0

new == [id \in {} |-> 0]

is_genesis(c) == \A id \in DOMAIN c : c[id] = 0

merge(c, d) ==
    [id \in DOMAIN c \union DOMAIN d |->
        IF id \in DOMAIN c /\ id \in DOMAIN d
          THEN IF c[id] >= d[id] THEN c[id] ELSE d[id]
          ELSE IF id \in DOMAIN c THEN c[id] ELSE d[id]]

Largest(V) == CHOOSE v \in V : \A w \in V : w <= v

(* What folding merge over the clocks of a set comes to, in any order.     *)
merge_all(S) ==
    [id \in UNION {DOMAIN c : c \in S} |->
        Largest({c[id] : c \in {d \in S : id \in DOMAIN d}})]

\* Mutant: the counter is not incremented when it is new.
M_update_only_known(c, others, id) ==
    LET updated == merge_all({c} \union others)
    IN  [k \in DOMAIN updated \union {id} |->
            IF k = id /\ k \in DOMAIN updated
              THEN IF updated[id] = U32Max THEN 0 ELSE updated[id] + 1
              ELSE Entry(updated, k)]

(* The own entry is incremented, as u32: a release build wraps, and where  *)
(* overflow is checked the caller panics before it has a clock.            *)
update(c, others, id) ==
    LET updated == merge_all({c} \union others)
    IN  [k \in DOMAIN updated \union {id} |->
            IF k # id THEN updated[k]
            ELSE IF Entry(updated, id) = U32Max THEN 0
            ELSE Entry(updated, id) + 1]

Overflows(c, others, id) ==
    Entry(merge_all({c} \union others), id) = U32Max

\* Mutant: an entry the other clock has and this one has not is skipped.
M_ge_skips_missing(c, other) ==
    \A id \in DOMAIN other :
        other[id] # 0 => id \notin DOMAIN c \/ c[id] >= other[id]

(* ge of partial_cmp: zero entries of the other clock count as missing.    *)
ge(c, other) ==
    \A id \in DOMAIN other :
        other[id] # 0 => id \in DOMAIN c /\ c[id] >= other[id]

partial_cmp(c, other) ==
    CASE ge(c, other) /\ ge(other, c) -> "Equal"
      [] ge(c, other) /\ ~ge(other, c) -> "Greater"
      [] ~ge(c, other) /\ ge(other, c) -> "Less"
      [] OTHER -> "None"

\* Mutant: the missing entry is the greater one.
M_dep_cmp_swapped(c, other, id) ==
    CASE id \notin DOMAIN c /\ id \in DOMAIN other -> "Greater"
      [] id \in DOMAIN c /\ id \notin DOMAIN other -> "Less"
      [] id \notin DOMAIN c /\ id \notin DOMAIN other -> "Equal"
      [] OTHER -> IF c[id] < other[id] THEN "Less"
                  ELSE IF c[id] = other[id] THEN "Equal" ELSE "Greater"

dep_cmp(c, other, id) ==
    CASE id \notin DOMAIN c /\ id \in DOMAIN other -> "Less"
      [] id \in DOMAIN c /\ id \notin DOMAIN other -> "Greater"
      [] id \notin DOMAIN c /\ id \notin DOMAIN other -> "Equal"
      [] OTHER -> IF c[id] < other[id] THEN "Less"
                  ELSE IF c[id] = other[id] THEN "Equal" ELSE "Greater"

\* Mutant: the largest counter instead of their sum.
M_reduce_largest(c) == Max({c[id] : id \in DOMAIN c} \union {0})

(* The sum of the counters, as u32.                                        *)
reduce(c) == MapThenSumSet(LAMBDA id : c[id], DOMAIN c) % (U32Max + 1)
=============================================================================
