------------------------ MODULE ClockExchangeProofs ------------------------
(***************************************************************************)
(* For any number of processes, any width of the counters and any messages *)
(* lost, late or taken twice: as long as no counter has wrapped, a clock   *)
(* counts the events behind it and partial_cmp is causality.               *)
(***************************************************************************)
EXTENDS ClockExchange, FiniteSetTheorems, WellFoundedInduction, TLAPS

-----------------------------------------------------------------------------
(* A set of counters has a largest, so merge_all is defined by Largest.    *)
LEMMA LargestIs ==
    ASSUME NEW V, V \subseteq 0..U32Max, V # {}
    PROVE  /\ Largest(V) \in V
           /\ \A w \in V : w <= Largest(V)
<1> DEFINE T == {n \in Nat : U32Max - n \in V}
           R == OpToRel(<, Nat)
<1>1. IsWellFoundedOn(R, Nat)
  BY NatLessThanWellFounded
<1>2. T \subseteq Nat
  OBVIOUS
<1>3. T # {}
  <2>1. PICK v \in V : TRUE
    OBVIOUS
  <2>2. v \in 0..U32Max
    BY <2>1
  <2>3. U32Max - v \in Nat /\ U32Max - (U32Max - v) = v
    BY <2>2, U32MaxAssumption
  <2> QED
    BY <2>1, <2>3
<1>4. PICK x \in T : \A y \in T : ~(<<y, x>> \in R)
  <2> HIDE DEF T, R
  <2> QED
    BY <1>1, <1>2, <1>3, WFMin
<1>5. \A y \in T : x <= y
  <2>1. \A y \in T : <<y, x>> \in R <=> y < x
    BY DEF OpToRel
  <2> TAKE y \in T
  <2>2. ~(y < x)
    BY <1>4, <2>1
  <2> HIDE DEF R
  <2> QED
    BY <2>2, <1>2
<1>6. \A w \in V : w <= U32Max - x
  <2> TAKE w \in V
  <2>1. w \in 0..U32Max
    OBVIOUS
  <2>2. U32Max - w \in T
    BY <2>1, U32MaxAssumption
  <2>3. x <= U32Max - w
    BY <1>5, <2>2
  <2> QED
    BY <2>1, <2>3, <1>2, U32MaxAssumption
<1>7. U32Max - x \in V
  OBVIOUS
<1>8. \E v \in V : \A w \in V : w <= v
  <2> HIDE DEF T
  <2> QED
    BY <1>6, <1>7
<1> QED
  BY <1>8 DEF Largest

(* A clock's entries are counters, and the clock is a map of ids to them.  *)
LEMMA EntryIs ==
    ASSUME NEW c \in OrdinaryClocks, NEW id \in Keys
    PROVE  /\ DOMAIN c \subseteq Keys
           /\ c \in [DOMAIN c -> 0..U32Max]
           /\ Entry(c, id) \in 0..U32Max
<1>1. PICK S \in SUBSET Keys : c \in [S -> 0..U32Max]
  BY DEF OrdinaryClocks
<1>2. DOMAIN c = S
  BY <1>1
<1>3. 0 \in 0..U32Max
  BY U32MaxAssumption
<1> QED
  BY <1>1, <1>2, <1>3 DEF Entry

(* Folding merge over clocks gives, for every id, the largest entry that   *)
(* one of them has.                                                        *)
LEMMA MergeAllIs ==
    ASSUME NEW S, S \subseteq OrdinaryClocks, S # {}
    PROVE  /\ merge_all(S) \in OrdinaryClocks
           /\ \A id \in Keys :
                /\ \A c \in S : Entry(c, id) <= Entry(merge_all(S), id)
                /\ \E c \in S : Entry(merge_all(S), id) = Entry(c, id)
<1> DEFINE D == UNION {DOMAIN c : c \in S}
           V(id) == {c[id] : c \in {d \in S : id \in DOMAIN d}}
           m == merge_all(S)
<1>1. m = [id \in D |-> Largest(V(id))]
  BY DEF merge_all
<1>2. \A c \in S : DOMAIN c \subseteq Keys /\ c \in [DOMAIN c -> 0..U32Max]
  <2> TAKE c \in S
  <2>1. PICK A \in SUBSET Keys : c \in [A -> 0..U32Max]
    BY DEF OrdinaryClocks
  <2> QED
    BY <2>1
<1>3. D \subseteq Keys
  BY <1>2
<1>4. \A id \in D : V(id) \subseteq 0..U32Max /\ V(id) # {}
  BY <1>2
<1>5. \A id \in D : Largest(V(id)) \in V(id)
                      /\ \A w \in V(id) : w <= Largest(V(id))
  <2> TAKE id \in D
  <2>1. V(id) \subseteq 0..U32Max /\ V(id) # {}
    BY <1>4
  <2> HIDE DEF V, D
  <2> QED
    BY <2>1, LargestIs
<1>6. DOMAIN m = D /\ \A id \in D : m[id] = Largest(V(id))
  <2> HIDE DEF V, D, m
  <2> QED
    BY <1>1
<1>7. \A id \in D : m[id] \in 0..U32Max
  <2> HIDE DEF V, D, m
  <2> QED
    BY <1>4, <1>5, <1>6
<1>8. m \in OrdinaryClocks
  <2>1. m \in [D -> 0..U32Max]
    <3> HIDE DEF V, D, m
    <3>1. m = [id \in D |-> m[id]]
      BY <1>1, <1>6
    <3> QED
      BY <3>1, <1>7
  <2> HIDE DEF D, m
  <2> QED
    BY <2>1, <1>3 DEF OrdinaryClocks
<1>9. ASSUME NEW id \in Keys, NEW c \in S
      PROVE  Entry(c, id) <= Entry(m, id)
  <2>1. CASE id \in DOMAIN c
    <3>1. id \in D /\ c[id] \in V(id)
      BY <2>1
    <3> HIDE DEF V, D, m
    <3> QED
      BY <3>1, <2>1, <1>5, <1>6 DEF Entry
  <2>2. CASE id \notin DOMAIN c
    <3>1. Entry(c, id) = 0
      BY <2>2 DEF Entry
    <3>2. Entry(m, id) \in 0..U32Max
      <4> HIDE DEF m
      <4> QED
        BY <1>8, EntryIs
    <3> HIDE DEF m
    <3> QED
      BY <3>1, <3>2, U32MaxAssumption
  <2> QED
    BY <2>1, <2>2
<1>10. ASSUME NEW id \in Keys
       PROVE  \E c \in S : Entry(m, id) = Entry(c, id)
  <2>1. CASE id \in D
    <3>1. Largest(V(id)) \in V(id)
      <4> HIDE DEF V, D
      <4> QED
        BY <2>1, <1>5
    <3>2. PICK c \in S : id \in DOMAIN c /\ c[id] = Largest(V(id))
      BY <3>1
    <3> HIDE DEF V, D, m
    <3> QED
      BY <3>2, <2>1, <1>6 DEF Entry
  <2>2. CASE id \notin D
    <3>1. \A c \in S : id \notin DOMAIN c
      BY <2>2
    <3>2. id \notin DOMAIN m
      <4> HIDE DEF V, D, m
      <4> QED
        BY <2>2, <1>6
    <3> HIDE DEF m
    <3> QED
      BY <3>1, <3>2 DEF Entry
  <2> QED
    BY <2>1, <2>2
<1> QED
  BY <1>8, <1>9, <1>10

(* update increments the own entry of the merged clock, or wraps it.       *)
LEMMA UpdateIs ==
    ASSUME NEW c \in OrdinaryClocks, NEW others,
           others \subseteq OrdinaryClocks, NEW p \in Keys
    PROVE  LET m == merge_all({c} \union others)
               u == update(c, others, p)
           IN  /\ u \in OrdinaryClocks
               /\ \A id \in Keys \ {p} : Entry(u, id) = Entry(m, id)
               /\ Entry(m, p) # U32Max => Entry(u, p) = Entry(m, p) + 1
<1> DEFINE m == merge_all({c} \union others)
           u == update(c, others, p)
           next == IF Entry(m, p) = U32Max THEN 0 ELSE Entry(m, p) + 1
<1>1. m \in OrdinaryClocks
  BY MergeAllIs
<1>2. u = [k \in DOMAIN m \union {p} |-> IF k # p THEN m[k] ELSE next]
  BY DEF update
<1> HIDE DEF m
<1>3. DOMAIN m \subseteq Keys /\ m \in [DOMAIN m -> 0..U32Max]
  BY <1>1, EntryIs
<1>4. Entry(m, p) \in 0..U32Max
  BY <1>1, EntryIs
<1>5. next \in 0..U32Max
  BY <1>4, U32MaxAssumption
<1> HIDE DEF next, u
<1>6. u \in [DOMAIN m \union {p} -> 0..U32Max]
  BY <1>2, <1>3, <1>5
<1>7. u \in OrdinaryClocks
  BY <1>6, <1>3 DEF OrdinaryClocks
<1>8. \A id \in Keys \ {p} : Entry(u, id) = Entry(m, id)
  BY <1>2 DEF Entry
<1>9. Entry(u, p) = next
  BY <1>2 DEF Entry
<1> QED
  BY <1>7, <1>8, <1>9 DEF next, m, u
-----------------------------------------------------------------------------
(* What a stamp stands for: the first events of every process, as many as  *)
(* its clock says, and no more than have happened.                         *)
Truthful(s, total) ==
    /\ s.past \subseteq Keys \X (1..U32Max)
    /\ \A id \in Keys : Entry(s.clock, id) <= total[id]
    /\ \A id \in Keys, n \in 1..U32Max :
          <<id, n>> \in s.past <=> n <= Entry(s.clock, id)

(* The inductive invariant: every stamp is truthful, and a process knows   *)
(* all of its own events.                                                  *)
ClockInv ==
    /\ TypeOK
    /\ ~overflowed =>
          /\ \A s \in Known : Truthful(s, count)
          /\ \A p \in Keys : Entry(stamp[p].clock, p) = count[p]

(* A new clock is empty or full of zeros.                                  *)
LEMMA InitInv == Init => ClockInv
<1> SUFFICES ASSUME Init PROVE ClockInv
  OBVIOUS
<1> USE U32MaxAssumption
<1> DEFINE zeros == [id \in Keys |-> 0]
<1>1. new \in OrdinaryClocks /\ zeros \in OrdinaryClocks
  <2>1. new \in [{} -> 0..U32Max] /\ zeros \in [Keys -> 0..U32Max]
    BY DEF new
  <2> QED
    BY <2>1 DEF OrdinaryClocks
<1>2. \A id \in Keys : Entry(new, id) = 0 /\ Entry(zeros, id) = 0
  BY DEF Entry, new
<1> HIDE DEF zeros
<1>3. \A p \in Keys : \/ stamp[p] = [clock |-> new, past |-> {}]
                      \/ stamp[p] = [clock |-> zeros, past |-> {}]
  BY DEF Init, zeros
<1>4. \A p \in Keys : /\ stamp[p] \in Stamps
                      /\ stamp[p].past = {}
                      /\ \A id \in Keys : Entry(stamp[p].clock, id) = 0
  BY <1>1, <1>2, <1>3 DEF Stamps
<1>5. TypeOK
  <2>1. DOMAIN stamp = Keys /\ stamp = [p \in Keys |-> stamp[p]]
    BY DEF Init
  <2>2. stamp \in [Keys -> Stamps]
    BY <1>4, <2>1
  <2> QED
    BY <2>2 DEF Init, TypeOK
<1>6. Known = {stamp[p] : p \in Keys}
  BY DEF Known, Init
<1>7. \A s \in Known : Truthful(s, count)
  <2> SUFFICES ASSUME NEW p \in Keys PROVE Truthful(stamp[p], count)
    BY <1>6
  <2> QED
    BY <1>4 DEF Truthful, Init
<1>8. \A p \in Keys : Entry(stamp[p].clock, p) = count[p]
  BY <1>4 DEF Init
<1> QED
  BY <1>5, <1>7, <1>8 DEF ClockInv

(* An event: the merged clock knows of exactly the events that any of the  *)
(* merged ones knew of, and the process's own entry was the largest.       *)
LEMMA NextInv == ClockInv /\ [Next]_vars => ClockInv'
<1> SUFFICES ASSUME ClockInv, [Next]_vars PROVE ClockInv'
  OBVIOUS
<1> USE U32MaxAssumption
<1>1. CASE UNCHANGED vars
  BY <1>1 DEF ClockInv, TypeOK, vars, Known, Truthful
<1>2. ASSUME NEW p \in Keys, NEW others \in SUBSET stamps,
             ~overflowed, event(p, others)
      PROVE  ClockInv'
  <2> DEFINE c == stamp[p].clock
             ds == Clocks(others)
             m == merge_all({c} \union ds)
             u == update(c, ds, p)
             past == (UNION {s.past : s \in others \union {stamp[p]}})
                       \union {<<p, count[p] + 1>>}
             here == [clock |-> u, past |-> past]
             from == others \union {stamp[p]}
  <2>1. TypeOK /\ from \subseteq Stamps /\ from \subseteq Known
    BY DEF ClockInv, TypeOK, Known
  <2>2. /\ count' = [count EXCEPT ![p] = @ + 1]
        /\ stamp' = [stamp EXCEPT ![p] = here]
        /\ stamps' = stamps \union {here}
        /\ overflowed' = (Entry(m, p) = U32Max)
    BY <1>2 DEF event, Overflows
  <2>3. {c} \union ds \subseteq OrdinaryClocks
          /\ \A d \in {c} \union ds : \E s \in from : d = s.clock
    BY <2>1 DEF Stamps, Clocks
  <2>4. /\ m \in OrdinaryClocks
        /\ \A id \in Keys :
             /\ \A d \in {c} \union ds : Entry(d, id) <= Entry(m, id)
             /\ \E d \in {c} \union ds : Entry(m, id) = Entry(d, id)
    <3> HIDE DEF c, ds
    <3> QED
      BY <2>3, MergeAllIs
  <2>5. /\ u \in OrdinaryClocks
        /\ \A id \in Keys \ {p} : Entry(u, id) = Entry(m, id)
        /\ Entry(m, p) # U32Max => Entry(u, p) = Entry(m, p) + 1
    <3>1. c \in OrdinaryClocks /\ ds \subseteq OrdinaryClocks
      BY <2>3
    <3> HIDE DEF c, ds
    <3> QED
      BY <3>1, UpdateIs
  <2>6. /\ \A s \in from, id \in Keys : Entry(s.clock, id) <= Entry(m, id)
        /\ \A id \in Keys : \E s \in from : Entry(m, id) = Entry(s.clock, id)
    <3>1. \A s \in from : s.clock \in {c} \union ds
      BY DEF Clocks
    <3> HIDE DEF c, ds, m, from
    <3> QED
      BY <3>1, <2>3, <2>4
  <2>7. /\ \A s \in from : s.past \subseteq past
        /\ \A e \in past : e = <<p, count[p] + 1>> \/ \E s \in from : e \in s.past
        /\ <<p, count[p] + 1>> \in past
    OBVIOUS
  <2>8. past \subseteq Keys \X Nat
    <3>1. \A s \in from : s.past \subseteq Keys \X Nat
      BY <2>1 DEF Stamps
    <3>2. count[p] + 1 \in Nat
      BY <2>1 DEF TypeOK
    <3> HIDE DEF past, from
    <3> QED
      BY <3>1, <3>2, <2>7
  <2>9. here \in Stamps
    <3> HIDE DEF u, past
    <3> QED
      BY <2>5, <2>8 DEF Stamps
  <2>10. TypeOK'
    <3> HIDE DEF here
    <3> QED
      BY <2>1, <2>2, <2>9 DEF TypeOK
  <2>11. ASSUME ~overflowed'
         PROVE  /\ \A s \in Known' : Truthful(s, count')
                /\ \A q \in Keys : Entry(stamp'[q].clock, q) = count'[q]
    <3>1. /\ \A s \in Known : Truthful(s, count)
          /\ \A q \in Keys : Entry(stamp[q].clock, q) = count[q]
      BY <1>2 DEF ClockInv
    <3>2. \A id \in Keys : Entry(m, id) \in 0..U32Max
      <4> HIDE DEF m
      <4> QED
        BY <2>4, EntryIs
    <3>3. \A id \in Keys : count[id] \in Nat
      BY <2>1 DEF TypeOK
    <3>4. \A id \in Keys : Entry(m, id) <= count[id]
      <4> HIDE DEF m, from
      <4> QED
        BY <2>1, <2>6, <3>1 DEF Truthful
    <3>5. Entry(m, p) = count[p]
      <4>1. Entry(stamp[p].clock, p) = count[p]
              /\ Entry(stamp[p].clock, p) <= Entry(m, p)
        <5>1. stamp[p] \in from
          OBVIOUS
        <5> HIDE DEF m, from
        <5> QED
          BY <5>1, <3>1, <2>6
      <4> HIDE DEF m
      <4> QED
        BY <4>1, <3>2, <3>3, <3>4
    <3>6. Entry(m, p) # U32Max
      BY <2>2, <2>11
    <3> DEFINE k == count[p] + 1
    <3>7. k \in 1..U32Max /\ Entry(u, p) = k
      <4> HIDE DEF m, u
      <4> QED
        BY <3>2, <3>3, <3>5, <3>6, <2>5
    <3>8. count'[p] = k /\ \A id \in Keys \ {p} : count'[id] = count[id]
      BY <2>1, <2>2 DEF TypeOK
    <3>9. ASSUME NEW id \in Keys, NEW n \in 1..U32Max
          PROVE  <<id, n>> \in past <=> n <= Entry(u, id)
      <4>1. (\E s \in from : <<id, n>> \in s.past) <=> n <= Entry(m, id)
        <5>1. \A s \in from : <<id, n>> \in s.past <=> n <= Entry(s.clock, id)
          <6> HIDE DEF from
          <6> QED
            BY <2>1, <3>1 DEF Truthful
        <5>2. \A s \in from : Entry(s.clock, id) \in 0..U32Max
          <6> HIDE DEF from
          <6> QED
            BY <2>1, EntryIs DEF Stamps
        <5>3. ASSUME NEW s \in from, <<id, n>> \in s.past
              PROVE  n <= Entry(m, id)
          <6>1. n <= Entry(s.clock, id) /\ Entry(s.clock, id) <= Entry(m, id)
            <7> HIDE DEF from, m
            <7> QED
              BY <5>1, <5>3, <2>6
          <6> HIDE DEF from, m
          <6> QED
            BY <6>1, <5>2, <3>2
        <5>4. ASSUME n <= Entry(m, id)
              PROVE  \E s \in from : <<id, n>> \in s.past
          <6> HIDE DEF from, m
          <6>1. PICK s \in from : Entry(m, id) = Entry(s.clock, id)
            BY <2>6
          <6> QED
            BY <6>1, <5>1, <5>4
        <5> QED
          BY <5>3, <5>4
      <4>2. <<id, n>> \in past <=>
              (\E s \in from : <<id, n>> \in s.past) \/ (id = p /\ n = k)
        <5>1. <<id, n>> = <<p, k>> <=> id = p /\ n = k
          OBVIOUS
        <5> HIDE DEF from, past
        <5> QED
          BY <5>1, <2>7
      <4>3. CASE id = p
        <5>1. n <= Entry(m, id) \/ n = k <=> n <= k
          <6> HIDE DEF m
          <6> QED
            BY <4>3, <3>3, <3>5
        <5> HIDE DEF from, past, m, u
        <5> QED
          BY <4>1, <4>2, <4>3, <5>1, <3>7
      <4>4. CASE id # p
        <5> HIDE DEF from, past, m, u
        <5> QED
          BY <4>1, <4>2, <4>4, <2>5
      <4> QED
        BY <4>3, <4>4
    <3>10. past \subseteq Keys \X (1..U32Max)
      <4>1. \A s \in from : s.past \subseteq Keys \X (1..U32Max)
        <5> HIDE DEF from
        <5> QED
          BY <2>1, <3>1 DEF Truthful
      <4>2. <<p, k>> \in Keys \X (1..U32Max)
        <5> HIDE DEF k
        <5> QED
          BY <3>7
      <4> HIDE DEF past, from
      <4> QED
        BY <4>1, <4>2, <2>7
    <3>11. \A id \in Keys : Entry(u, id) <= count'[id]
      <4> HIDE DEF u, m
      <4> QED
        BY <3>3, <3>4, <3>7, <3>8, <2>5
    <3>12. Truthful(here, count')
      <4>1. here.clock = u /\ here.past = past
        OBVIOUS
      <4>2. /\ past \subseteq Keys \X (1..U32Max)
            /\ \A id \in Keys : Entry(u, id) <= count'[id]
            /\ \A id \in Keys, n \in 1..U32Max :
                 <<id, n>> \in past <=> n <= Entry(u, id)
        BY <3>9, <3>10, <3>11
      <4> HIDE DEF here, u, past
      <4> QED
        BY <4>1, <4>2 DEF Truthful
    <3>13. \A s \in Known : s \in Stamps => Truthful(s, count')
      <4> SUFFICES ASSUME NEW s \in Known, s \in Stamps
                   PROVE  Truthful(s, count')
        OBVIOUS
      <4>1. Truthful(s, count)
        BY <3>1
      <4>2. \A id \in Keys : count[id] <= count'[id] /\ count'[id] \in Nat
        <5> HIDE DEF k
        <5> QED
          BY <3>3, <3>8 DEF k
      <4>3. \A id \in Keys : Entry(s.clock, id) \in 0..U32Max
        BY EntryIs DEF Stamps
      <4>4. \A id \in Keys : Entry(s.clock, id) <= count'[id]
        BY <4>1, <4>2, <4>3, <3>3 DEF Truthful
      <4> QED
        BY <4>1, <4>4 DEF Truthful
    <3>14. \A s \in Known' : s = here \/ (s \in Known /\ s \in Stamps)
      <4> HIDE DEF here
      <4>1. \A q \in Keys : stamp'[q] = here \/ stamp'[q] = stamp[q]
        BY <2>1, <2>2 DEF TypeOK
      <4> QED
        BY <4>1, <2>1, <2>2 DEF Known, TypeOK
    <3>15. \A s \in Known' : Truthful(s, count')
      <4> SUFFICES ASSUME NEW s \in Known' PROVE Truthful(s, count')
        OBVIOUS
      <4>1. CASE s = here
        BY <4>1, <3>12
      <4>2. CASE s \in Known /\ s \in Stamps
        BY <4>2, <3>13
      <4> QED
        BY <4>1, <4>2, <3>14
    <3>16. \A q \in Keys : Entry(stamp'[q].clock, q) = count'[q]
      <4>1. stamp'[p].clock = u /\ \A q \in Keys \ {p} : stamp'[q] = stamp[q]
        <5> HIDE DEF u, past
        <5> QED
          BY <2>1, <2>2 DEF TypeOK
      <4> HIDE DEF u
      <4> QED
        BY <4>1, <3>1, <3>7, <3>8
    <3> QED
      BY <3>15, <3>16
  <2> QED
    BY <2>10, <2>11 DEF ClockInv
<1> QED
  BY <1>1, <1>2 DEF Next

(* Together: the invariant holds in every state.                           *)
LEMMA Invariance == Spec => []ClockInv
BY InitInv, NextInv, PTL DEF Spec

-----------------------------------------------------------------------------
(* Every clock update ever makes is a map of ids to counters.              *)
THEOREM TypeCorrect == Spec => []TypeOK
<1>1. ClockInv => TypeOK
  BY DEF ClockInv
<1> QED
  BY <1>1, Invariance, PTL

(* Until a counter wraps, a clock's entry for a process is the number of   *)
(* events of that process behind it, whatever messages got lost or came    *)
(* twice.                                                                  *)
THEOREM Counting == Spec => []CountsEvents
<1>1. ClockInv => CountsEvents
  BY DEF ClockInv, CountsEvents, Truthful
<1> QED
  BY <1>1, Invariance, PTL

(* ge of partial_cmp is inclusion of the events behind two clocks, with    *)
(* zero entries and missing ones alike.                                    *)
LEMMA GeIsInclusion ==
    ASSUME NEW s \in Stamps, NEW t \in Stamps, NEW total,
           Truthful(s, total), Truthful(t, total)
    PROVE  ge(s.clock, t.clock) <=> t.past \subseteq s.past
<1> USE U32MaxAssumption
<1>1. \A id \in Keys : /\ Entry(s.clock, id) \in 0..U32Max
                       /\ Entry(t.clock, id) \in 0..U32Max
  BY EntryIs DEF Stamps
<1>2. DOMAIN s.clock \subseteq Keys /\ DOMAIN t.clock \subseteq Keys
  <2>1. \A c \in OrdinaryClocks : DOMAIN c \subseteq Keys
    BY DEF OrdinaryClocks
  <2> QED
    BY <2>1 DEF Stamps
<1>3. ge(s.clock, t.clock) <=>
        \A id \in Keys : Entry(t.clock, id) <= Entry(s.clock, id)
  <2>1. ASSUME NEW id \in Keys
        PROVE  Entry(t.clock, id) <= Entry(s.clock, id) <=>
                 (id \in DOMAIN t.clock /\ t.clock[id] # 0 =>
                    id \in DOMAIN s.clock /\ s.clock[id] >= t.clock[id])
    <3>1. CASE id \in DOMAIN t.clock /\ id \in DOMAIN s.clock
      BY <1>1, <3>1 DEF Entry
    <3>2. CASE id \notin DOMAIN t.clock
      BY <1>1, <3>2 DEF Entry
    <3>3. CASE id \in DOMAIN t.clock /\ id \notin DOMAIN s.clock
      BY <1>1, <3>3 DEF Entry
    <3> QED
      BY <3>1, <3>2, <3>3
  <2>2. ge(s.clock, t.clock) <=>
          \A id \in Keys : id \in DOMAIN t.clock /\ t.clock[id] # 0 =>
             id \in DOMAIN s.clock /\ s.clock[id] >= t.clock[id]
    BY <1>2 DEF ge
  <2> QED
    BY <2>1, <2>2
<1>4. ASSUME \A id \in Keys : Entry(t.clock, id) <= Entry(s.clock, id),
             NEW e \in t.past
      PROVE  e \in s.past
  <2>1. PICK id \in Keys, n \in 1..U32Max : e = <<id, n>>
    BY DEF Truthful
  <2>2. n <= Entry(t.clock, id)
    BY <2>1 DEF Truthful
  <2>3. n <= Entry(s.clock, id)
    BY <2>2, <1>1, <1>4
  <2> QED
    BY <2>1, <2>3 DEF Truthful
<1>5. ASSUME t.past \subseteq s.past, NEW id \in Keys
      PROVE  Entry(t.clock, id) <= Entry(s.clock, id)
  <2> DEFINE n == Entry(t.clock, id)
  <2>1. CASE n = 0
    BY <2>1, <1>1
  <2>2. CASE n # 0
    <3>1. n \in 1..U32Max /\ n <= n
      BY <2>2, <1>1
    <3> HIDE DEF n
    <3>2. <<id, n>> \in t.past
      BY <3>1 DEF Truthful, n
    <3>3. <<id, n>> \in s.past
      BY <3>2, <1>5
    <3>4. n <= Entry(s.clock, id)
      BY <3>1, <3>3 DEF Truthful
    <3> QED
      BY <3>4 DEF n
  <2> QED
    BY <2>1, <2>2
<1> QED
  BY <1>3, <1>4, <1>5

(* Until a counter wraps, partial_cmp decides causality for any number of  *)
(* processes, and is_genesis that nothing has happened yet.                *)
THEOREM OrderDecides == Spec => []OrderIsCausality
<1>1. ASSUME ClockInv, ~overflowed, NEW s \in Known, NEW t \in Known
      PROVE  /\ partial_cmp(s.clock, t.clock) =
                 CASE s.past = t.past -> "Equal"
                   [] t.past \subseteq s.past /\ s.past # t.past -> "Greater"
                   [] s.past \subseteq t.past /\ s.past # t.past -> "Less"
                   [] OTHER -> "None"
             /\ is_genesis(s.clock) <=> s.past = {}
  <2>1. s \in Stamps /\ t \in Stamps
    BY <1>1 DEF ClockInv, TypeOK, Known
  <2>2. Truthful(s, count) /\ Truthful(t, count)
    BY <1>1 DEF ClockInv
  <2>3. /\ ge(s.clock, t.clock) <=> t.past \subseteq s.past
        /\ ge(t.clock, s.clock) <=> s.past \subseteq t.past
    BY <2>1, <2>2, GeIsInclusion
  <2>4. s.past = t.past <=> (t.past \subseteq s.past /\ s.past \subseteq t.past)
    OBVIOUS
  <2>5. partial_cmp(s.clock, t.clock) =
          CASE s.past = t.past -> "Equal"
            [] t.past \subseteq s.past /\ s.past # t.past -> "Greater"
            [] s.past \subseteq t.past /\ s.past # t.past -> "Less"
            [] OTHER -> "None"
    <3>1. CASE t.past \subseteq s.past /\ s.past \subseteq t.past
      BY <3>1, <2>3, <2>4 DEF partial_cmp
    <3>2. CASE t.past \subseteq s.past /\ ~(s.past \subseteq t.past)
      BY <3>2, <2>3, <2>4 DEF partial_cmp
    <3>3. CASE ~(t.past \subseteq s.past) /\ s.past \subseteq t.past
      BY <3>3, <2>3, <2>4 DEF partial_cmp
    <3>4. CASE ~(t.past \subseteq s.past) /\ ~(s.past \subseteq t.past)
      BY <3>4, <2>3, <2>4 DEF partial_cmp
    <3> QED
      BY <3>1, <3>2, <3>3, <3>4
  <2>6. is_genesis(s.clock) <=> s.past = {}
    <3>1. /\ DOMAIN s.clock \subseteq Keys
          /\ \A id \in Keys : Entry(s.clock, id) \in 0..U32Max
      <4>1. \A c \in OrdinaryClocks : DOMAIN c \subseteq Keys
        BY DEF OrdinaryClocks
      <4> QED
        BY <2>1, <4>1, EntryIs DEF Stamps
    <3>2. is_genesis(s.clock) <=> \A id \in Keys : Entry(s.clock, id) = 0
      BY <3>1 DEF is_genesis, Entry
    <3>3. ASSUME \A id \in Keys : Entry(s.clock, id) = 0, NEW e \in s.past
          PROVE  FALSE
      <4>1. PICK id \in Keys, n \in 1..U32Max : e = <<id, n>>
        BY <2>2 DEF Truthful
      <4>2. n <= Entry(s.clock, id)
        BY <2>2, <4>1 DEF Truthful
      <4> QED
        BY <3>3, <4>2, U32MaxAssumption
    <3>4. ASSUME s.past = {}, NEW id \in Keys
          PROVE  Entry(s.clock, id) = 0
      <4>1. 1 \in 1..U32Max
        BY U32MaxAssumption
      <4>2. ~(1 <= Entry(s.clock, id))
        BY <2>2, <3>4, <4>1 DEF Truthful
      <4> QED
        BY <4>2, <3>1, U32MaxAssumption
    <3> QED
      BY <3>2, <3>3, <3>4
  <2> QED
    BY <2>5, <2>6
<1>2. ClockInv => OrderIsCausality
  BY <1>1 DEF OrderIsCausality
<1> QED
  BY <1>2, Invariance, PTL

(* Until a counter wraps, dep_cmp compares what two clocks know of one     *)
(* process, unless neither knows anything.                                 *)
THEOREM DepDecides == Spec => []DepComparesOne
<1> USE U32MaxAssumption
<1>1. ASSUME ClockInv, ~overflowed, NEW s \in Known, NEW t \in Known,
             NEW id \in Keys, NEW ofs, NEW oft,
             ofs = EventsOf(s, id), oft = EventsOf(t, id),
             ofs \union oft # {}
      PROVE  dep_cmp(s.clock, t.clock, id) =
                 CASE ofs = oft -> "Equal"
                   [] oft \subseteq ofs /\ ofs # oft -> "Greater"
                   [] OTHER -> "Less"
  <2>1. s \in Stamps /\ t \in Stamps
    BY <1>1 DEF ClockInv, TypeOK, Known
  <2>2. Truthful(s, count) /\ Truthful(t, count)
    BY <1>1 DEF ClockInv
  <2> DEFINE a == Entry(s.clock, id)
             b == Entry(t.clock, id)
  <2>3. a \in 0..U32Max /\ b \in 0..U32Max
    BY <2>1, EntryIs DEF Stamps
  <2>4. \A e \in ofs \union oft : \E n \in 1..U32Max : e = <<id, n>>
    <3> SUFFICES ASSUME NEW e \in ofs \union oft
                 PROVE  \E n \in 1..U32Max : e = <<id, n>>
      OBVIOUS
    <3>1. e \in Keys \X (1..U32Max) /\ e[1] = id
      BY <1>1, <2>2 DEF Truthful, EventsOf
    <3> QED
      BY <3>1
  <2>5. \A n \in 1..U32Max : /\ <<id, n>> \in ofs <=> n <= a
                             /\ <<id, n>> \in oft <=> n <= b
    BY <1>1, <2>2 DEF Truthful, EventsOf
  <2>6. dep_cmp(s.clock, t.clock, id) =
          IF a < b THEN "Less" ELSE IF a = b THEN "Equal" ELSE "Greater"
    <3>1. a > 0 \/ b > 0
      <4>1. PICK e \in ofs \union oft : TRUE
        BY <1>1
      <4>2. PICK n \in 1..U32Max : e = <<id, n>>
        BY <2>4
      <4>3. n <= a \/ n <= b
        BY <4>1, <4>2, <2>5
      <4> HIDE DEF a, b
      <4> QED
        BY <4>3, <2>3
    <3>2. CASE id \in DOMAIN s.clock /\ id \in DOMAIN t.clock
      BY <3>2 DEF dep_cmp, Entry
    <3>3. CASE id \notin DOMAIN s.clock
      <4>1. a = 0
        BY <3>3 DEF Entry
      <4>2. id \in DOMAIN t.clock
        BY <3>1, <4>1 DEF Entry
      <4>3. dep_cmp(s.clock, t.clock, id) = "Less"
        BY <3>3, <4>2 DEF dep_cmp
      <4> HIDE DEF a, b
      <4> QED
        BY <4>1, <4>3, <3>1
    <3>4. CASE id \in DOMAIN s.clock /\ id \notin DOMAIN t.clock
      <4>1. b = 0
        BY <3>4 DEF Entry
      <4>2. dep_cmp(s.clock, t.clock, id) = "Greater"
        BY <3>4 DEF dep_cmp
      <4> HIDE DEF a, b
      <4> QED
        BY <4>1, <4>2, <3>1, <2>3
    <3> QED
      BY <3>2, <3>3, <3>4
  <2> HIDE DEF a, b
  <2>7. CASE a = b
    <3>1. ofs = oft
      BY <2>4, <2>5, <2>7
    <3> QED
      BY <3>1, <2>6, <2>7, <2>3
  <2>8. CASE a < b
    <3>1. b \in 1..U32Max /\ <<id, b>> \in oft /\ <<id, b>> \notin ofs
      BY <2>3, <2>5, <2>8
    <3>2. ofs # oft /\ ~(oft \subseteq ofs)
      BY <3>1
    <3> QED
      BY <3>2, <2>6, <2>8
  <2>9. CASE b < a
    <3>1. a \in 1..U32Max /\ <<id, a>> \in ofs /\ <<id, a>> \notin oft
      BY <2>3, <2>5, <2>9
    <3>2. oft \subseteq ofs
      <4> SUFFICES ASSUME NEW e \in oft PROVE e \in ofs
        OBVIOUS
      <4>1. PICK n \in 1..U32Max : e = <<id, n>>
        BY <2>4
      <4> QED
        BY <4>1, <2>3, <2>5, <2>9
    <3>3. ofs # oft
      BY <3>1
    <3>4. ~(a < b) /\ a # b
      BY <2>3, <2>9
    <3> QED
      BY <3>2, <3>3, <3>4, <2>6
  <2> QED
    BY <2>3, <2>7, <2>8, <2>9
<1>2. ClockInv => DepComparesOne
  <2> SUFFICES ASSUME ClockInv PROVE DepComparesOne
    OBVIOUS
  <2> QED
    BY <1>1 DEF DepComparesOne
<1> QED
  BY <1>2, Invariance, PTL

(* merge_all is what folding merge comes to: one clock is itself, and one  *)
(* more clock is one more merge.                                           *)
THEOREM FoldsMerge ==
    ASSUME NEW S, S \subseteq OrdinaryClocks, S # {},
           NEW d \in OrdinaryClocks
    PROVE  /\ merge_all({d}) = d
           /\ merge_all(S \union {d}) = merge(merge_all(S), d)
<1> USE U32MaxAssumption
<1> DEFINE D(A) == UNION {DOMAIN c : c \in A}
           V(A, id) == {c[id] : c \in {e \in A : id \in DOMAIN e}}
<1>1. \A A : merge_all(A) = [id \in D(A) |-> Largest(V(A, id))]
  BY DEF merge_all
<1>2. \A c \in S \union {d} : c \in [DOMAIN c -> 0..U32Max]
  BY DEF OrdinaryClocks
<1>3. \A Vs, v : Vs \subseteq 0..U32Max /\ v \in Vs /\ (\A w \in Vs : w <= v)
                  => Largest(Vs) = v
  <2> SUFFICES ASSUME NEW Vs, NEW v, Vs \subseteq 0..U32Max, v \in Vs,
                      \A w \in Vs : w <= v
               PROVE  Largest(Vs) = v
    OBVIOUS
  <2>1. Largest(Vs) \in Vs /\ \A w \in Vs : w <= Largest(Vs)
    BY LargestIs
  <2>2. Largest(Vs) <= v /\ v <= Largest(Vs)
    BY <2>1
  <2>3. Largest(Vs) \in 0..U32Max /\ v \in 0..U32Max
    BY <2>1
  <2> QED
    BY <2>2, <2>3
<1>4. merge_all({d}) = d
  <2>1. D({d}) = DOMAIN d
    OBVIOUS
  <2>2. \A id \in DOMAIN d : V({d}, id) = {d[id]}
    OBVIOUS
  <2>3. \A id \in DOMAIN d : Largest(V({d}, id)) = d[id]
    <3> TAKE id \in DOMAIN d
    <3>1. d[id] \in 0..U32Max
      BY <1>2
    <3>2. V({d}, id) \subseteq 0..U32Max /\ d[id] \in V({d}, id)
            /\ \A w \in V({d}, id) : w <= d[id]
      <4> HIDE DEF V
      <4> QED
        BY <2>2, <3>1
    <3> HIDE DEF V
    <3> QED
      BY <3>2, <1>3
  <2>4. merge_all({d}) = [id \in DOMAIN d |-> Largest(V({d}, id))]
    <3> HIDE DEF V, D
    <3> QED
      BY <1>1, <2>1
  <2>5. d = [id \in DOMAIN d |-> d[id]]
    BY <1>2
  <2> HIDE DEF V
  <2> QED
    BY <2>3, <2>4, <2>5
<1>5. merge_all(S \union {d}) = merge(merge_all(S), d)
  <2> DEFINE B == S \union {d}
             m == merge_all(S)
  <2>1. D(B) = D(S) \union DOMAIN d
    OBVIOUS
  <2>2. DOMAIN m = D(S) /\ \A id \in D(S) : m[id] = Largest(V(S, id))
    <3> HIDE DEF V, D
    <3> QED
      BY <1>1
  <2>3. \A id \in D(S) : V(S, id) \subseteq 0..U32Max /\ V(S, id) # {}
    BY <1>2
  <2>4. \A id \in D(S) : /\ m[id] \in V(S, id)
                         /\ m[id] \in 0..U32Max
                         /\ \A w \in V(S, id) : w <= m[id]
    <3> TAKE id \in D(S)
    <3>1. V(S, id) \subseteq 0..U32Max /\ V(S, id) # {}
      BY <2>3
    <3> HIDE DEF V, D, m
    <3> QED
      BY <3>1, <2>2, LargestIs
  <2>5. \A id : id \notin D(S) => V(S, id) = {}
    OBVIOUS
  <2>6. \A id : V(B, id) = V(S, id) \union
                            (IF id \in DOMAIN d THEN {d[id]} ELSE {})
    OBVIOUS
  <2> DEFINE g(id) == IF id \in D(S) /\ id \in DOMAIN d
                        THEN IF m[id] >= d[id] THEN m[id] ELSE d[id]
                        ELSE IF id \in D(S) THEN m[id] ELSE d[id]
  <2>7. ASSUME NEW id \in D(B) PROVE Largest(V(B, id)) = g(id)
    <3>1. id \in DOMAIN d => d[id] \in 0..U32Max
      BY <1>2
    <3>2. id \in D(S) \/ id \in DOMAIN d
      <4> HIDE DEF D
      <4> QED
        BY <2>1
    <3>3. /\ V(B, id) \subseteq 0..U32Max
          /\ g(id) \in V(B, id)
          /\ \A w \in V(B, id) : w <= g(id)
      <4> HIDE DEF V, D, m, B
      <4>1. CASE id \in D(S) /\ id \in DOMAIN d
        <5>1. V(B, id) = V(S, id) \union {d[id]}
          BY <4>1, <2>6
        <5>2. g(id) \in V(B, id) /\ g(id) >= m[id] /\ g(id) >= d[id]
                /\ g(id) \in 0..U32Max
          BY <4>1, <5>1, <2>4, <3>1
        <5> QED
          BY <4>1, <5>1, <5>2, <2>3, <2>4, <3>1
      <4>2. CASE id \in D(S) /\ id \notin DOMAIN d
        BY <4>2, <2>3, <2>4, <2>6
      <4>3. CASE id \notin D(S) /\ id \in DOMAIN d
        <5>1. V(B, id) = {d[id]}
          BY <4>3, <2>5, <2>6
        <5> QED
          BY <4>3, <5>1, <3>1
      <4> QED
        BY <4>1, <4>2, <4>3, <3>2
    <3> HIDE DEF V, D, B, g
    <3> QED
      BY <3>3, <1>3
  <2>8. merge_all(B) = [id \in D(B) |-> g(id)]
    <3>1. merge_all(B) = [id \in D(B) |-> Largest(V(B, id))]
      <4> HIDE DEF D, V, B
      <4> QED
        BY <1>1
    <3> HIDE DEF D, V, B, g
    <3> QED
      BY <3>1, <2>7
  <2>9. merge(m, d) = [id \in D(S) \union DOMAIN d |-> g(id)]
    <3> HIDE DEF D, m
    <3> QED
      BY <2>2 DEF merge
  <2> HIDE DEF D, g, m
  <2> QED
    BY <2>1, <2>8, <2>9 DEF m
<1> QED
  BY <1>4, <1>5

-----------------------------------------------------------------------------
(* The sum of reduce.  It is a fold over the ids of a clock, in an order   *)
(* nobody knows, and it is the number of events behind the clock.          *)

Pick(A) == CHOOSE x \in A : TRUE

(* What the fold asks of the function it recurs on.                        *)
FoldsCounters(g, c) ==
    g = [A \in SUBSET DOMAIN c |->
            IF A = {} THEN 0 ELSE c[Pick(A)] + g[A \ {Pick(A)}]]

LEMMA ReduceFolds ==
    ASSUME NEW c
    PROVE  reduce(c) = (CHOOSE g : FoldsCounters(g, c))[DOMAIN c] % (U32Max + 1)
BY Zenon DEF reduce, MapThenSumSet, MapThenFoldSet, Pick, FoldsCounters

(* At most one function folds the counters of a clock: two of them have no *)
(* smallest set of ids on which they differ.                               *)
LEMMA FoldIsUnique ==
    ASSUME NEW c, IsFiniteSet(DOMAIN c), NEW g, NEW h,
           FoldsCounters(g, c), FoldsCounters(h, c),
           NEW A \in SUBSET DOMAIN c
    PROVE  g[A] = h[A]
<1> DEFINE D == DOMAIN c
           Bad == {B \in SUBSET D : g[B] # h[B]}
           R == StrictSubsetOrdering(D)
<1>1. \A B \in SUBSET D : g[B] = IF B = {} THEN 0 ELSE c[Pick(B)] + g[B \ {Pick(B)}]
  BY Zenon DEF FoldsCounters
<1>2. \A B \in SUBSET D : h[B] = IF B = {} THEN 0 ELSE c[Pick(B)] + h[B \ {Pick(B)}]
  BY Zenon DEF FoldsCounters
<1>3. SUFFICES ASSUME Bad # {} PROVE FALSE
  OBVIOUS
<1>4. IsWellFoundedOn(R, SUBSET D)
  BY FS_StrictSubsetOrderingWellFounded, FS_FiniteSubsetsOfFinite
<1>5. PICK B \in Bad : \A C \in Bad : ~(<<C, B>> \in R)
  <2>1. Bad \subseteq SUBSET D
    OBVIOUS
  <2> HIDE DEF Bad, R, D
  <2> QED
    BY <1>3, <1>4, <2>1, WFMin
<1>6. B # {}
  BY <1>1, <1>2, <1>5
<1> DEFINE C == B \ {Pick(B)}
<1>7. Pick(B) \in B
  BY <1>6 DEF Pick
<1>8. C \in SUBSET D /\ C \subseteq B /\ C # B
  BY <1>7
<1>9. <<C, B>> \in R
  BY <1>8 DEF StrictSubsetOrdering
<1>10. g[C] = h[C]
  BY <1>5, <1>8, <1>9
<1>11. g[B] = c[Pick(B)] + g[C] /\ h[B] = c[Pick(B)] + h[C]
  BY <1>1, <1>2, <1>6
<1> QED
  BY <1>5, <1>10, <1>11

(* The events of one process, first to last: as many as its entry says.    *)
LEMMA EventsOfOne ==
    ASSUME NEW id, NEW n \in Nat
    PROVE  LET E == {<<id, k>> : k \in 1..n}
           IN  IsFiniteSet(E) /\ Cardinality(E) = n
<1> DEFINE E == {<<id, k>> : k \in 1..n}
           f == [k \in 1..n |-> <<id, k>>]
<1>1. f \in Bijection(1..n, E)
  <2>1. f \in [1..n -> E]
    OBVIOUS
  <2>2. \A a, b \in 1..n : f[a] = f[b] => a = b
    OBVIOUS
  <2>3. \A e \in E : \E k \in 1..n : f[k] = e
    OBVIOUS
  <2> HIDE DEF E, f
  <2> QED
    BY <2>1, <2>2, <2>3 DEF Bijection, Injection, Surjection, IsInjective
<1>2. ExistsBijection(1..n, E)
  <2> HIDE DEF E, f
  <2> QED
    BY <1>1 DEF ExistsBijection
<1>3. IsFiniteSet(1..n) /\ Cardinality(1..n) = n
  <2>1. 1 \in Int /\ n \in Int /\ (IF 1 > n THEN 0 ELSE n - 1 + 1) = n
    OBVIOUS
  <2> QED
    BY <2>1, FS_Interval
<1> HIDE DEF E
<1>4. IsFiniteSet(E) /\ Cardinality(E) = n
  BY <1>2, <1>3, FS_Bijection
<1> QED
  BY <1>4 DEF E

(* The number of events of some of the processes folds the counters: one   *)
(* more process adds as many events as its counter says.                   *)
LEMMA CountFolds ==
    ASSUME NEW s \in Stamps, NEW total, Truthful(s, total)
    PROVE  LET count_of == [A \in SUBSET DOMAIN s.clock |->
                               Cardinality({e \in s.past : e[1] \in A})]
           IN  /\ IsFiniteSet(s.past)
               /\ IsFiniteSet(DOMAIN s.clock)
               /\ FoldsCounters(count_of, s.clock)
               /\ count_of[DOMAIN s.clock] = Cardinality(s.past)
<1> USE U32MaxAssumption
<1> DEFINE c == s.clock
           D == DOMAIN c
           Of(A) == {e \in s.past : e[1] \in A}
           count_of == [A \in SUBSET D |-> Cardinality(Of(A))]
<1>1. /\ D \subseteq Keys
      /\ \A id \in D : c[id] = Entry(c, id) /\ c[id] \in 0..U32Max
      /\ \A id \in Keys : id \notin D => Entry(c, id) = 0
  <2>1. c \in OrdinaryClocks
    BY DEF Stamps
  <2>2. D \subseteq Keys /\ c \in [D -> 0..U32Max]
    <3>1. PICK S \in SUBSET Keys : c \in [S -> 0..U32Max]
      BY <2>1 DEF OrdinaryClocks
    <3> QED
      BY <3>1
  <2> HIDE DEF c
  <2> QED
    BY <2>2 DEF Entry
<1>2. s.past \subseteq Keys \X (1..U32Max)
  BY DEF Truthful
<1>3. IsFiniteSet(D)
  BY <1>1, KeysAssumption, FS_Subset
<1>4. IsFiniteSet(s.past)
  <2>1. IsFiniteSet(1..U32Max)
    BY FS_Interval
  <2>2. IsFiniteSet(Keys \X (1..U32Max))
    BY <2>1, KeysAssumption, FS_Product
  <2> QED
    BY <1>2, <2>2, FS_Subset
<1>5. \A A : IsFiniteSet(Of(A))
  BY <1>4, FS_Subset
<1>6. ASSUME NEW id \in D
      PROVE  Of({id}) = {<<id, k>> : k \in 1..c[id]}
  <2>1. c[id] \in 0..U32Max /\ c[id] = Entry(c, id) /\ id \in Keys
    BY <1>1
  <2>2. \A n \in 1..U32Max : <<id, n>> \in s.past <=> n <= c[id]
    BY <2>1 DEF Truthful
  <2> HIDE DEF c
  <2>3. ASSUME NEW e \in Of({id}) PROVE e \in {<<id, k>> : k \in 1..c[id]}
    <3>1. e \in Keys \X (1..U32Max) /\ e[1] = id /\ e \in s.past
      BY <1>2, <2>3
    <3>2. e[2] \in 1..U32Max /\ e = <<id, e[2]>>
      BY <3>1
    <3>3. e[2] <= c[id]
      BY <2>2, <3>1, <3>2
    <3>4. e[2] \in 1..c[id]
      BY <2>1, <3>2, <3>3
    <3> QED
      BY <3>2, <3>4
  <2>4. ASSUME NEW k \in 1..c[id] PROVE <<id, k>> \in Of({id})
    <3>1. k \in 1..U32Max /\ k <= c[id]
      BY <2>1
    <3>2. <<id, k>> \in s.past
      BY <2>2, <3>1
    <3> QED
      BY <3>2
  <2> QED
    BY <2>3, <2>4
<1>7. ASSUME NEW A \in SUBSET D, NEW id \in A
      PROVE  Cardinality(Of(A)) = c[id] + Cardinality(Of(A \ {id}))
  <2> DEFINE one == Of({id})
             rest == Of(A \ {id})
  <2>1. Of(A) = one \union rest /\ one \intersect rest = {}
    OBVIOUS
  <2>2. c[id] \in Nat
    BY <1>1
  <2>3. IsFiniteSet(one) /\ Cardinality(one) = c[id]
    <3>1. one = {<<id, k>> : k \in 1..c[id]}
      BY <1>6
    <3> HIDE DEF one, c
    <3> QED
      BY <2>2, <3>1, EventsOfOne
  <2>4. IsFiniteSet(rest)
    BY <1>5
  <2> HIDE DEF one, rest, c, D, Of
  <2>5. Cardinality(one \union rest) = Cardinality(one) + Cardinality(rest) - Cardinality(one \intersect rest)
    BY <2>3, <2>4, FS_Union
  <2>6. Cardinality(one \intersect rest) = 0
    BY <2>1, FS_EmptySet
  <2>7. Cardinality(rest) \in Nat
    BY <2>4, FS_CardinalityType
  <2> QED
    BY <2>1, <2>2, <2>3, <2>5, <2>6, <2>7 DEF rest
<1>8. Cardinality(Of({})) = 0
  <2>1. Of({}) = {}
    OBVIOUS
  <2> QED
    BY <2>1, FS_EmptySet
<1>9. Of(D) = s.past
  <2> SUFFICES ASSUME NEW e \in s.past PROVE e[1] \in D
    OBVIOUS
  <2>1. PICK id \in Keys, n \in 1..U32Max : e = <<id, n>>
    BY <1>2
  <2>2. n <= Entry(c, id)
    BY <2>1 DEF Truthful
  <2>3. Entry(c, id) # 0
    BY <2>2
  <2> HIDE DEF c
  <2> QED
    BY <1>1, <2>1, <2>3
<1>10. FoldsCounters(count_of, c)
  <2> DEFINE step(A) == IF A = {} THEN 0 ELSE c[Pick(A)] + count_of[A \ {Pick(A)}]
  <2>1. ASSUME NEW A \in SUBSET D PROVE count_of[A] = step(A)
    <3>1. CASE A = {}
      <4>1. count_of[A] = Cardinality(Of({}))
        BY <3>1
      <4> HIDE DEF count_of, Of
      <4> QED
        BY <3>1, <4>1, <1>8
    <3>2. CASE A # {}
      <4>1. Pick(A) \in A
        BY <3>2 DEF Pick
      <4>2. A \ {Pick(A)} \in SUBSET D
        OBVIOUS
      <4>3. count_of[A] = Cardinality(Of(A)) /\ count_of[A \ {Pick(A)}] = Cardinality(Of(A \ {Pick(A)}))
        <5> HIDE DEF Of
        <5> QED
          BY <4>2
      <4> HIDE DEF count_of, Of, c, D
      <4>4. Cardinality(Of(A)) = c[Pick(A)] + Cardinality(Of(A \ {Pick(A)}))
        BY <4>1, <1>7
      <4> QED
        BY <3>2, <4>3, <4>4
    <3> QED
      BY <3>1, <3>2
  <2>2. count_of = [A \in SUBSET D |-> count_of[A]]
    <3> HIDE DEF Of, D
    <3> QED
      OBVIOUS
  <2>3. count_of = [A \in SUBSET D |-> step(A)]
    <3> HIDE DEF count_of, step, D
    <3> QED
      BY <2>1, <2>2
  <2> HIDE DEF count_of, c
  <2> QED
    BY <2>3, Zenon DEF FoldsCounters
<1>11. count_of[D] = Cardinality(s.past)
  <2>1. count_of[D] = Cardinality(Of(D))
    <3> HIDE DEF Of, D
    <3> QED
      OBVIOUS
  <2> HIDE DEF count_of, Of, D
  <2> QED
    BY <1>9, <2>1
<1> QED
  BY <1>3, <1>4, <1>10, <1>11

(* So reduce is the number of events behind a clock, as a u32.             *)
THEOREM ReduceCounts ==
    ASSUME NEW s \in Stamps, NEW total, Truthful(s, total)
    PROVE  /\ IsFiniteSet(s.past)
           /\ reduce(s.clock) = Cardinality(s.past) % (U32Max + 1)
<1> DEFINE count_of == [A \in SUBSET DOMAIN s.clock |->
                           Cardinality({e \in s.past : e[1] \in A})]
           sum == CHOOSE g : FoldsCounters(g, s.clock)
<1>1. /\ IsFiniteSet(s.past) /\ IsFiniteSet(DOMAIN s.clock)
      /\ FoldsCounters(count_of, s.clock)
      /\ count_of[DOMAIN s.clock] = Cardinality(s.past)
  BY CountFolds
<1> HIDE DEF count_of
<1>2. FoldsCounters(sum, s.clock)
  BY <1>1
<1>3. reduce(s.clock) = sum[DOMAIN s.clock] % (U32Max + 1)
  BY ReduceFolds
<1> HIDE DEF sum
<1>4. sum[DOMAIN s.clock] = count_of[DOMAIN s.clock]
  BY <1>1, <1>2, FoldIsUnique
<1> QED
  BY <1>1, <1>3, <1>4

(* Until a counter wraps, reduce is a Lamport clock, for any number of     *)
(* processes: it grows along causality as long as the sum fits into a u32. *)
THEOREM ReduceGrows == Spec => []ReduceIsLamport
<1>1. ASSUME ClockInv, ~overflowed, NEW s \in Known, NEW t \in Known,
             s.past \subseteq t.past, s.past # t.past,
             Cardinality(t.past) <= U32Max
      PROVE  reduce(s.clock) < reduce(t.clock)
  <2>1. s \in Stamps /\ t \in Stamps
    BY <1>1 DEF ClockInv, TypeOK, Known
  <2>2. Truthful(s, count) /\ Truthful(t, count)
    BY <1>1 DEF ClockInv
  <2>3. /\ reduce(s.clock) = Cardinality(s.past) % (U32Max + 1)
        /\ reduce(t.clock) = Cardinality(t.past) % (U32Max + 1)
        /\ IsFiniteSet(t.past) /\ IsFiniteSet(s.past)
    BY <2>1, <2>2, ReduceCounts
  <2> DEFINE a == Cardinality(s.past)
             b == Cardinality(t.past)
  <2>4. a \in Nat /\ b \in Nat
    BY <2>3, FS_CardinalityType
  <2>5. a <= b /\ a # b
    BY <1>1, <2>3, FS_Subset
  <2> HIDE DEF a, b
  <2>6. b <= U32Max
    BY <1>1 DEF b
  <2>7. a % (U32Max + 1) = a /\ b % (U32Max + 1) = b
    BY <2>4, <2>5, <2>6, U32MaxAssumption
  <2> QED
    BY <2>3, <2>4, <2>5, <2>7 DEF a, b
<1>2. ClockInv => ReduceIsLamport
  BY <1>1 DEF ReduceIsLamport
<1> QED
  BY <1>2, Invariance, PTL
=============================================================================
