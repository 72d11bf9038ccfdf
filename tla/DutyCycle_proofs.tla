-------------------------- MODULE DutyCycle_proofs --------------------------
(***************************************************************************)
(* Proofs about the transmission guard, for any number of terminals,       *)
(* limit, window and length of transmissions: its types, that a            *)
(* transmission starts below the limit, what an hour of the radio holds at *)
(* most, and that a rest of an hour is enough.                             *)
(*                                                                         *)
(* What a list yields (Kept, Usage) is proved by induction over the        *)
(* subsets of its places (AllSubsets).  The invariant has a part that      *)
(* holds whatever happens (Ground) and one that holds while invocations    *)
(* follow each other undisturbed (Undisturbed): then the list, whichever   *)
(* of its copies is the valid one, accounts for every recent unit of       *)
(* transmission, so that its usage bounds the air time (UsageBounds).      *)
(***************************************************************************)
EXTENDS DutyCycle, FiniteSetTheorems, TLAPS

-----------------------------------------------------------------------------
(* Induction without operators: the least counterexample is an element of  *)
(* a set.                                                                  *)

LEMMA LeastNumber ==
  ASSUME NEW T \in SUBSET Nat, T # {}
  PROVE  \E n \in T : \A m \in T : ~(m < n)
<1>1. PICK n \in T : \A m \in T : <<m, n>> \notin OpToRel(<, Nat)
  BY NatLessThanWellFounded, WFMin
<1>2. \A m \in T : m < n => <<m, n>> \in OpToRel(<, Nat)
  BY DEF OpToRel
<1>3. QED
  BY <1>1, <1>2

(* A set of numbers that holds 0 and every successor holds them all.       *)
LEMMA AllNumbers ==
  ASSUME NEW B, 0 \in B, \A n \in Nat : n \in B => n + 1 \in B
  PROVE  Nat \subseteq B
<1> SUFFICES ASSUME Nat \ B # {} PROVE FALSE
  OBVIOUS
<1>1. PICK n \in Nat \ B : \A m \in Nat \ B : ~(m < n)
  BY LeastNumber
<1>2. n - 1 \in Nat /\ n - 1 < n /\ (n - 1) + 1 = n
  BY <1>1
<1>3. n - 1 \in B
  BY <1>1, <1>2
<1>4. QED
  BY <1>1, <1>2, <1>3

(* The same for the subsets of a finite set, one element at a time.        *)
LEMMA AllSubsets ==
  ASSUME NEW S, IsFiniteSet(S), NEW B, {} \in B,
         \A T \in SUBSET S : T # {} /\ (\A x \in T : T \ {x} \in B) => T \in B
  PROVE  SUBSET S \subseteq B
<1> DEFINE N == {n \in Nat : \A T \in SUBSET S : Cardinality(T) = n => T \in B}
<1>1. \A T \in SUBSET S : IsFiniteSet(T) /\ Cardinality(T) \in Nat
  BY FS_Subset, FS_CardinalityType
<1>2. 0 \in N
  BY <1>1, FS_EmptySet
<1>3. ASSUME NEW n \in Nat, n \in N PROVE n + 1 \in N
  <2> SUFFICES ASSUME NEW T \in SUBSET S, Cardinality(T) = n + 1 PROVE T \in B
    OBVIOUS
  <2>1. T # {}
    <3>1. n + 1 # 0 /\ Cardinality({}) = 0
      BY FS_EmptySet
    <3>2. QED
      BY <3>1
  <2>2. ASSUME NEW x \in T PROVE T \ {x} \in B
    <3>1. Cardinality(T \ {x}) = n
      BY <1>1, <1>3, FS_RemoveElement
    <3>2. QED
      BY <1>3, <3>1
  <2>3. QED
    BY <2>1, <2>2
<1>4. Nat \subseteq N
  <2> HIDE DEF N
  <2> QED
    BY <1>2, <1>3, AllNumbers
<1>5. QED
  BY <1>1, <1>4

(* A finite set of numbers has a greatest.                                 *)
LEMMA Greatest ==
  ASSUME NEW S \in SUBSET Nat, IsFiniteSet(S), NEW s \in SUBSET S, s # {}
  PROVE  \E x \in s : \A y \in s : x >= y
<1> DEFINE B == {T \in SUBSET S : T # {} => \E x \in T : \A y \in T : x >= y}
<1>1. {} \in B
  OBVIOUS
<1>2. ASSUME NEW T \in SUBSET S, T # {}, \A x \in T : T \ {x} \in B PROVE T \in B
  <2>1. PICK z \in T : TRUE
    BY <1>2
  <2>2. CASE T = {z}
    BY <2>2
  <2>3. CASE T \ {z} # {}
    <3>1. PICK x \in T \ {z} : \A y \in T \ {z} : x >= y
      BY <1>2, <2>3
    <3>2. CASE x >= z
      BY <3>1, <3>2
    <3>3. CASE z >= x
      BY <3>1, <3>3
    <3>4. QED
      BY <3>1, <3>2, <3>3
  <2>4. QED
    BY <2>1, <2>2, <2>3
<1>3. SUBSET S \subseteq B
  <2> HIDE DEF B
  <2> QED BY <1>1, <1>2, AllSubsets
<1>4. QED
  BY <1>3
-----------------------------------------------------------------------------
(* Folds.                                                                  *)

(* c chooses an element of every subset, and g combines it with the fold   *)
(* of the others.                                                          *)
Chooses(c, S) == \A T \in SUBSET S : T # {} => c[T] \in T
IsFold(f, S, c, base, g) ==
  \A T \in SUBSET S : f[T] = IF T = {} THEN base ELSE g[c[T]][f[T \ {c[T]}]]

(* A fold over a finite set is defined.                                    *)
LEMMA FoldExists ==
  ASSUME NEW S, IsFiniteSet(S), NEW c, Chooses(c, S),
         NEW A, NEW base \in A, NEW g \in [S -> [A -> A]]
  PROVE  \E f \in [SUBSET S -> A] : IsFold(f, S, c, base, g)
<1> DEFINE G(f, T) == IF T = {} THEN base ELSE g[c[T]][f[T \ {c[T]}]]
           P(n) == \E f \in [SUBSET S -> A] : \A T \in SUBSET S : Cardinality(T) <= n => f[T] = G(f, T)
           N == {n \in Nat : P(n)}
<1> USE DEF Chooses
<1>1. \A T \in SUBSET S : IsFiniteSet(T) /\ Cardinality(T) \in Nat
                          /\ Cardinality(T) <= Cardinality(S)
  BY FS_Subset, FS_CardinalityType
<1>2. 0 \in N
  <2>1. [T \in SUBSET S |-> base] \in [SUBSET S -> A]
    OBVIOUS
  <2>2. \A T \in SUBSET S : Cardinality(T) <= 0 => T = {}
    BY <1>1, FS_EmptySet
  <2>3. QED
    BY <2>1, <2>2
<1>3. ASSUME NEW n \in Nat, n \in N PROVE n + 1 \in N
  <2>1. PICK f \in [SUBSET S -> A] : \A T \in SUBSET S : Cardinality(T) <= n => f[T] = G(f, T)
    BY <1>3
  <2>2. \A T \in SUBSET S : G(f, T) \in A
    <3> SUFFICES ASSUME NEW T \in SUBSET S, T # {} PROVE g[c[T]][f[T \ {c[T]}]] \in A
      OBVIOUS
    <3>1. c[T] \in S /\ T \ {c[T]} \in SUBSET S
      OBVIOUS
    <3>2. f[T \ {c[T]}] \in A
      BY <3>1
    <3>3. QED
      BY <3>1, <3>2
  <2> DEFINE h == [T \in SUBSET S |-> IF Cardinality(T) <= n THEN f[T] ELSE G(f, T)]
  <2>3. h \in [SUBSET S -> A]
    BY <2>2
  <2>4. ASSUME NEW T \in SUBSET S, Cardinality(T) <= n + 1 PROVE h[T] = G(h, T)
    <3>1. h[T] = G(f, T)
      BY <2>1
    <3>2. ASSUME T # {} PROVE h[T \ {c[T]}] = f[T \ {c[T]}]
      <4>1. Cardinality(T \ {c[T]}) = Cardinality(T) - 1
        BY <1>1, <3>2, FS_RemoveElement
      <4>2. Cardinality(T \ {c[T]}) <= n /\ T \ {c[T]} \in SUBSET S
        BY <1>1, <2>4, <4>1
      <4>3. QED
        BY <4>2
    <3>3. QED
      BY <3>1, <3>2
  <2>5. P(n + 1)
    <3> HIDE DEF h
    <3> QED BY <2>3, <2>4
  <2>6. QED
    <3> HIDE DEF P
    <3> QED BY <2>5
<1>4. Nat \subseteq N
  <2> HIDE DEF N
  <2> QED
    BY <1>2, <1>3, AllNumbers
<1>5. Cardinality(S) \in N
  BY <1>1, <1>4
<1>6. QED
  BY <1>1, <1>5 DEF IsFold

(* The numbers of a list's entries.                                        *)
LEMMA Places ==
  ASSUME NEW A, NEW list \in Seq(A)
  PROVE  /\ Len(list) \in Nat /\ DOMAIN list = 1..Len(list) /\ IsFiniteSet(DOMAIN list)
         /\ \A i \in DOMAIN list : list[i] \in A
  BY FS_Interval

(* Usage adds up the seconds of the entries, in some order.                *)
LEMMA UsageIs ==
  ASSUME NEW list \in Seq(Record)
  PROVE  \E f \in [SUBSET DOMAIN list -> Nat] :
           /\ f[{}] = 0 /\ Usage(list) = f[DOMAIN list]
           /\ \A T \in SUBSET DOMAIN list : T # {} =>
                \E x \in T : f[T] = list[x].seconds + f[T \ {x}]
<1> DEFINE D == DOMAIN list
           F(f) == [s \in SUBSET D |-> IF s = {} THEN 0
                      ELSE list[CHOOSE x \in s : TRUE].seconds + f[s \ {CHOOSE x \in s : TRUE}]]
           iter == CHOOSE f : f = F(f)
           c == [s \in SUBSET D |-> CHOOSE x \in s : TRUE]
           g == [i \in D |-> [sum \in Nat |-> list[i].seconds + sum]]
<1>1. Usage(list) = iter[D]
  BY DEF Usage, FoldSeq, FoldFunction, FoldFunctionOnSet, MapThenFoldSet
<1>2. \A i \in D : list[i].seconds \in Nat
  <2>1. \A i \in D : list[i] \in Record
    BY Places
  <2>2. \A r \in Record : r.seconds \in Nat
    BY DutyAssumption DEF Record
  <2>3. QED
    BY <2>1, <2>2
<1>3. IsFiniteSet(D) /\ g \in [D -> [Nat -> Nat]] /\ Chooses(c, D)
  BY <1>2, Places DEF Chooses
<1>4. PICK f \in [SUBSET D -> Nat] : IsFold(f, D, c, 0, g)
  <2>1. 0 \in Nat
    OBVIOUS
  <2> HIDE DEF c, g, D
  <2> QED BY <1>3, <2>1, FoldExists
<1>5. ASSUME NEW T \in SUBSET D, T # {}
      PROVE  /\ (CHOOSE x \in T : TRUE) \in T
             /\ f[T] = list[CHOOSE x \in T : TRUE].seconds + f[T \ {CHOOSE x \in T : TRUE}]
  <2>1. c[T] = (CHOOSE x \in T : TRUE) /\ c[T] \in T
    BY <1>3, <1>5 DEF Chooses
  <2>2. f[T \ {c[T]}] \in Nat
    BY <1>4
  <2>3. g[c[T]][f[T \ {c[T]}]] = list[c[T]].seconds + f[T \ {c[T]}]
    BY <2>1, <2>2
  <2>4. QED
    BY <1>4, <1>5, <2>1, <2>3 DEF IsFold
<1>6. f = F(f)
  BY <1>4, <1>5 DEF IsFold
<1>7. iter = F(iter)
  <2> HIDE DEF F
  <2> QED BY <1>6
<1>8. /\ DOMAIN iter = SUBSET D /\ iter[{}] = 0
      /\ \A T \in SUBSET D : T # {} =>
           /\ (CHOOSE x \in T : TRUE) \in T
           /\ iter[T] = list[CHOOSE x \in T : TRUE].seconds + iter[T \ {CHOOSE x \in T : TRUE}]
  <2> HIDE DEF iter
  <2>1. iter = [s \in SUBSET D |-> IF s = {} THEN 0
                  ELSE list[CHOOSE x \in s : TRUE].seconds + iter[s \ {CHOOSE x \in s : TRUE}]]
    BY <1>7
  <2>2. QED
    BY <1>5, <2>1
<1>9. ASSUME NEW T \in SUBSET D PROVE iter[T] \in Nat
  <2> DEFINE B == {U \in SUBSET D : iter[U] \in Nat}
  <2>1. {} \in B
    BY <1>8
  <2>2. ASSUME NEW U \in SUBSET D, U # {}, \A x \in U : U \ {x} \in B PROVE U \in B
    <3> HIDE DEF iter
    <3>1. PICK x \in U : iter[U] = list[x].seconds + iter[U \ {x}]
      BY <1>8, <2>2
    <3>2. iter[U \ {x}] \in Nat /\ list[x].seconds \in Nat
      BY <1>2, <2>2
    <3>3. iter[U] \in Nat
      BY <3>1, <3>2
    <3>4. QED
      BY <3>3
  <2>3. SUBSET D \subseteq B
    <3> HIDE DEF B, D
    <3> QED BY <1>3, <2>1, <2>2, AllSubsets
  <2>4. QED
    BY <2>3
<1>10. QED
  <2> HIDE DEF iter
  <2>1. iter \in [SUBSET D -> Nat]
    <3>1. iter = [s \in SUBSET D |-> IF s = {} THEN 0
                  ELSE list[CHOOSE x \in s : TRUE].seconds + iter[s \ {CHOOSE x \in s : TRUE}]]
      BY <1>7
    <3> DEFINE R == [s \in SUBSET D |-> IF s = {} THEN 0
                  ELSE list[CHOOSE x \in s : TRUE].seconds + iter[s \ {CHOOSE x \in s : TRUE}]]
    <3>2. R = [s \in SUBSET D |-> R[s]]
      OBVIOUS
    <3> HIDE DEF R
    <3>3. QED
      BY <1>9, <3>1, <3>2 DEF R
  <2>2. \A T \in SUBSET D : T # {} => \E x \in T : iter[T] = list[x].seconds + iter[T \ {x}]
    BY <1>8
  <2> WITNESS iter \in [SUBSET D -> Nat]
  <2>3. QED
    BY <1>1, <1>8, <2>2

(* Nothing adds up to nothing.                                             *)
LEMMA UsageOfNothing == Usage(<<>>) = 0
<1>1. <<>> \in Seq(Record) /\ DOMAIN <<>> = {}
  OBVIOUS
<1>2. QED
  BY <1>1, UsageIs

(* r is one of the entries of the list at T.                               *)
Entry(list, T, r) == \E i \in T : r = list[i]

(* A new entry is added to the ones that are there.                        *)
LEMMA AppendEntries ==
  ASSUME NEW kept \in Seq(Record), NEW tx \in Record, NEW r
  PROVE  Entry(Append(kept, tx), DOMAIN Append(kept, tx), r)
           <=> Entry(kept, DOMAIN kept, r) \/ r = tx
<1>1. /\ Append(kept, tx) \in Seq(Record) /\ Len(kept) \in Nat
      /\ Len(Append(kept, tx)) = Len(kept) + 1
      /\ DOMAIN kept = 1..Len(kept) /\ DOMAIN Append(kept, tx) = 1..(Len(kept) + 1)
      /\ \A i \in 1..Len(kept) : Append(kept, tx)[i] = kept[i]
      /\ Append(kept, tx)[Len(kept) + 1] = tx
  OBVIOUS
<1>2. \A i \in 1..(Len(kept) + 1) : i \in 1..Len(kept) \/ i = Len(kept) + 1
  BY <1>1
<1>3. 1..Len(kept) \subseteq 1..(Len(kept) + 1) /\ Len(kept) + 1 \in 1..(Len(kept) + 1)
  BY <1>1
<1>4. QED
  BY <1>1, <1>2, <1>3 DEF Entry

(* Kept keeps the recent entries.                                          *)
LEMMA KeptIs ==
  ASSUME NEW list \in Seq(Record)
  PROVE  /\ Kept(list) \in Seq(Record)
         /\ \A r : Entry(Kept(list), DOMAIN Kept(list), r)
                   <=> Entry(list, DOMAIN list, r) /\ Recent(r)
<1> DEFINE D == DOMAIN list
           top(s) == CHOOSE x \in s : \A y \in s : x >= y
           add(tx, kept) == IF Recent(tx) THEN Append(kept, tx) ELSE kept
           F(f) == [s \in SUBSET D |-> IF s = {} THEN <<>> ELSE add(list[top(s)], f[s \ {top(s)}])]
           iter == CHOOSE f : f = F(f)
           c == [s \in SUBSET D |-> top(s)]
           g == [i \in D |-> [kept \in Seq(Record) |-> add(list[i], kept)]]
<1>1. Kept(list) = iter[D]
  BY DEF Kept, FoldLeft, MapThenFoldSet, Max
<1>2. ASSUME NEW s \in SUBSET D, s # {} PROVE top(s) \in s
  <2>1. IsFiniteSet(D) /\ D \subseteq Nat
    BY Places
  <2>2. \E x \in s : \A y \in s : x >= y
    BY <1>2, <2>1, Greatest
  <2>3. QED
    BY <2>2
<1>3. /\ IsFiniteSet(D) /\ g \in [D -> [Seq(Record) -> Seq(Record)]] /\ Chooses(c, D)
      /\ \A i \in D : list[i] \in Record
  <2>1. \A i \in D : list[i] \in Record
    BY Places
  <2>2. \A i \in D, kept \in Seq(Record) : add(list[i], kept) \in Seq(Record)
    BY <2>1
  <2>3. Chooses(c, D)
    <3> HIDE DEF top
    <3> QED BY <1>2 DEF Chooses
  <2>4. QED
    <3> HIDE DEF add
    <3> QED BY <2>1, <2>2, <2>3, Places
<1>4. PICK f \in [SUBSET D -> Seq(Record)] : IsFold(f, D, c, <<>>, g)
  <2>1. <<>> \in Seq(Record)
    OBVIOUS
  <2> HIDE DEF c, g, D
  <2> QED BY <1>3, <2>1, FoldExists
<1>5. ASSUME NEW T \in SUBSET D, T # {} PROVE f[T] = add(list[top(T)], f[T \ {top(T)}])
  <2>1. c[T] = top(T) /\ c[T] \in T
    BY <1>2, <1>5
  <2>2. f[T \ {c[T]}] \in Seq(Record)
    BY <1>4
  <2>3. g[c[T]][f[T \ {c[T]}]] = add(list[c[T]], f[T \ {c[T]}])
    <3> HIDE DEF add
    <3> QED BY <2>1, <2>2
  <2>4. QED
    <3> HIDE DEF add, g, c, top
    <3> QED BY <1>4, <1>5, <2>1, <2>3 DEF IsFold
<1>6. f = F(f)
  <2>1. f[{}] = <<>>
    BY <1>4 DEF IsFold
  <2> HIDE DEF add, top
  <2>2. QED
    BY <1>4, <1>5, <2>1
<1>7. iter = F(iter)
  <2> HIDE DEF F
  <2> QED BY <1>6
<1>8. /\ iter[{}] = <<>>
      /\ \A T \in SUBSET D : T # {} => iter[T] = add(list[top(T)], iter[T \ {top(T)}])
  <2> HIDE DEF iter, add, top
  <2> QED BY <1>7
<1> DEFINE Good(T, kept) == /\ kept \in Seq(Record)
                            /\ \A r : Entry(kept, DOMAIN kept, r) <=> Entry(list, T, r) /\ Recent(r)
<1>9. Good(D, iter[D])
  <2> DEFINE B == {U \in SUBSET D : Good(U, iter[U])}
  <2> HIDE DEF iter
  <2>1. {} \in B
    <3>1. \A r : ~Entry(<<>>, DOMAIN <<>>, r) /\ ~Entry(list, {}, r)
      BY DEF Entry
    <3>2. <<>> \in Seq(Record)
      OBVIOUS
    <3>3. Good({}, <<>>)
      BY <3>1, <3>2
    <3> HIDE DEF Good
    <3>4. QED
      BY <1>8, <3>3
  <2>2. ASSUME NEW U \in SUBSET D, U # {}, \A x \in U : U \ {x} \in B PROVE U \in B
    <3> DEFINE x == top(U)
               kept == iter[U \ {x}]
    <3>1. x \in U /\ Good(U \ {x}, kept) /\ iter[U] = add(list[x], kept) /\ list[x] \in Record
      <4> HIDE DEF top, Good, add
      <4> QED BY <1>2, <1>3, <1>8, <2>2
    <3>2. add(list[x], kept) \in Seq(Record)
      <4> HIDE DEF x, kept
      <4> QED BY <3>1
    <3>3. \A r : Entry(list, U, r) <=> Entry(list, U \ {x}, r) \/ r = list[x]
      <4> HIDE DEF x
      <4> QED BY <3>1 DEF Entry
    <3>4. ASSUME NEW r PROVE Entry(add(list[x], kept), DOMAIN add(list[x], kept), r)
                               <=> Entry(kept, DOMAIN kept, r) \/ (r = list[x] /\ Recent(list[x]))
      <4> HIDE DEF x, kept
      <4>1. CASE ~Recent(list[x])
        BY <4>1
      <4>2. CASE Recent(list[x])
        BY <3>1, <4>2, AppendEntries
      <4>3. QED
        BY <4>1, <4>2
    <3>5. QED
      <4> HIDE DEF x, kept, add
      <4> QED BY <3>1, <3>2, <3>3, <3>4
  <2>3. SUBSET D \subseteq B
    <3> HIDE DEF B, D
    <3> QED BY <1>3, <2>1, <2>2, AllSubsets
  <2>4. QED
    <3> HIDE DEF Good
    <3> QED BY <2>3
<1>10. QED
  <2> HIDE DEF iter
  <2> QED BY <1>1, <1>9
-----------------------------------------------------------------------------
(* What a list accounts for.                                               *)

(* The units of time an entry stands for, as aired records them, and those *)
(* of a whole list.                                                        *)
Units(r) == {<<r.timestamp, u>> : u \in r.timestamp .. (r.timestamp + r.seconds - 1)}
Covers(list, a) == \E i \in DOMAIN list : a \in Units(list[i])
UnitsAt(list, T) == UNION {Units(list[i]) : i \in T}

(* An entry stands for no more units than its seconds.                     *)
LEMMA UnitsOfEntry ==
  ASSUME NEW r \in Record
  PROVE  IsFiniteSet(Units(r)) /\ Cardinality(Units(r)) <= r.seconds
<1>1. r.timestamp \in Nat /\ r.seconds \in Nat
  BY DutyAssumption DEF Record
<1> DEFINE I == r.timestamp .. (r.timestamp + r.seconds - 1)
           h == [a \in Units(r) |-> a[2]]
<1>2. IsFiniteSet(I) /\ Cardinality(I) <= r.seconds
  <2>1. r.timestamp + r.seconds - 1 \in Int /\ r.timestamp \in Int
    BY <1>1
  <2>2. /\ IsFiniteSet(I)
        /\ Cardinality(I) = IF r.timestamp > r.timestamp + r.seconds - 1 THEN 0
                            ELSE (r.timestamp + r.seconds - 1) - r.timestamp + 1
    BY <2>1, FS_Interval
  <2>3. QED
    BY <1>1, <2>2
<1>3. h \in Injection(Units(r), I)
  BY DEF Units, Injection, IsInjective
<1>4. IsFiniteSet(Units(r)) /\ Cardinality(Units(r)) <= Cardinality(I)
  BY <1>2, <1>3, FS_Injection
<1>5. Cardinality(I) \in Nat /\ Cardinality(Units(r)) \in Nat
  BY <1>2, <1>4, FS_CardinalityType
<1>6. QED
  BY <1>1, <1>2, <1>4, <1>5

(* Units that a list covers are at most its usage.                         *)
LEMMA UsageBounds ==
  ASSUME NEW list \in Seq(Record), NEW O, \A a \in O : Covers(list, a)
  PROVE  IsFiniteSet(O) /\ Cardinality(O) <= Usage(list) /\ Usage(list) \in Nat
<1> DEFINE D == DOMAIN list
<1>1. IsFiniteSet(D) /\ \A i \in D : list[i] \in Record
  BY Places
<1>2. PICK f \in [SUBSET D -> Nat] :
        /\ f[{}] = 0 /\ Usage(list) = f[D]
        /\ \A T \in SUBSET D : T # {} => \E x \in T : f[T] = list[x].seconds + f[T \ {x}]
  BY UsageIs
<1> DEFINE B == {T \in SUBSET D : IsFiniteSet(UnitsAt(list, T)) /\ Cardinality(UnitsAt(list, T)) <= f[T]}
<1>3. {} \in B
  <2>1. UnitsAt(list, {}) = {}
    BY DEF UnitsAt
  <2>2. IsFiniteSet(UnitsAt(list, {})) /\ Cardinality(UnitsAt(list, {})) = 0
    BY <2>1, FS_EmptySet, Zenon
  <2>3. 0 <= f[{}]
    BY <1>2
  <2>4. QED
    BY <2>2, <2>3
<1>4. ASSUME NEW T \in SUBSET D, T # {}, \A x \in T : T \ {x} \in B PROVE T \in B
  <2>1. PICK x \in T : f[T] = list[x].seconds + f[T \ {x}]
    BY <1>2, <1>4
  <2>2. UnitsAt(list, T) = UnitsAt(list, T \ {x}) \cup Units(list[x])
    BY DEF UnitsAt
  <2>3. /\ IsFiniteSet(Units(list[x])) /\ Cardinality(Units(list[x])) <= list[x].seconds
        /\ list[x].seconds \in Nat
    <3>1. list[x] \in Record
      BY <1>1
    <3>2. list[x].seconds \in Nat
      BY <3>1, DutyAssumption DEF Record
    <3>3. QED
      BY <3>1, <3>2, UnitsOfEntry
  <2>4. /\ IsFiniteSet(UnitsAt(list, T \ {x})) /\ f[T \ {x}] \in Nat
        /\ Cardinality(UnitsAt(list, T \ {x})) <= f[T \ {x}]
    BY <1>2, <1>4
  <2>5. /\ IsFiniteSet(UnitsAt(list, T))
        /\ Cardinality(UnitsAt(list, T))
             <= Cardinality(UnitsAt(list, T \ {x})) + Cardinality(Units(list[x]))
    <3>1. /\ IsFiniteSet(UnitsAt(list, T))
          /\ Cardinality(UnitsAt(list, T)) = Cardinality(UnitsAt(list, T \ {x})) + Cardinality(Units(list[x]))
                                 - Cardinality(UnitsAt(list, T \ {x}) \cap Units(list[x]))
      <4> DEFINE X == UnitsAt(list, T \ {x})
                 Y == Units(list[x])
      <4>1. IsFiniteSet(X) /\ IsFiniteSet(Y) /\ UnitsAt(list, T) = X \cup Y
        BY <2>2, <2>3, <2>4
      <4> HIDE DEF X, Y
      <4>2. /\ IsFiniteSet(X \cup Y)
            /\ Cardinality(X \cup Y) = Cardinality(X) + Cardinality(Y) - Cardinality(X \cap Y)
        BY <4>1, FS_Union
      <4>3. QED
        BY <4>1, <4>2 DEF X, Y
    <3>2. IsFiniteSet(UnitsAt(list, T \ {x}) \cap Units(list[x]))
      BY <2>4, FS_Intersection
    <3>3. Cardinality(UnitsAt(list, T \ {x}) \cap Units(list[x])) \in Nat
      BY <3>2, FS_CardinalityType
    <3>4. Cardinality(UnitsAt(list, T \ {x})) \in Nat /\ Cardinality(Units(list[x])) \in Nat
      BY <2>3, <2>4, FS_CardinalityType
    <3>5. QED
      BY <3>1, <3>3, <3>4
  <2>6. /\ Cardinality(UnitsAt(list, T)) \in Nat /\ Cardinality(Units(list[x])) \in Nat
        /\ Cardinality(UnitsAt(list, T \ {x})) \in Nat
    BY <2>3, <2>4, <2>5, FS_CardinalityType
  <2>7. Cardinality(UnitsAt(list, T)) <= f[T]
    BY <2>1, <2>3, <2>4, <2>5, <2>6
  <2>8. QED
    BY <2>5, <2>7
<1>5. SUBSET D \subseteq B
  <2> HIDE DEF B, D
  <2> QED BY <1>1, <1>3, <1>4, AllSubsets
<1>6. /\ IsFiniteSet(UnitsAt(list, D)) /\ Cardinality(UnitsAt(list, D)) <= Usage(list)
      /\ Usage(list) \in Nat
  BY <1>2, <1>5
<1>7. O \subseteq UnitsAt(list, D)
  BY DEF Covers, UnitsAt
<1>8. IsFiniteSet(O) /\ Cardinality(O) <= Cardinality(UnitsAt(list, D))
  BY <1>6, <1>7, FS_Subset
<1>9. Cardinality(O) \in Nat /\ Cardinality(UnitsAt(list, D)) \in Nat
  BY <1>6, <1>8, FS_CardinalityType
<1>10. QED
  BY <1>6, <1>8, <1>9

(* The recent units a list covers are covered by what Kept keeps of it.    *)
LEMMA KeptCovers ==
  ASSUME NEW list \in Seq(Record), NEW a, Covers(list, a), a[1] + Window > now
  PROVE  Covers(Kept(list), a)
<1>1. PICK i \in DOMAIN list : a \in Units(list[i])
  BY DEF Covers
<1>2. Recent(list[i])
  BY <1>1 DEF Units, Recent
<1>3. Entry(Kept(list), DOMAIN Kept(list), list[i])
  BY <1>2, KeptIs DEF Entry
<1>4. QED
  BY <1>1, <1>3 DEF Entry, Covers

(* A new entry covers its units, and the others are covered as before.     *)
LEMMA AppendCovers ==
  ASSUME NEW list \in Seq(Record), NEW tx \in Record, NEW a, Covers(list, a) \/ a \in Units(tx)
  PROVE  Covers(Append(list, tx), a)
<1>1. PICK r : a \in Units(r) /\ (Entry(list, DOMAIN list, r) \/ r = tx)
  BY DEF Covers, Entry
<1>2. Entry(Append(list, tx), DOMAIN Append(list, tx), r)
  BY <1>1, AppendEntries
<1>3. QED
  BY <1>1, <1>2 DEF Entry, Covers
-----------------------------------------------------------------------------
(* The invariant.  Whatever happens: no start lies ahead, no entry is      *)
(* younger than the latest start, and a tool transmits only while its      *)
(* process watches it or is about to kill it.                              *)

Saving(p) == pc[p] \in {"truncate", "fill"}

Times == \A p \in Process : startTime[p] <= now
Started(list) == \A i \in DOMAIN list : \E p \in Process : list[i].timestamp <= startTime[p]
Entries == Started(file) /\ \A p \in Process : Started(data[p])
Tools == \A p \in Process : child[p] = "on" => pc[p] = "watch" \/ (Saving(p) /\ after[p] = "close")

Ground == DutyTypeOK /\ Times /\ Entries /\ Tools

(* While nothing is disturbed: one invocation at a time; every recent unit *)
(* is in the list, in the one that is about to be the list, or of the      *)
(* transmission being watched; and an invocation that has passed the guard *)
(* still finds the limit kept when it starts.                              *)
Alone == \A p, q \in Process : pc[p] # "idle" /\ pc[q] # "idle" => p = q

Airings ==
  /\ \A a \in OnAir : a[1] <= a[2] /\ a[2] < a[1] + MaxTx /\ a[2] < now
  /\ \A a, b \in OnAir : a[2] = b[2] => a = b

Accounted(a) ==
  \/ (\A p \in Process : ~Saving(p)) /\ Covers(file, a)
  \/ \E p \in Process : Saving(p) /\ Covers(data[p], a)
  \/ \E p \in Process : pc[p] = "watch" /\ a[1] = startTime[p]
Account == \A a \in OnAir : a[1] + Window > now => Accounted(a)

Passed(p) == pc[p] = "spawn" \/ (Saving(p) /\ after[p] = "spawn")
Cleared == \A p \in Process : Passed(p) => StartedAirtime < Limit

(* s is the latest start: when it was made, the older transmissions in the *)
(* window kept the limit.                                                  *)
Before(s) == {a \in OnAir : a[1] < s /\ a[1] + Window > s}
Latest(s) ==
  /\ s <= now
  /\ \A p \in Process : child[p] = "on" => startTime[p] = s
  /\ \A a \in OnAir : a[1] <= s
  /\ Cardinality(Before(s)) < Limit

Undisturbed == Alone /\ Airings /\ Account /\ Cleared /\ \E s \in 0..MaxTime : Latest(s)

DutyInv == Ground /\ (disturbed \/ Undisturbed)
-----------------------------------------------------------------------------
(* What holds whatever happens.                                            *)

(* A process that is about to record has a well-formed entry.              *)
LEMMA ThisTxIs ==
  ASSUME Ground, NEW p \in Process
  PROVE  ThisTx(p) \in Record /\ ThisTx(p).timestamp = startTime[p]
         /\ ThisTx(p).seconds = now - startTime[p]
<1>1. startTime[p] \in 0..MaxTime /\ now \in 0..MaxTime /\ startTime[p] <= now
  BY DEF Ground, DutyTypeOK, Times
<1>2. now - startTime[p] \in 0..MaxTime
  BY <1>1, DutyAssumption
<1>3. QED
  BY <1>1, <1>2 DEF ThisTx, Stamp, Duration, Record

(* Saving a well-formed list of transmissions that have started.           *)
LEMMA SaveGround ==
  ASSUME Ground, NEW p \in Process, NEW list \in Seq(Record), Started(list),
         NEW next \in {"idle", "spawn", "close", "ending"}, Save(p, list, next),
         pc[p] \in {"idle", "watch", "close", "ending"},
         child[p] = "on" => next = "close",
         UNCHANGED <<now, file, startTime, child, aired, kills>>,
         runs' \in 0..MaxRuns, disturbed' \in BOOLEAN
  PROVE  Ground'
<1>1. DutyTypeOK'
  BY DEF Ground, DutyTypeOK, Save
<1>2. Times'
  BY DEF Ground, Times
<1>3. Started(file)' /\ \A q \in Process : Started(data[q])'
  <2>1. \A q \in Process : data'[q] = IF q = p THEN list ELSE data[q]
    BY DEF Save, Ground, DutyTypeOK
  <2>2. QED
    BY <2>1 DEF Ground, Entries, Started
<1>4. Tools'
  BY DEF Ground, DutyTypeOK, Tools, Saving, Save
<1>5. QED
  BY <1>1, <1>2, <1>3, <1>4 DEF Ground, Entries

(* The guard lets a process pass: what it keeps of the file is in the file. *)
LEMMA CheckGround ==
  ASSUME Ground, NEW p \in Process, Check(p)
  PROVE  Ground'
<1>1. file \in Seq(Record) /\ Started(file) /\ pc[p] = "idle" /\ child[p] = "off"
  BY DEF Ground, DutyTypeOK, Entries, Tools, Saving, Check
<1>2. Kept(file) \in Seq(Record) /\ Started(Kept(file))
  <2>1. ASSUME NEW i \in DOMAIN Kept(file)
        PROVE  \E j \in DOMAIN file : file[j] = Kept(file)[i]
    <3>1. Entry(Kept(file), DOMAIN Kept(file), Kept(file)[i])
      BY DEF Entry
    <3>2. QED
      BY <1>1, <3>1, KeptIs DEF Entry
  <2>2. QED
    BY <1>1, <2>1, KeptIs DEF Started
<1>3. runs' \in 0..MaxRuns
  BY DutyAssumption DEF Check, Ground, DutyTypeOK
<1>4. disturbed' \in BOOLEAN
  BY DEF Check, Ground, DutyTypeOK
<1>5. QED
  BY <1>1, <1>2, <1>3, <1>4, SaveGround DEF Check

(* A transmission is recorded: its entry is of its own start.              *)
LEMMA RecordGround ==
  ASSUME Ground, NEW p \in Process, EarlyRecord(p) \/ CloseRecord(p) \/ LateRecord(p)
  PROVE  Ground'
<1>1. file \in Seq(Record) /\ Started(file) /\ ThisTx(p) \in Record
      /\ ThisTx(p).timestamp <= startTime[p]
  BY ThisTxIs DEF Ground, DutyTypeOK, Entries
<1>2. Recorded(file, ThisTx(p)) \in Seq(Record) /\ Started(Recorded(file, ThisTx(p)))
  BY <1>1 DEF Recorded, Started
<1>3. runs' \in 0..MaxRuns /\ disturbed' \in BOOLEAN
  BY DEF EarlyRecord, CloseRecord, LateRecord, Ground, DutyTypeOK
<1>4. CASE EarlyRecord(p)
  BY <1>2, <1>3, <1>4, SaveGround DEF EarlyRecord
<1>5. CASE CloseRecord(p)
  <2>1. PICK next \in {"idle", "ending"} : Save(p, Recorded(file, ThisTx(p)), next)
    BY <1>5 DEF CloseRecord
  <2>2. QED
    BY <1>2, <1>3, <1>5, <2>1, SaveGround DEF CloseRecord
<1>6. CASE LateRecord(p)
  <2>1. child[p] # "on"
    BY <1>6 DEF LateRecord, Ground, Tools, Saving
  <2>2. QED
    BY <1>2, <1>3, <1>6, <2>1, SaveGround DEF LateRecord
<1>7. QED
  BY <1>4, <1>5, <1>6

(* The other steps of a process.                                           *)
LEMMA StepGround ==
  ASSUME Ground, NEW p \in Process,
         Truncate(p) \/ Fill(p) \/ Spawn(p) \/ ChildEnds(p) \/ Killed(p)
  PROVE  Ground'
<1> USE DEF Ground
<1>1. CASE Truncate(p)
  <2>1. DutyTypeOK'
    BY <1>1 DEF DutyTypeOK, Truncate
  <2>2. Times' /\ Entries' /\ Tools'
    BY <1>1 DEF DutyTypeOK, Truncate, Times, Entries, Started, Tools, Saving
  <2>3. QED
    BY <2>1, <2>2
<1>2. CASE Fill(p)
  <2>1. DutyTypeOK'
    BY <1>2 DEF DutyTypeOK, Fill
  <2>2. Times' /\ Entries'
    <3>1. \A q \in Process : data'[q] = IF q = p THEN <<>> ELSE data[q]
      BY <1>2 DEF DutyTypeOK, Fill
    <3>2. DOMAIN <<>> = {}
      OBVIOUS
    <3>3. UNCHANGED <<now, startTime>> /\ file' = data[p]
      BY <1>2 DEF Fill
    <3>4. Times' /\ Started(file)'
      BY <3>3 DEF Times, Entries, Started
    <3>5. ASSUME NEW q \in Process PROVE Started(data[q])'
      BY <3>1, <3>2, <3>3 DEF Entries, Started
    <3>6. QED
      BY <3>4, <3>5 DEF Entries
  <2>3. Tools'
    BY <1>2 DEF DutyTypeOK, Fill, Tools, Saving
  <2>4. QED
    BY <2>1, <2>2, <2>3
<1>3. CASE Spawn(p)
  <2>1. DutyTypeOK'
    BY <1>3 DEF DutyTypeOK, Spawn
  <2>2. Times'
    BY <1>3 DEF DutyTypeOK, Spawn, Times
  <2>3. \A q \in Process : startTime[q] <= startTime'[q]
    BY <1>3 DEF DutyTypeOK, Spawn, Times
  <2>4. Entries'
    <3>1. ASSUME NEW list \in Seq(Record), Started(list) PROVE Started(list)'
      <4>1. \A i \in DOMAIN list : list[i].timestamp \in Nat
        <5>1. \A i \in DOMAIN list : list[i] \in Record
          BY Places
        <5>2. QED
          BY <5>1, DutyAssumption DEF Record
      <4>2. \A q \in Process : startTime[q] \in Nat /\ startTime'[q] \in Nat
        BY <2>1, DutyAssumption DEF DutyTypeOK
      <4>3. QED
        BY <2>3, <3>1, <4>1, <4>2 DEF Started
    <3>2. file' = file /\ data' = data /\ file \in Seq(Record) /\ \A q \in Process : data[q] \in Seq(Record)
      BY <1>3 DEF DutyTypeOK, Spawn
    <3>3. QED
      BY <3>1, <3>2 DEF Entries, Started
  <2>5. Tools'
    BY <1>3 DEF DutyTypeOK, Spawn, Tools, Saving
  <2>6. QED
    BY <2>1, <2>2, <2>4, <2>5
<1>4. CASE ChildEnds(p)
  <2>1. DutyTypeOK'
    BY <1>4 DEF DutyTypeOK, ChildEnds
  <2>2. Times' /\ Entries' /\ Tools'
    BY <1>4 DEF DutyTypeOK, ChildEnds, Times, Entries, Started, Tools, Saving
  <2>3. QED
    BY <2>1, <2>2
<1>5. CASE Killed(p)
  <2>1. DutyTypeOK'
    BY <1>5, DutyAssumption DEF DutyTypeOK, Killed
  <2>2. Times' /\ Entries'
    <3>1. \A q \in Process : data'[q] = IF q = p THEN <<>> ELSE data[q]
      BY <1>5 DEF DutyTypeOK, Killed
    <3>2. DOMAIN <<>> = {}
      OBVIOUS
    <3>3. UNCHANGED <<now, startTime, file>>
      BY <1>5 DEF Killed
    <3>4. Times' /\ Started(file)'
      BY <3>3 DEF Times, Entries, Started
    <3>5. ASSUME NEW q \in Process PROVE Started(data[q])'
      BY <3>1, <3>2, <3>3 DEF Entries, Started
    <3>6. QED
      BY <3>4, <3>5 DEF Entries
  <2>3. Tools'
    BY <1>5 DEF DutyTypeOK, Killed, Tools, Saving
  <2>4. QED
    BY <2>1, <2>2, <2>3
<1>6. QED
  BY <1>1, <1>2, <1>3, <1>4, <1>5

(* A unit of time passes.                                                  *)
LEMMA TickGround ==
  ASSUME Ground, Tick
  PROVE  Ground'
<1>1. now' = now + 1 /\ now' \in 0..MaxTime /\ now \in 0..MaxTime
  BY DutyAssumption DEF Tick, Ground, DutyTypeOK
<1>2. aired' \in [Process -> SUBSET ((0..MaxTime) \X (0..MaxTime))]
  BY <1>1 DEF Tick, Ground, DutyTypeOK
<1>3. DutyTypeOK'
  BY <1>1, <1>2 DEF Tick, Ground, DutyTypeOK
<1>4. Times' /\ Entries' /\ Tools'
  BY <1>1 DEF Tick, Ground, DutyTypeOK, Times, Entries, Started, Tools, Saving
<1>5. QED
  BY <1>3, <1>4 DEF Ground

(* Every step, those of overlapping and killed invocations included.       *)
LEMMA GroundInv == Ground /\ [Next]_vars => Ground'
<1> SUFFICES ASSUME Ground, [Next]_vars PROVE Ground'
  OBVIOUS
<1>1. CASE Tick
  BY <1>1, TickGround
<1>2. ASSUME NEW p \in Process, Check(p) PROVE Ground'
  BY <1>2, CheckGround
<1>3. ASSUME NEW p \in Process, EarlyRecord(p) \/ CloseRecord(p) \/ LateRecord(p) PROVE Ground'
  BY <1>3, RecordGround
<1>4. ASSUME NEW p \in Process,
             Truncate(p) \/ Fill(p) \/ Spawn(p) \/ ChildEnds(p) \/ Killed(p)
      PROVE  Ground'
  BY <1>4, StepGround
<1>5. CASE UNCHANGED vars
  BY <1>5 DEF vars, Ground, DutyTypeOK, Times, Entries, Started, Tools, Saving
<1>6. QED
  BY <1>1, <1>2, <1>3, <1>4, <1>5 DEF Next
-----------------------------------------------------------------------------
(* What holds while nothing is disturbed.                                  *)

(* The units on the air.                                                   *)
LEMMA OnAirIs ==
  ASSUME DutyTypeOK
  PROVE  /\ OnAir \subseteq (0..MaxTime) \X (0..MaxTime) /\ IsFiniteSet(OnAir)
         /\ \A a \in OnAir : a[1] \in Nat /\ a[2] \in Nat
<1>1. OnAir \subseteq (0..MaxTime) \X (0..MaxTime)
  BY DEF OnAir, DutyTypeOK
<1>2. IsFiniteSet(0..MaxTime)
  BY DutyAssumption, FS_Interval
<1>3. IsFiniteSet((0..MaxTime) \X (0..MaxTime))
  BY <1>2, FS_Product
<1>4. QED
  BY <1>1, <1>3, FS_Subset

(* A part of it has a size, and no part of that is larger.                 *)
LEMMA PartOfAir ==
  ASSUME DutyTypeOK, NEW P \in SUBSET OnAir, NEW Q \in SUBSET P
  PROVE  /\ IsFiniteSet(P) /\ IsFiniteSet(Q)
         /\ Cardinality(P) \in Nat /\ Cardinality(Q) \in Nat
         /\ Cardinality(Q) <= Cardinality(P)
<1>1. IsFiniteSet(P)
  BY OnAirIs, FS_Subset
<1>2. IsFiniteSet(Q) /\ Cardinality(Q) <= Cardinality(P)
  BY <1>1, FS_Subset
<1>3. QED
  BY <1>1, <1>2, FS_CardinalityType

(* Steps that leave the clock, the air and the starts alone.               *)
LEMMA QuietAir ==
  ASSUME UNCHANGED <<now, aired>>
  PROVE  /\ OnAir' = OnAir /\ StartedAirtime' = StartedAirtime
         /\ Airings => Airings'
         /\ \A s : Before(s)' = Before(s)
<1>1. OnAir' = OnAir
  BY DEF OnAir
<1>2. StartedAirtime' = StartedAirtime
  BY <1>1 DEF StartedAirtime
<1>3. Airings => Airings'
  BY <1>1 DEF Airings
<1>4. QED
  BY <1>1, <1>2, <1>3 DEF Before

(* The latest start stays the latest, unless a tool starts.                *)
LEMMA QuietLatest ==
  ASSUME UNCHANGED <<now, aired, startTime>>,
         \A p \in Process : child'[p] = "on" => child[p] = "on",
         \E s \in 0..MaxTime : Latest(s)
  PROVE  (\E s \in 0..MaxTime : Latest(s))'
<1>1. PICK s \in 0..MaxTime : Latest(s)
  OBVIOUS
<1>2. Latest(s)'
  BY <1>1, QuietAir DEF Latest
<1>3. QED
  BY <1>2

(* The guard lets a process pass: what the list does not cover is not      *)
(* recent, and what it covers is less than the limit.                      *)
LEMMA CheckUndisturbed ==
  ASSUME Ground, Undisturbed, ~disturbed', NEW p \in Process, Check(p)
  PROVE  Undisturbed'
<1>1. /\ pc[p] = "idle" /\ \A q \in Process : pc[q] = "idle"
      /\ UNCHANGED <<now, aired, file, startTime, child>>
      /\ ~(Usage(Kept(file)) >= Limit)
      /\ data' = [data EXCEPT ![p] = Kept(file)] /\ pc' = [pc EXCEPT ![p] = "truncate"]
      /\ after' = [after EXCEPT ![p] = "spawn"]
  BY DEF Check, Save, Refuses
<1>2. DutyTypeOK /\ file \in Seq(Record) /\ Kept(file) \in Seq(Record)
  BY KeptIs DEF Ground, DutyTypeOK
<1>3. /\ pc'[p] = "truncate" /\ after'[p] = "spawn" /\ data'[p] = Kept(file)
      /\ \A q \in Process \ {p} : pc'[q] = "idle"
  BY <1>1, <1>2 DEF DutyTypeOK
<1>4. Alone' /\ Airings'
  BY <1>1, <1>3, QuietAir DEF Undisturbed, Alone
<1>5. ASSUME NEW a \in OnAir, a[1] + Window > now PROVE Covers(Kept(file), a)
  <2>1. Covers(file, a)
    BY <1>1, <1>5 DEF Undisturbed, Account, Accounted, Saving
  <2>2. QED
    BY <1>2, <1>5, <2>1, KeptCovers
<1>6. Account'
  <2>1. OnAir' = OnAir /\ now' = now
    BY <1>1, QuietAir
  <2>2. ASSUME NEW a \in OnAir', a[1] + Window > now' PROVE Accounted(a)'
    <3>1. Covers(data'[p], a)
      BY <1>3, <1>5, <2>1, <2>2
    <3>2. QED
      BY <1>3, <3>1 DEF Accounted, Saving, Covers
  <2>3. QED
    BY <2>2 DEF Account
<1>7. Cleared'
  <2> DEFINE O == {a \in OnAir : a[1] + Window > now}
  <2>1. Cardinality(O) <= Usage(Kept(file)) /\ Usage(Kept(file)) \in Nat
    BY <1>2, <1>5, UsageBounds
  <2>2. Cardinality(O) \in Nat
    BY <1>2, PartOfAir
  <2>3. StartedAirtime < Limit
    BY <1>1, <2>1, <2>2, DutyAssumption DEF StartedAirtime
  <2>4. QED
    BY <1>1, <2>3, QuietAir DEF Cleared
<1>8. (\E s \in 0..MaxTime : Latest(s))'
  BY <1>1, QuietLatest DEF Undisturbed
<1>9. QED
  BY <1>4, <1>6, <1>7, <1>8 DEF Undisturbed

(* A transmission is recorded: the list that is about to be saved covers   *)
(* what the file and the watched transmission did.                         *)
LEMMA RecordUndisturbed ==
  ASSUME Ground, Undisturbed, NEW p \in Process, EarlyRecord(p) \/ CloseRecord(p) \/ LateRecord(p)
  PROVE  Undisturbed'
<1>1. /\ pc[p] \in {"watch", "close", "ending"}
      /\ UNCHANGED <<now, aired, file, startTime, child>>
      /\ data' = [data EXCEPT ![p] = Append(file, ThisTx(p))]
      /\ pc' = [pc EXCEPT ![p] = "truncate"]
      /\ \E next \in {"close", "idle", "ending"} : after' = [after EXCEPT ![p] = next]
  BY DEF EarlyRecord, CloseRecord, LateRecord, Save, Recorded
<1>2. DutyTypeOK /\ file \in Seq(Record)
  BY DEF Ground, DutyTypeOK
<1>3. \A q \in Process \ {p} : pc[q] = "idle"
  BY <1>1 DEF Undisturbed, Alone
<1>4. /\ pc'[p] = "truncate" /\ after'[p] \in {"close", "idle", "ending"}
      /\ data'[p] = Append(file, ThisTx(p))
      /\ \A q \in Process \ {p} : pc'[q] = "idle"
  BY <1>1, <1>2, <1>3 DEF DutyTypeOK
<1>5. Alone' /\ Airings'
  BY <1>1, <1>4, QuietAir DEF Undisturbed, Alone
<1>6. ASSUME NEW a \in OnAir, a[1] + Window > now PROVE Covers(Append(file, ThisTx(p)), a)
  <2>1. Covers(file, a) \/ a[1] = startTime[p]
    BY <1>1, <1>3, <1>6 DEF Undisturbed, Account, Accounted, Saving
  <2>2. ASSUME a[1] = startTime[p] PROVE a \in Units(ThisTx(p))
    <3>1. a = <<startTime[p], a[2]>> /\ a[2] \in Nat /\ startTime[p] \in Nat /\ now \in Nat
      BY <1>2, <2>2, OnAirIs, DutyAssumption DEF DutyTypeOK
    <3>2. a[2] \in startTime[p] .. (startTime[p] + (now - startTime[p]) - 1)
      BY <2>2, <3>1 DEF Undisturbed, Airings
    <3>3. QED
      BY <3>1, <3>2, ThisTxIs DEF Units
  <2>3. QED
    BY <1>2, <2>1, <2>2, ThisTxIs, AppendCovers
<1>7. Account'
  <2>1. OnAir' = OnAir /\ now' = now
    BY <1>1, QuietAir
  <2>2. ASSUME NEW a \in OnAir', a[1] + Window > now' PROVE Accounted(a)'
    <3>1. Covers(data'[p], a)
      BY <1>4, <1>6, <2>1, <2>2
    <3>2. QED
      BY <1>4, <3>1 DEF Accounted, Saving, Covers
  <2>3. QED
    BY <2>2 DEF Account
<1>8. Cleared'
  BY <1>4 DEF Cleared, Passed, Saving
<1>9. (\E s \in 0..MaxTime : Latest(s))'
  BY <1>1, QuietLatest DEF Undisturbed
<1>10. QED
  BY <1>5, <1>7, <1>8, <1>9 DEF Undisturbed

(* The file is emptied: its entries are still in hand.                     *)
LEMMA TruncateUndisturbed ==
  ASSUME Ground, Undisturbed, NEW p \in Process, Truncate(p)
  PROVE  Undisturbed'
<1>1. /\ pc[p] = "truncate" /\ pc' = [pc EXCEPT ![p] = "fill"]
      /\ UNCHANGED <<now, aired, after, data, startTime, child>>
  BY DEF Truncate
<1>2. \A q \in Process : pc'[q] = IF q = p THEN "fill" ELSE pc[q]
  BY <1>1 DEF Ground, DutyTypeOK
<1>3. Alone' /\ Airings'
  BY <1>1, <1>2, QuietAir DEF Undisturbed, Alone
<1>4. ASSUME NEW a, Accounted(a) PROVE Accounted(a)'
  <2>1. Saving(p)
    BY <1>1 DEF Saving
  <2>2. PICK q \in Process : (Saving(q) /\ Covers(data[q], a)) \/ (pc[q] = "watch" /\ a[1] = startTime[q])
    BY <1>4, <2>1 DEF Accounted
  <2>3. CASE Saving(q) /\ Covers(data[q], a)
    BY <1>1, <1>2, <2>3 DEF Accounted, Saving, Covers
  <2>4. CASE pc[q] = "watch" /\ a[1] = startTime[q]
    BY <1>1, <1>2, <2>4 DEF Accounted
  <2>5. QED
    BY <2>2, <2>3, <2>4
<1>5. Account'
  BY <1>1, <1>4, QuietAir DEF Undisturbed, Account
<1>6. Cleared'
  <2>1. \A q \in Process : Passed(q)' => Passed(q)
    BY <1>1, <1>2 DEF Passed, Saving
  <2>2. QED
    BY <1>1, <2>1, QuietAir DEF Undisturbed, Cleared
<1>7. (\E s \in 0..MaxTime : Latest(s))'
  BY <1>1, QuietLatest DEF Undisturbed
<1>8. QED
  BY <1>3, <1>5, <1>6, <1>7 DEF Undisturbed

(* The list is in the file again, and the process goes on.                 *)
LEMMA FillUndisturbed ==
  ASSUME Ground, Undisturbed, NEW p \in Process, Fill(p)
  PROVE  Undisturbed'
<1>1. /\ pc[p] = "fill" /\ pc' = [pc EXCEPT ![p] = after[p]]
      /\ file' = data[p] /\ after[p] \in {"idle", "spawn", "close", "ending"}
      /\ UNCHANGED <<now, aired, after, startTime>>
      /\ \A q \in Process : child'[q] = "on" => child[q] = "on"
  BY DEF Fill, Ground, DutyTypeOK
<1>2. \A q \in Process \ {p} : pc[q] = "idle"
  BY <1>1 DEF Undisturbed, Alone
<1>3. pc'[p] = after[p] /\ \A q \in Process \ {p} : pc'[q] = "idle"
  BY <1>1, <1>2 DEF Ground, DutyTypeOK
<1>4. Alone' /\ Airings'
  BY <1>1, <1>3, QuietAir DEF Undisturbed, Alone
<1>5. ASSUME NEW a, Accounted(a) PROVE Accounted(a)'
  <2>1. Covers(data[p], a)
    BY <1>1, <1>2, <1>5 DEF Accounted, Saving
  <2>2. \A q \in Process : ~Saving(q)'
    BY <1>1, <1>3 DEF Saving
  <2>3. Covers(file', a)
    BY <1>1, <2>1
  <2>4. QED
    BY <2>2, <2>3 DEF Accounted, Covers
<1>6. Account'
  BY <1>1, <1>5, QuietAir DEF Undisturbed, Account
<1>7. Cleared'
  <2>1. ASSUME NEW q \in Process, Passed(q)' PROVE Passed(p)
    BY <1>1, <1>3, <2>1 DEF Passed, Saving
  <2>2. Passed(p) => StartedAirtime < Limit
    BY DEF Undisturbed, Cleared
  <2>3. QED
    BY <1>1, <2>1, <2>2, QuietAir DEF Cleared
<1>8. (\E s \in 0..MaxTime : Latest(s))'
  BY <1>1, QuietLatest DEF Undisturbed
<1>9. QED
  BY <1>4, <1>6, <1>7, <1>8 DEF Undisturbed

(* A tool ends: what it has transmitted remains.                           *)
LEMMA ChildEndsUndisturbed ==
  ASSUME Ground, Undisturbed, NEW p \in Process, ChildEnds(p)
  PROVE  Undisturbed'
<1>1. /\ UNCHANGED <<now, aired, file, pc, after, data, startTime>>
      /\ \A q \in Process : child'[q] = "on" => child[q] = "on"
  BY DEF ChildEnds, Ground, DutyTypeOK
<1>2. Alone' /\ Airings'
  BY <1>1, QuietAir DEF Undisturbed, Alone
<1>3. Account' /\ Cleared'
  BY <1>1, QuietAir DEF Undisturbed, Account, Accounted, Covers, Saving, Cleared, Passed
<1>4. (\E s \in 0..MaxTime : Latest(s))'
  BY <1>1, QuietLatest DEF Undisturbed
<1>5. QED
  BY <1>2, <1>3, <1>4 DEF Undisturbed

(* A transmission starts: its start is the latest, and what started before *)
(* it in the window is what the guard has found less than the limit.       *)
LEMMA SpawnUndisturbed ==
  ASSUME Ground, Undisturbed, NEW p \in Process, Spawn(p)
  PROVE  Undisturbed'
<1>1. /\ pc[p] = "spawn" /\ pc' = [pc EXCEPT ![p] = "watch"]
      /\ startTime' = [startTime EXCEPT ![p] = now]
      /\ UNCHANGED <<now, file, after, data, aired>>
      /\ \/ child' = [child EXCEPT ![p] = "on"]
         \/ UNCHANGED child
  BY DEF Spawn
<1>2. DutyTypeOK /\ now \in 0..MaxTime /\ now \in Nat
  BY DutyAssumption DEF Ground, DutyTypeOK
<1>3. \A q \in Process \ {p} : pc[q] = "idle"
  BY <1>1 DEF Undisturbed, Alone
<1>4. /\ pc'[p] = "watch" /\ startTime'[p] = now
      /\ \A q \in Process \ {p} : pc'[q] = "idle" /\ startTime'[q] = startTime[q]
  BY <1>1, <1>2, <1>3 DEF DutyTypeOK
<1>5. Alone' /\ Airings'
  BY <1>1, <1>4, QuietAir DEF Undisturbed, Alone
<1>6. \A q \in Process : child[q] = "off"
  <2>1. \A q \in Process : child[q] # "on"
    BY <1>1, <1>3 DEF Ground, Tools, Saving
  <2>2. QED
    BY <2>1 DEF Ground, DutyTypeOK
<1>7. ASSUME NEW a, Accounted(a) PROVE Accounted(a)'
  <2>1. Covers(file, a)
    BY <1>1, <1>3, <1>7 DEF Accounted, Saving
  <2>2. \A q \in Process : ~Saving(q)'
    BY <1>4 DEF Saving
  <2>3. QED
    BY <1>1, <2>1, <2>2 DEF Accounted, Covers
<1>8. Account'
  BY <1>1, <1>7, QuietAir DEF Undisturbed, Account
<1>9. Cleared'
  BY <1>4 DEF Cleared, Passed, Saving
<1>10. (\E s \in 0..MaxTime : Latest(s))'
  <2>1. \A a \in OnAir : a[1] <= now /\ a[1] \in Nat /\ a[2] \in Nat
    <3>1. \A a \in OnAir : a[1] <= a[2] /\ a[2] < now
      BY DEF Undisturbed, Airings
    <3>2. QED
      BY <1>2, <3>1, OnAirIs
  <2>2. CASE \E q \in Process : child'[q] = "on"
    <3>1. \A q \in Process : child'[q] = "on" => q = p
      BY <1>1, <1>2, <1>6 DEF DutyTypeOK
    <3>2. StartedAirtime < Limit
      BY <1>1 DEF Undisturbed, Cleared, Passed
    <3>3. Cardinality(Before(now)) < Limit
      <4> DEFINE O == {a \in OnAir : a[1] + Window > now}
      <4>1. O \in SUBSET OnAir /\ Before(now) \in SUBSET O
        BY DEF Before
      <4>2. /\ Cardinality(Before(now)) <= Cardinality(O)
            /\ Cardinality(Before(now)) \in Nat /\ Cardinality(O) \in Nat
        <5> HIDE DEF O
        <5> QED BY <1>2, <4>1, PartOfAir
      <4>3. Cardinality(O) < Limit
        BY <3>2 DEF StartedAirtime
      <4>4. QED
        <5> HIDE DEF O
        <5> QED BY <4>2, <4>3, DutyAssumption
    <3>4. (Latest(now))'
      <4>1. OnAir' = OnAir /\ now' = now /\ Before(now)' = Before(now)
        BY <1>1, QuietAir DEF Before
      <4>2. QED
        BY <1>2, <1>4, <2>1, <3>1, <3>3, <4>1 DEF Latest
    <3>5. QED
      BY <1>1, <1>2, <3>4
  <2>3. CASE ~\E q \in Process : child'[q] = "on"
    <3>1. PICK s \in 0..MaxTime : Latest(s)
      BY DEF Undisturbed
    <3>2. Latest(s)'
      BY <1>1, <2>3, <3>1, QuietAir DEF Latest
    <3>3. QED
      BY <3>2
  <2>4. QED
    BY <2>2, <2>3
<1>11. QED
  BY <1>5, <1>8, <1>9, <1>10 DEF Undisturbed

(* A unit of time passes: what transmits, one tool at most, has added a    *)
(* unit to its transmission, which is the latest.                          *)
LEMMA TickUndisturbed ==
  ASSUME Ground, Undisturbed, ~disturbed, Tick
  PROVE  Undisturbed'
<1>1. /\ UNCHANGED <<file, pc, after, data, startTime, child>> /\ now' = now + 1
      /\ \A p \in Process : pc[p] \in {"idle", "watch", "close", "ending"}
      /\ \A p \in Process : child[p] = "on" => now - startTime[p] < MaxTx
  BY DEF Tick
<1>2. /\ DutyTypeOK /\ now \in Nat /\ MaxTx \in Nat
      /\ \A p \in Process : startTime[p] \in Nat /\ startTime[p] <= now
  BY DutyAssumption DEF Ground, DutyTypeOK, Times
<1>3. \A p \in Process : child[p] = "on" => pc[p] = "watch"
  BY <1>1 DEF Ground, Tools, Saving
<1>4. \A p, q \in Process : child[p] = "on" /\ child[q] = "on" => p = q
  BY <1>3 DEF Undisturbed, Alone
<1> DEFINE New(a) == \E p \in Process : child[p] = "on" /\ a = <<startTime[p], now>>
<1>5. \A a : a \in OnAir' <=> (a \in OnAir \/ New(a))
  <2>1. \A p \in Process : aired'[p] = aired[p] \cup (IF child[p] = "on" THEN {<<startTime[p], now>>} ELSE {})
    BY DEF Tick
  <2>2. QED
    BY <2>1 DEF OnAir
<1>6. \A a \in OnAir : /\ a[1] \in Nat /\ a[2] \in Nat
                      /\ a[1] <= a[2] /\ a[2] < a[1] + MaxTx /\ a[2] < now
  BY <1>2, OnAirIs DEF Undisturbed, Airings
<1>7. \A a : New(a) => /\ a[1] \in Nat /\ a[2] = now /\ a[1] <= now /\ now < a[1] + MaxTx
  BY <1>1, <1>2
<1>8. Alone'
  BY <1>1 DEF Undisturbed, Alone
<1>9. Airings'
  <2>1. \A a \in OnAir' : a[1] <= a[2] /\ a[2] < a[1] + MaxTx /\ a[2] < now'
    <3> HIDE DEF New
    <3> QED BY <1>1, <1>2, <1>5, <1>6, <1>7
  <2>2. ASSUME NEW a \in OnAir', NEW b \in OnAir', a[2] = b[2] PROVE a = b
    <3>1. CASE a \in OnAir /\ b \in OnAir
      BY <2>2, <3>1 DEF Undisturbed, Airings
    <3>2. CASE New(a) /\ New(b)
      BY <1>4, <3>2
    <3>3. CASE (New(a) /\ b \in OnAir) \/ (New(b) /\ a \in OnAir)
      <4> HIDE DEF New
      <4> QED BY <1>2, <1>6, <1>7, <2>2, <3>3
    <3>4. QED
      <4> HIDE DEF New
      <4> QED BY <1>5, <2>2, <3>1, <3>2, <3>3
  <2>3. QED
    BY <2>1, <2>2 DEF Airings
<1>10. Account'
  <2> SUFFICES ASSUME NEW a \in OnAir', a[1] + Window > now' PROVE Accounted(a)'
    BY DEF Account
  <2>1. CASE a \in OnAir
    <3>1. a[1] + Window > now
      BY <1>1, <1>2, <1>6, <2>1, DutyAssumption
    <3>2. Accounted(a)
      BY <2>1, <3>1 DEF Undisturbed, Account
    <3>3. QED
      BY <1>1, <3>2 DEF Accounted, Covers, Saving
  <2>2. CASE New(a)
    BY <1>1, <1>3, <2>2 DEF Accounted
  <2>3. QED
    <3> HIDE DEF New
    <3> QED BY <1>5, <2>1, <2>2
<1>11. Cleared'
  BY <1>1 DEF Cleared, Passed, Saving
<1>12. (\E s \in 0..MaxTime : Latest(s))'
  <2>1. PICK s \in 0..MaxTime : Latest(s)
    BY DEF Undisturbed
  <2>2. s \in Nat /\ s <= now' /\ now' = now + 1
    BY <1>1, <1>2, <2>1, DutyAssumption DEF Latest
  <2>3. \A a : New(a) => a[1] = s
    BY <2>1 DEF Latest
  <2>4. \A p \in Process : child'[p] = "on" => startTime'[p] = s
    BY <1>1, <2>1 DEF Latest
  <2>5. \A a \in OnAir' : a[1] <= s
    <3> HIDE DEF New
    <3> QED BY <1>5, <2>1, <2>2, <2>3 DEF Latest
  <2>6. Before(s)' = Before(s)
    <3> HIDE DEF New
    <3> QED BY <1>5, <2>2, <2>3 DEF Before
  <2>7. (Latest(s))'
    BY <2>1, <2>2, <2>4, <2>5, <2>6 DEF Latest
  <2>8. QED
    BY <2>7
<1>13. QED
  BY <1>8, <1>9, <1>10, <1>11, <1>12 DEF Undisturbed

(* Nothing has been transmitted and nothing is listed.                     *)
LEMMA DutyInit == Init => DutyInv
<1> SUFFICES ASSUME Init PROVE DutyInv
  OBVIOUS
<1>1. <<>> \in Seq(Record) /\ DOMAIN <<>> = {}
  OBVIOUS
<1>2. 0 \in 0..MaxTime /\ 0 \in 0..MaxRuns /\ 0 \in 0..MaxKills
  BY DutyAssumption
<1>3. DutyTypeOK
  BY <1>1, <1>2 DEF Init, DutyTypeOK
<1>4. Ground
  BY <1>1, <1>3 DEF Init, Ground, Times, Entries, Started, Tools
<1>5. OnAir = {}
  BY DEF OnAir, Init
<1>6. Alone /\ Airings /\ Account /\ Cleared
  BY <1>5 DEF Init, Alone, Airings, Account, Cleared, Passed, Saving
<1>7. Latest(0)
  <2>1. Before(0) = {}
    BY <1>5 DEF Before
  <2>2. Cardinality(Before(0)) = 0
    BY <2>1, FS_EmptySet, Zenon
  <2>3. QED
    BY <1>5, <2>2, DutyAssumption DEF Latest, Init
<1>8. QED
  BY <1>2, <1>4, <1>6, <1>7 DEF DutyInv, Undisturbed

(* Every step; a kill and an overlap leave only what holds in any case.    *)
LEMMA DutyInvStep == DutyInv /\ [Next]_vars => DutyInv'
<1> SUFFICES ASSUME DutyInv, [Next]_vars, ~disturbed' PROVE Undisturbed'
  BY GroundInv DEF DutyInv
<1>1. Ground
  BY DEF DutyInv
<1>2. CASE Tick
  BY <1>1, <1>2, TickUndisturbed DEF DutyInv, Tick
<1>3. ASSUME NEW p \in Process, Check(p) PROVE Undisturbed'
  BY <1>1, <1>3, CheckUndisturbed DEF DutyInv, Check
<1>4. ASSUME NEW p \in Process, EarlyRecord(p) \/ CloseRecord(p) \/ LateRecord(p) PROVE Undisturbed'
  BY <1>1, <1>4, RecordUndisturbed DEF DutyInv, EarlyRecord, CloseRecord, LateRecord
<1>5. ASSUME NEW p \in Process, Truncate(p) PROVE Undisturbed'
  BY <1>1, <1>5, TruncateUndisturbed DEF DutyInv, Truncate
<1>6. ASSUME NEW p \in Process, Fill(p) PROVE Undisturbed'
  BY <1>1, <1>6, FillUndisturbed DEF DutyInv, Fill
<1>7. ASSUME NEW p \in Process, Spawn(p) PROVE Undisturbed'
  BY <1>1, <1>7, SpawnUndisturbed DEF DutyInv, Spawn
<1>8. ASSUME NEW p \in Process, ChildEnds(p) PROVE Undisturbed'
  BY <1>1, <1>8, ChildEndsUndisturbed DEF DutyInv, ChildEnds
<1>9. ASSUME NEW p \in Process, Killed(p) PROVE Undisturbed'
  BY <1>9 DEF Killed
<1>10. CASE UNCHANGED vars
  <2>1. Undisturbed
    BY <1>10 DEF DutyInv, vars
  <2>2. UNCHANGED <<now, aired, startTime, child, file, data, pc, after>>
    BY <1>10 DEF vars
  <2>3. (\E s \in 0..MaxTime : Latest(s))'
    BY <2>1, <2>2, QuietLatest DEF Undisturbed
  <2>4. Alone' /\ Airings' /\ Account' /\ Cleared'
    BY <2>1, <2>2, QuietAir DEF Undisturbed, Alone, Account, Accounted, Covers, Saving, Cleared, Passed
  <2>5. QED
    BY <2>3, <2>4 DEF Undisturbed
<1>11. QED
  BY <1>2, <1>3, <1>4, <1>5, <1>6, <1>7, <1>8, <1>9, <1>10 DEF Next
-----------------------------------------------------------------------------
(* The theorems.                                                           *)

(* The invariant of the guard, from which the others follow.               *)
LEMMA DutyInvInvariant == Spec => []DutyInv
  BY DutyInit, DutyInvStep, PTL DEF Spec

(* DutyTypeOK: the list is well formed at every step, in the file and in   *)
(* hand: a duration is a difference that never runs below zero.            *)
THEOREM DutyTypesHold == Spec => []DutyTypeOK
<1>1. DutyInv => DutyTypeOK
  BY DEF DutyInv, Ground
<1>2. QED
  BY <1>1, DutyInvInvariant, PTL

(* RefusedOverLimit: from the check to the start nothing is transmitted,   *)
(* and what the check found in the list is all that started in the hour.   *)
THEOREM LimitHoldsAtStart == Spec => RefusedOverLimit
<1> DEFINE Starts(p) == child[p] = "off" /\ child'[p] = "on" /\ ~disturbed
<1>1. ASSUME DutyInv, Next, NEW p \in Process, Starts(p) PROVE StartedAirtime < Limit
  <2>1. ASSUME NEW q \in Process, Spawn(q) PROVE StartedAirtime < Limit
    BY <1>1, <2>1 DEF DutyInv, Undisturbed, Cleared, Passed, Spawn
  <2>2. ASSUME NEW q \in Process, \/ Check(q) \/ Truncate(q) \/ EarlyRecord(q)
                                  \/ CloseRecord(q) \/ LateRecord(q) \/ Tick
        PROVE  FALSE
    BY <1>1, <2>2 DEF Check, Truncate, EarlyRecord, CloseRecord, LateRecord, Tick
  <2>3. ASSUME NEW q \in Process, Fill(q) \/ ChildEnds(q) \/ Killed(q) PROVE FALSE
    BY <1>1, <2>3 DEF Fill, ChildEnds, Killed, DutyInv, Ground, DutyTypeOK
  <2>4. QED
    BY <1>1, <2>1, <2>2, <2>3 DEF Next
<1>2. DutyInv /\ [Next]_vars => [\A p \in Process : Starts(p) => StartedAirtime < Limit]_vars
  BY <1>1
<1>3. QED
  BY <1>2, DutyInvInvariant, PTL DEF Spec, RefusedOverLimit

(* The units that count and are not of the transmissions before the latest *)
(* one: its own, at most MaxTx, of which those that are still to come make *)
(* room for the units that count again.                                    *)
LEMMA Overshoot ==
  ASSUME DutyTypeOK, Airings, NEW s \in 0..MaxTime, s <= now,
         NEW O \in SUBSET OnAir,
         \A a \in O : a[2] + Window >= now /\ (a[1] = s \/ a[1] + Window <= s)
  PROVE  IsFiniteSet(O) /\ Cardinality(O) <= MaxTx
<1> DEFINE I == s .. (s + MaxTx - 1)
           h == [a \in O |-> IF a[1] = s THEN a[2] ELSE a[2] + Window]
<1>1. s \in Nat /\ now \in Nat /\ MaxTx \in Nat /\ Window \in Nat /\ MaxTx >= 1
  BY DutyAssumption DEF DutyTypeOK
<1>2. \A a \in O : a[1] \in Nat /\ a[2] \in Nat /\ a[1] <= a[2] /\ a[2] < a[1] + MaxTx /\ a[2] < now
  BY OnAirIs DEF Airings
<1>3. \A a \in O : h[a] \in I
  BY <1>1, <1>2
<1>4. ASSUME NEW a \in O, NEW b \in O, h[a] = h[b] PROVE a = b
  <2>1. a[2] = b[2]
    BY <1>1, <1>2, <1>4
  <2>2. QED
    BY <2>1 DEF Airings
<1>5. h \in Injection(O, I)
  <2> HIDE DEF I
  <2>1. h \in [O -> I]
    BY <1>3
  <2> HIDE DEF h
  <2>2. IsInjective(h)
    BY <1>4, <2>1 DEF IsInjective
  <2>3. QED
    BY <2>1, <2>2 DEF Injection
<1>6. IsFiniteSet(I) /\ Cardinality(I) = MaxTx
  <2>1. s \in Int /\ s + MaxTx - 1 \in Int
    BY <1>1
  <2>2. /\ IsFiniteSet(I)
        /\ Cardinality(I) = IF s > s + MaxTx - 1 THEN 0 ELSE (s + MaxTx - 1) - s + 1
    BY <2>1, FS_Interval
  <2>3. QED
    BY <1>1, <2>2
<1>7. QED
  <2> HIDE DEF h, I
  <2> QED BY <1>5, <1>6, FS_Injection

(* RollingBound: an hour of the radio holds what the guard let pass and    *)
(* one transmission.                                                       *)
THEOREM HourIsBounded == Spec => []RollingBound
<1>1. ASSUME Ground, Undisturbed PROVE Airtime <= (Limit - 1) + MaxTx
  <2>1. PICK s \in 0..MaxTime : Latest(s)
    BY <1>1 DEF Undisturbed
  <2>2. DutyTypeOK /\ Airings /\ s <= now /\ \A a \in OnAir : a[1] <= s
    BY <1>1, <2>1 DEF Ground, Undisturbed, Latest
  <2> DEFINE Y == Before(s)
             X == {a \in OnAir : a[2] + Window >= now /\ (a[1] = s \/ a[1] + Window <= s)}
             A == {a \in OnAir : a[2] + Window >= now}
  <2>3. A \subseteq X \cup Y
    <3>1. s \in Nat /\ \A a \in OnAir : a[1] \in Nat
      BY <2>2, OnAirIs, DutyAssumption
    <3>2. QED
      BY <2>2, <3>1, DutyAssumption DEF Before
  <2>4. IsFiniteSet(X) /\ Cardinality(X) <= MaxTx
    <3>1. \A a \in X : a[2] + Window >= now /\ (a[1] = s \/ a[1] + Window <= s)
      OBVIOUS
    <3>2. X \in SUBSET OnAir
      OBVIOUS
    <3> HIDE DEF X
    <3>3. QED
      BY <2>2, <3>1, <3>2, Overshoot
  <2>5. IsFiniteSet(Y) /\ Cardinality(Y) < Limit
    <3>1. Y \in SUBSET OnAir
      BY DEF Before
    <3>2. QED
      BY <2>1, <2>2, <3>1, PartOfAir DEF Latest
  <2> HIDE DEF X, Y, A
  <2>6. /\ IsFiniteSet(X \cup Y)
        /\ Cardinality(X \cup Y) = Cardinality(X) + Cardinality(Y) - Cardinality(X \cap Y)
    BY <2>4, <2>5, FS_Union
  <2>7. IsFiniteSet(A) /\ Cardinality(A) <= Cardinality(X \cup Y)
    BY <2>3, <2>6, FS_Subset
  <2>8. IsFiniteSet(X \cap Y)
    BY <2>4, FS_Intersection
  <2>9. /\ Cardinality(X) \in Nat /\ Cardinality(Y) \in Nat /\ Cardinality(A) \in Nat
        /\ Cardinality(X \cap Y) \in Nat
    BY <2>4, <2>5, <2>7, <2>8, FS_CardinalityType
  <2>10. Cardinality(A) <= (Limit - 1) + MaxTx
    BY <2>4, <2>5, <2>6, <2>7, <2>9, DutyAssumption
  <2>11. QED
    BY <2>10 DEF A, Airtime
<1>2. DutyInv => RollingBound
  BY <1>1 DEF DutyInv, RollingBound
<1>3. QED
  BY <1>2, DutyInvInvariant, PTL

(* NoRefusalAfterRest: no entry is younger than the latest start, so that  *)
(* an hour after it the list has nothing left to add up.                   *)
THEOREM RestIsEnough == Spec => []NoRefusalAfterRest
<1>1. ASSUME Ground, \A p \in Process : startTime[p] + Window <= now
      PROVE  ~Refuses(Usage(Kept(file)))
  <2>1. file \in Seq(Record) /\ Started(file) /\ now \in Nat /\ Window \in Nat
        /\ \A p \in Process : startTime[p] \in Nat
    BY <1>1, DutyAssumption DEF Ground, DutyTypeOK, Entries
  <2>2. ASSUME NEW i \in DOMAIN file PROVE ~Recent(file[i])
    <3>1. file[i] \in Record
      BY <2>1, Places
    <3>2. file[i].timestamp \in Nat
      BY <3>1, DutyAssumption DEF Record
    <3>3. PICK p \in Process : file[i].timestamp <= startTime[p]
      BY <2>1 DEF Started
    <3>4. QED
      BY <1>1, <2>1, <3>2, <3>3 DEF Recent
  <2>3. \A i \in DOMAIN Kept(file) : FALSE
    <3>1. ASSUME NEW i \in DOMAIN Kept(file) PROVE FALSE
      <4>1. Entry(Kept(file), DOMAIN Kept(file), Kept(file)[i])
        BY DEF Entry
      <4>2. Entry(file, DOMAIN file, Kept(file)[i]) /\ Recent(Kept(file)[i])
        BY <2>1, <4>1, KeptIs
      <4>3. QED
        BY <2>2, <4>2 DEF Entry
    <3>2. QED
      BY <3>1
  <2>4. Kept(file) = <<>>
    <3>1. Kept(file) \in Seq(Record)
      BY <2>1, KeptIs
    <3>2. QED
      BY <2>3, <3>1
  <2>5. QED
    BY <2>4, UsageOfNothing, DutyAssumption DEF Refuses
<1>2. DutyInv => NoRefusalAfterRest
  BY <1>1 DEF DutyInv, NoRefusalAfterRest
<1>3. QED
  BY <1>2, DutyInvInvariant, PTL
====
