------------------------------- MODULE NvrProofs -------------------------------
(***************************************************************************)
(* The EEPROM (NvrStore): for chips of any size, and however the pins      *)
(* move, the memory changes only as commanded, and what was written is     *)
(* there after a restart.                                                  *)
(***************************************************************************)
EXTENDS NvrStore, FiniteSetTheorems, FunctionTheorems, SequenceTheorems, WellFoundedInduction, TLAPS

-----------------------------------------------------------------------------
(***************************************************************************)
(* Sizes.                                                                  *)
(***************************************************************************)
\* There are as many words as sets of address bits.
LEMMA SizeIsNat == Size \in Nat /\ Size >= 2
<1>1. IsFiniteSet(1..ABits) /\ Cardinality(1..ABits) = ABits
  BY NvrAssumption, FS_Interval
<1>2. Cardinality(SUBSET (1..ABits)) = Size /\ IsFiniteSet(SUBSET (1..ABits))
  BY <1>1, FS_SUBSET DEF Size
<1>3. {} \in SUBSET (1..ABits) /\ {1} \in SUBSET (1..ABits) /\ {} # {1}
  BY NvrAssumption
<1>4. Size \in Nat /\ Size # 0
  BY <1>2, <1>3, FS_CardinalityType, FS_EmptySet
<1>5. Size # 1
  <2> SUFFICES ASSUME Size = 1 PROVE FALSE
    OBVIOUS
  <2>1. PICK x : SUBSET (1..ABits) = {x}
    BY <1>2, FS_Singleton
  <2> QED
    BY <1>3, <2>1
<1> QED
  BY <1>4, <1>5

LEMMA Lengths ==
  /\ ABits \in Nat /\ DBits \in Nat /\ ABits >= 1 /\ DBits >= 1
  /\ CmdLen \in Nat /\ CmdLen = ABits + 6 /\ Recorded = CmdLen + DBits
  BY NvrAssumption DEF CmdLen, Recorded

-----------------------------------------------------------------------------
(***************************************************************************)
(* Numbers of some bits.                                                   *)
(***************************************************************************)
\* There are twice as many subsets with one element more.
LEMMA PowerDoubles ==
  /\ 2^0 = 1
  /\ \A n \in Nat : 2^n \in Nat \ {0} /\ 2^(n + 1) = 2 * 2^n
<1>1. ASSUME NEW n \in Nat PROVE Cardinality(SUBSET (1..n)) = 2^n /\ IsFiniteSet(SUBSET (1..n)) /\ 2^n \in Nat \ {0}
  <2>1. IsFiniteSet(1..n) /\ Cardinality(1..n) = n
    BY FS_Interval
  <2>2. Cardinality(SUBSET (1..n)) = 2^n /\ IsFiniteSet(SUBSET (1..n))
    BY <2>1, FS_SUBSET
  <2>3. SUBSET (1..n) # {}
    OBVIOUS
  <2>4. Cardinality(SUBSET (1..n)) \in Nat /\ Cardinality(SUBSET (1..n)) # 0
    BY <2>2, <2>3, FS_CardinalityType, FS_EmptySet
  <2> QED
    BY <2>2, <2>4
<1>2. 2^0 = 1
  <2>1. 1..0 = {} /\ SUBSET {} = {{}}
    OBVIOUS
  <2>2. Cardinality({{}}) = 1
    BY FS_Singleton
  <2>3. Cardinality(SUBSET (1..0)) = 2^0
    BY <1>1
  <2> QED
    BY <2>1, <2>2, <2>3
<1>3. ASSUME NEW n \in Nat PROVE 2^(n + 1) = 2 * 2^n
  <2> DEFINE A == SUBSET (1..n)
             f == [t \in A |-> t \cup {n + 1}]
             B == {t \in SUBSET (1..(n + 1)) : n + 1 \in t}
  <2>1. IsFiniteSet(A) /\ Cardinality(A) = 2^n /\ 2^n \in Nat
    BY <1>1
  <2>2. f \in [A -> B]
    OBVIOUS
  <2>3. \A t \in A : n + 1 \notin t
    OBVIOUS
  <2>4. \A x, y \in A : f[x] = f[y] => x = y
    <3> SUFFICES ASSUME NEW x \in A, NEW y \in A, f[x] = f[y] PROVE x = y
      OBVIOUS
    <3>1. x \cup {n + 1} = y \cup {n + 1} /\ n + 1 \notin x /\ n + 1 \notin y
      BY <2>3
    <3> QED
      BY <3>1
  <2>5. \A t \in B : \E x \in A : f[x] = t
    <3> SUFFICES ASSUME NEW t \in B PROVE \E x \in A : f[x] = t
      OBVIOUS
    <3>1. \A i \in t \ {n + 1} : i \in 1..n
      OBVIOUS
    <3>2. t \ {n + 1} \in A /\ (t \ {n + 1}) \cup {n + 1} = t
      BY <3>1
    <3>3. f[t \ {n + 1}] = t
      BY <3>2
    <3> QED
      BY <3>2, <3>3
  <2>6. A \cup B = SUBSET (1..(n + 1)) /\ A \cap B = {}
    <3>1. \A t \in SUBSET (1..(n + 1)) : n + 1 \notin t => t \in A
      <4> SUFFICES ASSUME NEW t \in SUBSET (1..(n + 1)), n + 1 \notin t, NEW i \in t PROVE i \in 1..n
        OBVIOUS
      <4>1. i \in 1..(n + 1) /\ i # n + 1
        OBVIOUS
      <4> QED
        BY <4>1
    <3>2. A \subseteq SUBSET (1..(n + 1))
      OBVIOUS
    <3> QED
      BY <2>3, <3>1, <3>2
  <2> HIDE DEF A, f, B
  <2>7. f \in Bijection(A, B)
    BY <2>2, <2>4, <2>5, Fun_IsBij
  <2>8. IsFiniteSet(B) /\ Cardinality(B) = 2^n
    <3>1. ExistsBijection(A, B)
      BY <2>7 DEF ExistsBijection
    <3> QED
      BY <2>1, <3>1, FS_Bijection
  <2>9. Cardinality(A \cup B) = 2^n + 2^n
    <3>1. Cardinality(A \cap B) = 0
      BY <2>6, FS_EmptySet
    <3>2. Cardinality(A \cup B) = Cardinality(A) + Cardinality(B) - Cardinality(A \cap B)
      BY <2>1, <2>8, FS_Union
    <3> QED
      BY <2>1, <2>8, <3>1, <3>2
  <2>10. Cardinality(A \cup B) = 2^(n + 1)
    BY <1>1, <2>6
  <2> QED
    BY <2>1, <2>9, <2>10
<1> QED
  BY <1>1, <1>2, <1>3

\* Induction, for sets of numbers: the least number outside would have its predecessor inside.
LEMMA Induction ==
  ASSUME NEW T, 0 \in T, \A n \in Nat : n \in T => n + 1 \in T
  PROVE  \A n \in Nat : n \in T
<1> DEFINE Out == {n \in Nat : n \notin T}
<1> SUFFICES ASSUME Out # {} PROVE FALSE
  OBVIOUS
<1>1. PICK x \in Out : \A y \in Out : ~(<<y, x>> \in OpToRel(<, Nat))
  <2>1. Out \subseteq Nat
    OBVIOUS
  <2> HIDE DEF Out
  <2> QED
    BY <2>1, NatLessThanWellFounded, WFMin
<1>2. x \in Nat /\ x # 0 /\ x - 1 \in Nat /\ x - 1 \in T => FALSE
  OBVIOUS
<1>3. x - 1 \in Out
  BY <1>2
<1>4. <<x - 1, x>> \in OpToRel(<, Nat)
  BY <1>3 DEF OpToRel
<1> QED
  BY <1>1, <1>3, <1>4

\* The function that folds a number over the bits numbered by a set, the last one last.
Folds(g, D, s) ==
  g = [t \in SUBSET D |-> IF t = {} THEN 0 ELSE 2 * g[t \ {Max(t)}] + s[Max(t)]]

Steps(g, D, s) ==
  \A t \in SUBSET D : g[t] = IF t = {} THEN 0 ELSE 2 * g[t \ {Max(t)}] + s[Max(t)]

LEMMA FoldsAt == ASSUME NEW g, NEW D, NEW s, Folds(g, D, s) PROVE Steps(g, D, s)
  BY Zenon DEF Folds, Steps

LEMMA LastOf ==
  ASSUME NEW n \in Nat, NEW t \in SUBSET (1..(n + 1)), n + 1 \in t
  PROVE  Max(t) = n + 1 /\ t \ {n + 1} \in SUBSET (1..n) /\ n + 1 \notin t \ {n + 1}
<1>1. \A y \in t : y \in 1..(n + 1) /\ n + 1 >= y
  OBVIOUS
<1>2. Max(t) \in t /\ \A y \in t : Max(t) >= y
  BY <1>1, Zenon DEF Max
<1>3. Max(t) \in 1..(n + 1) /\ Max(t) >= n + 1
  BY <1>1, <1>2
<1>4. ASSUME NEW y \in t \ {n + 1} PROVE y \in 1..n
  BY <1>1
<1> QED
  BY <1>3, <1>4

LEMMA NotLast ==
  ASSUME NEW n \in Nat, NEW t \in SUBSET (1..(n + 1)), n + 1 \notin t
  PROVE  t \in SUBSET (1..n) /\ \A x : t \ {x} \in SUBSET (1..n) /\ n + 1 \notin t \ {x}
<1>1. ASSUME NEW y \in t PROVE y \in 1..n
  <2>1. y \in 1..(n + 1) /\ y # n + 1
    OBVIOUS
  <2> QED
    BY <2>1
<1> QED
  BY <1>1

LEMMA FoldExists == ASSUME NEW s, NEW n \in Nat PROVE \E g : Folds(g, 1..n, s)
<1> DEFINE T == {k \in Nat : \E g : Folds(g, 1..k, s)}
<1>1. 0 \in T
  <2> DEFINE g == [t \in SUBSET (1..0) |-> 0]
  <2>1. 1..0 = {}
    OBVIOUS
  <2>2. g = [t \in SUBSET (1..0) |-> IF t = {} THEN 0 ELSE 2 * g[t \ {Max(t)}] + s[Max(t)]]
    BY <2>1
  <2> HIDE DEF g
  <2>3. Folds(g, 1..0, s)
    BY <2>2, Zenon DEF Folds
  <2> QED
    BY <2>3
<1>2. ASSUME NEW k \in Nat, k \in T PROVE k + 1 \in T
  <2>1. PICK g : Folds(g, 1..k, s)
    BY <1>2
  <2> DEFINE h == [t \in SUBSET (1..(k + 1)) |->
                     IF k + 1 \in t THEN 2 * g[t \ {k + 1}] + s[k + 1] ELSE g[t]]
  <2>c. Steps(g, 1..k, s) /\ {} \in SUBSET (1..k)
    BY <2>1, FoldsAt
  <2>a. SUBSET (1..k) \subseteq SUBSET (1..(k + 1))
    OBVIOUS
  <2>b. /\ \A t \in SUBSET (1..(k + 1)) : k + 1 \in t => h[t] = 2 * g[t \ {k + 1}] + s[k + 1]
        /\ \A t \in SUBSET (1..(k + 1)) : k + 1 \notin t => h[t] = g[t]
    BY Zenon
  <2> HIDE DEF h
  <2>2. ASSUME NEW t \in SUBSET (1..(k + 1))
        PROVE  h[t] = IF t = {} THEN 0 ELSE 2 * h[t \ {Max(t)}] + s[Max(t)]
    <3>1. CASE k + 1 \in t
      <4>1. Max(t) = k + 1 /\ t \ {k + 1} \in SUBSET (1..k) /\ k + 1 \notin t \ {k + 1}
        BY <3>1, LastOf
      <4>2. h[t \ {k + 1}] = g[t \ {k + 1}] /\ h[t] = 2 * g[t \ {k + 1}] + s[k + 1]
        BY <3>1, <4>1, <2>a, <2>b
      <4> QED
        BY <3>1, <4>1, <4>2
    <3>2. CASE k + 1 \notin t
      <4>1. t \in SUBSET (1..k) /\ t \ {Max(t)} \in SUBSET (1..(k + 1)) /\ k + 1 \notin t \ {Max(t)}
        BY <3>2, NotLast, <2>a
      <4>2. h[t] = g[t] /\ h[t \ {Max(t)}] = g[t \ {Max(t)}]
        BY <3>2, <4>1, <2>b
      <4>3. g[{}] = 0 /\ (t # {} => g[t] = 2 * g[t \ {Max(t)}] + s[Max(t)])
        BY <2>c, <4>1, Zenon DEF Steps
      <4> QED
        BY <4>2, <4>3
    <3> QED
      BY <3>1, <3>2
  <2>3. h = [t \in SUBSET (1..(k + 1)) |-> h[t]]
    BY DEF h
  <2>4. Folds(h, 1..(k + 1), s)
    BY <2>2, <2>3, Zenon DEF Folds
  <2> QED
    BY <2>4
<1> HIDE DEF T
<1>3. n \in T
  BY <1>1, <1>2, Induction
<1> QED
  BY <1>3 DEF T

\* A bit more changes nothing in what is folded of the bits before it.
LEMMA FoldsAgree ==
  ASSUME NEW n \in Nat, NEW s, NEW r, \A i \in 1..n : r[i] = s[i],
         NEW g, Folds(g, 1..n, s), NEW h, Folds(h, 1..(n + 1), r)
  PROVE  h[1..n] = g[1..n]
<1> DEFINE T == {k \in Nat : k <= n => \A t \in SUBSET (1..k) : h[t] = g[t]}
<1>1. /\ g[{}] = 0 /\ h[{}] = 0
      /\ \A t \in SUBSET (1..n) : t # {} => /\ g[t] = 2 * g[t \ {Max(t)}] + s[Max(t)]
                                           /\ h[t] = 2 * h[t \ {Max(t)}] + r[Max(t)]
  <2>1. SUBSET (1..n) \subseteq SUBSET (1..(n + 1))
    OBVIOUS
  <2>4. Steps(g, 1..n, s) /\ Steps(h, 1..(n + 1), r) /\ {} \in SUBSET (1..n) /\ {} \in SUBSET (1..(n + 1))
    BY FoldsAt
  <2>2. g[{}] = 0 /\ \A t \in SUBSET (1..n) : t # {} => g[t] = 2 * g[t \ {Max(t)}] + s[Max(t)]
    BY <2>4, Zenon DEF Steps
  <2>3. h[{}] = 0 /\ \A t \in SUBSET (1..(n + 1)) : t # {} => h[t] = 2 * h[t \ {Max(t)}] + r[Max(t)]
    BY <2>4, Zenon DEF Steps
  <2> QED
    BY <2>1, <2>2, <2>3
<1>2. 0 \in T
  <2>1. \A t \in SUBSET (1..0) : t = {}
    OBVIOUS
  <2> QED
    BY <1>1, <2>1
<1>3. ASSUME NEW k \in Nat, k \in T, k + 1 <= n, NEW t \in SUBSET (1..(k + 1)) PROVE h[t] = g[t]
  <2>1. CASE k + 1 \in t
    <3>1. Max(t) = k + 1 /\ t \ {k + 1} \in SUBSET (1..k) /\ t # {}
      BY <1>3, <2>1, LastOf
    <3>4. t \in SUBSET (1..n)
      BY <1>3
    <3>2. h[t \ {k + 1}] = g[t \ {k + 1}] /\ r[k + 1] = s[k + 1]
      BY <1>3, <3>1
    <3> QED
      BY <1>1, <3>1, <3>2, <3>4
  <2>2. CASE k + 1 \notin t
    BY <1>3, <2>2, NotLast
  <2> QED
    BY <2>1, <2>2
<1> HIDE DEF T
<1>4. ASSUME NEW k \in Nat, k \in T PROVE k + 1 \in T
  <2>1. k + 1 \in Nat
    OBVIOUS
  <2>2. k + 1 <= n => \A t \in SUBSET (1..(k + 1)) : h[t] = g[t]
    BY <1>3, <1>4
  <2> QED
    BY <2>1, <2>2, Zenon DEF T
<1>5. n \in T
  BY <1>2, <1>4, Induction
<1> QED
  BY <1>5 DEF T

LEMMA NumberIsFold ==
  ASSUME NEW s \in Seq(Bits), NEW n \in Nat, n = Len(s)
  PROVE  \E g : Folds(g, 1..n, s) /\ Number(s) = g[1..n]
<1> DEFINE G == CHOOSE g : Folds(g, 1..n, s)
<1>1. Number(s) = G[1..n]
  <2>1. DOMAIN s = 1..n
    OBVIOUS
  <2>2. Number(s) = (CHOOSE g : Folds(g, DOMAIN s, s))[DOMAIN s]
    BY DEF Number, FoldLeft, MapThenFoldSet, Folds
  <2> QED
    BY <2>1, <2>2
<1>2. \E g : Folds(g, 1..n, s)
  BY FoldExists
<1>3. Folds(G, 1..n, s)
  BY <1>2, Zenon
<1> QED
  BY <1>1, <1>3

\* A number grows bit by bit.
LEMMA NumberGrows ==
  /\ Number(<<>>) = 0
  /\ \A s \in Seq(Bits), b \in Bits : Number(Append(s, b)) = 2 * Number(s) + b
<1>1. Number(<<>>) = 0
  <2> DEFINE none == <<>>
  <2>3. none \in Seq(Bits) /\ 0 = Len(none) /\ Len(none) \in Nat
    OBVIOUS
  <2> HIDE DEF none
  <2>1. PICK g : Folds(g, 1..0, none) /\ Number(none) = g[1..0]
    <3>1. \E g : Folds(g, 1..Len(none), none) /\ Number(none) = g[1..Len(none)]
      BY <2>3, NumberIsFold
    <3> QED
      BY <2>3, <3>1
  <2>2. 1..0 = {}
    OBVIOUS
  <2>4. g[{}] = 0
    <3>1. Steps(g, 1..0, none) /\ {} \in SUBSET (1..0)
      BY <2>1, FoldsAt
    <3> QED
      BY <3>1, Zenon DEF Steps
  <2>5. Number(none) = 0
    BY <2>1, <2>2, <2>4
  <2> QED
    BY <2>5 DEF none
<1>2. ASSUME NEW s \in Seq(Bits), NEW b \in Bits PROVE Number(Append(s, b)) = 2 * Number(s) + b
  <2> DEFINE n == Len(s)
             r == Append(s, b)
  <2>1. n \in Nat /\ r \in Seq(Bits) /\ Len(r) = n + 1 /\ r[n + 1] = b /\ \A i \in 1..n : r[i] = s[i]
    OBVIOUS
  <2>a. n = Len(s) /\ r = Append(s, b)
    OBVIOUS
  <2> HIDE DEF n, r
  <2>2. PICK g : Folds(g, 1..n, s) /\ Number(s) = g[1..n]
    BY <2>1, <2>a, NumberIsFold
  <2>3. PICK h : Folds(h, 1..(n + 1), r) /\ Number(r) = h[1..(n + 1)]
    BY <2>1, NumberIsFold
  <2>4. h[1..n] = g[1..n]
    BY <2>1, <2>2, <2>3, FoldsAgree
  <2>5. n + 1 \in 1..(n + 1)
    BY <2>1
  <2>6. Max(1..(n + 1)) = n + 1
    BY <2>1, <2>5, LastOf
  <2>7. h[1..(n + 1)] = 2 * h[1..(n + 1) \ {Max(1..(n + 1))}] + r[Max(1..(n + 1))]
    <3>1. Steps(h, 1..(n + 1), r) /\ 1..(n + 1) \in SUBSET (1..(n + 1)) /\ 1..(n + 1) # {}
      BY <2>3, <2>5, FoldsAt
    <3> QED
      BY <3>1, Zenon DEF Steps
  <2>8. ((1..(n + 1)) \ {n + 1}) = 1..n
    BY <2>1
  <2>9. Number(r) = 2 * h[1..n] + b
    BY <2>1, <2>3, <2>6, <2>7, <2>8
  <2> QED
    BY <2>2, <2>4, <2>9, <2>a
<1> QED
  BY <1>1, <1>2


\* n bits are a number of n bits.
LEMMA NumberFits == \A s \in Seq(Bits) : Number(s) \in 0..(2^Len(s) - 1)
<1> DEFINE T == {n \in Nat : \A s \in Seq(Bits) : Len(s) = n => Number(s) \in 0..(2^n - 1)}
<1>1. 0 \in T
  <2>1. \A s \in Seq(Bits) : Len(s) = 0 => s = <<>>
    BY EmptySeq
  <2>2. 0 \in 0..(2^0 - 1)
    BY PowerDoubles
  <2> QED
    BY <2>1, <2>2, NumberGrows
<1>2. ASSUME NEW n \in Nat, n \in T PROVE n + 1 \in T
  <2> SUFFICES ASSUME NEW s \in Seq(Bits), Len(s) = n + 1 PROVE Number(s) \in 0..(2^(n + 1) - 1)
    OBVIOUS
  <2> DEFINE f == SubSeq(s, 1, n)
             b == s[n + 1]
  <2>1. f \in Seq(Bits) /\ Len(f) = n /\ b \in Bits /\ s = Append(f, b)
    OBVIOUS
  <2> HIDE DEF f, b
  <2>2. Number(f) \in 0..(2^n - 1) /\ Number(s) = 2 * Number(f) + b
    BY <1>2, <2>1, NumberGrows
  <2>3. PICK p \in Nat \ {0} : p = 2^n /\ 2^(n + 1) = 2 * p
    BY PowerDoubles
  <2>4. PICK k \in 0..(p - 1) : k = Number(f)
    BY <2>2, <2>3
  <2>5. 2 * k + b \in 0..(2 * p - 1)
    BY <2>1 DEF Bits
  <2> QED
    BY <2>2, <2>3, <2>4, <2>5
<1> HIDE DEF T
<1>3. ASSUME NEW s \in Seq(Bits) PROVE Number(s) \in 0..(2^Len(s) - 1)
  <2>1. Len(s) \in T /\ Len(s) \in Nat
    BY <1>1, <1>2, Induction
  <2> QED
    BY <2>1 DEF T
<1> QED
  BY <1>3

-----------------------------------------------------------------------------
(***************************************************************************)
(* Saving.                                                                 *)
(***************************************************************************)
Phases == {"new", "off", "killed", "step", "save", "write"}

\* Between two saves the file is what is in memory, unless a write waits for the save.
Saved == (~unsaved /\ ~ioFailed /\ ~erased) => Loaded(file) = mem
SaveInv ==
  /\ phase \in Phases
  /\ mem = [a \in Addr |-> mem[a]]
  /\ phase \in {"new", "off", "killed", "step"} => ~unsaved
  /\ phase \in {"off", "step", "save"} => Saved

LEMMA ImageIsLoaded == ASSUME mem = [a \in Addr |-> mem[a]] PROVE Loaded(Image) = mem
<1> DEFINE f == Image
<1>1. f # Absent /\ Len(f) = Size /\ \A a \in Addr : f[a + 1] = mem[a]
  BY SizeIsNat DEF Image, Absent, Addr
<1>2. Loaded(f) = [a \in Addr |-> mem[a]]
  <2> HIDE DEF f
  <2> QED
    BY <1>1, SizeIsNat DEF Loaded, Addr
<1> QED
  BY <1>2

LEMMA FactoryIsLoaded == Loaded(Factory) = Loaded(Absent) /\ Factory # Absent
<1>1. Factory # Absent
  BY SizeIsNat DEF Factory, Absent
<1> QED
  BY <1>1 DEF Loaded

LEMMA LoadedIsFunction == ASSUME NEW f PROVE Loaded(f) = [a \in Addr |-> Loaded(f)[a]]
  BY DEF Loaded

\* A tick that changes the memory is a write, which waits for the save, or an ERAL.
LEMMA TickSaves ==
  ASSUME NvrTick, mem = [a \in Addr |-> mem[a]]
  PROVE  /\ mem' = [a \in Addr |-> mem'[a]]
         /\ mem' = mem \/ unsaved' \/ erased'
         /\ (unsaved => unsaved') /\ (erased => erased')
<1>1. CASE Deselected
  BY <1>1 DEF Deselected
<1>2. CASE Fall
  BY <1>2 DEF Fall
<1>3. CASE NoEdge
  BY <1>3 DEF NoEdge
<1>4. CASE Rise
  <2>1. CASE ShiftData
    BY <2>1 DEF ShiftData
  <2>2. CASE ShiftCommand
    <3>1. CASE UNCHANGED <<wEnable, mem, erased>>
      BY <2>2, <3>1 DEF ShiftCommand
    <3>2. CASE Decode(Append(Selected.bits, di), Selected.bits)
      BY <2>2, <3>2 DEF ShiftCommand, Decode, DecodeIf
    <3> QED
      BY <2>2, <3>1, <3>2 DEF ShiftCommand
  <2>3. CASE UNCHANGED <<chip, wEnable, doLine, mem, unsaved, erased>>
    BY <2>3
  <2> QED
    BY <1>4, <2>1, <2>2, <2>3 DEF Rise
<1> QED
  BY <1>1, <1>2, <1>3, <1>4 DEF NvrTick

LEMMA InitSave == Init => SaveInv
  BY LoadedIsFunction DEF Init, SaveInv, Phases

LEMMA NextSave == SaveInv /\ [Next]_vars => SaveInv'
<1> SUFFICES ASSUME SaveInv, [Next]_vars PROVE SaveInv'
  OBVIOUS
<1>1. CASE Boot
  <2>1. Loaded(file') = Loaded(file)
    BY <1>1, FactoryIsLoaded DEF Boot, PowerUp
  <2> QED
    BY <1>1, <2>1, LoadedIsFunction DEF Boot, PowerUp, SaveInv, Saved, Phases
<1>2. CASE Stop
  BY <1>2 DEF Stop, SaveInv, Saved, Loaded, Phases
<1>3. CASE NvrTick
  <2>1. phase = "step" /\ phase' = "save" /\ UNCHANGED <<file, ioFailed>>
    BY <1>3 DEF NvrTick
  <2>2. Saved'
    BY <1>3, <2>1, TickSaves DEF SaveInv, Saved, Loaded
  <2> QED
    BY <1>3, <2>1, <2>2, TickSaves DEF SaveInv, Phases
<1>4. CASE Save
  <2>1. /\ phase = "save" /\ mem' = mem /\ erased' = erased /\ Saved
        /\ \/ ~unsaved /\ phase' = "step" /\ UNCHANGED <<file, unsaved, ioFailed>>
           \/ unsaved /\ phase' = "write"
           \/ phase' = "step" /\ ~unsaved' /\ ioFailed'
    BY <1>4 DEF Save, SaveInv, chipVars, histVars
  <2> QED
    BY <2>1 DEF SaveInv, Saved, Loaded, Phases
<1>5. CASE WriteImage
  <2>1. mem' = mem /\ phase' = "step" /\ ~unsaved' /\ (ioFailed' \/ file' = Image)
    BY <1>5 DEF WriteImage, chipVars
  <2>2. Saved'
    BY <2>1, ImageIsLoaded DEF SaveInv, Saved, Loaded
  <2> QED
    BY <2>1, <2>2 DEF SaveInv, Phases
<1>6. CASE UNCHANGED vars
  BY <1>6 DEF vars, chipVars, histVars, SaveInv, Saved, Loaded
<1> QED
  BY <1>1, <1>2, <1>3, <1>4, <1>5, <1>6 DEF Next

\* vt420.c: whatever the size of the chip, and whenever the process was stopped between two
\* steps, the next one starts with the memory as the firmware left it, unless saving failed or
\* the last change was an ERAL.
THEOREM WritesSurviveRestarts == Spec => SavedWritesSurvive
<1> DEFINE P == (phase = "off" /\ phase' = "step" /\ ~ioFailed /\ ~erased) => mem' = mem
<1>1. SaveInv /\ [Next]_vars => [P]_vars
  <2> SUFFICES ASSUME SaveInv, Next, phase = "off", phase' = "step", ~ioFailed, ~erased
               PROVE  mem' = mem
    OBVIOUS
  <2>1. Boot
    BY DEF Next, Stop, NvrTick, Save, WriteImage
  <2> QED
    BY <2>1 DEF Boot, SaveInv, Saved
<1> QED
  BY <1>1, InitSave, NextSave, PTL DEF Spec, SavedWritesSurvive

-----------------------------------------------------------------------------
(***************************************************************************)
(* The commands.                                                           *)
(***************************************************************************)
LEMMA AppendKeeps ==
  ASSUME NEW s \in Seq(Bits), NEW d \in Bits, NEW m \in Nat, NEW n \in Nat, 1 <= m, n <= Len(s)
  PROVE  SubSeq(Append(s, d), m, n) = SubSeq(s, m, n)
  OBVIOUS

LEMMA AppendEnds ==
  ASSUME NEW s \in Seq(Bits), NEW d \in Bits, NEW m \in Nat, 1 <= m, m <= Len(s) + 1
  PROVE  SubSeq(Append(s, d), m, Len(s) + 1) = Append(SubSeq(s, m, Len(s)), d)
  OBVIOUS

\* A bit more does not change what the bits before it say.
LEMMA AppendReads ==
  ASSUME NEW s \in Seq(Bits), NEW d \in Bits, Len(s) >= 6
  PROVE  /\ Op(Append(s, d)) = Op(s) /\ Started(Append(s, d)) = Started(s)
         /\ Len(s) >= CmdLen => AddrOf(Append(s, d)) = AddrOf(s)
<1>1. SubSeq(Append(s, d), 3, 6) = SubSeq(s, 3, 6)
  BY AppendKeeps
<1>2. Append(s, d)[2] = s[2]
  OBVIOUS
<1>3. ASSUME Len(s) >= CmdLen PROVE SubSeq(Append(s, d), 7, 6 + ABits) = SubSeq(s, 7, 6 + ABits)
  BY <1>3, AppendKeeps, Lengths
<1> QED
  BY <1>1, <1>2, <1>3 DEF Op, Started, AddrOf

\* The bits since CS rose, and what the chip has kept of them.
Since == IF lastCs THEN clocked ELSE <<>>

\* After an EWEN or EWDS the chip holds all bits but the last, and takes the next one for it.
Decoded == /\ Len(chip.bits) = CmdLen - 1 /\ Is(chip.bits, EWEN \cup EWDS)
           /\ Len(clocked) >= CmdLen /\ enabled = (Op(chip.bits) \in EWEN)
Shifting == /\ chip.bits \in Seq(Bits)
            /\ (chip.bits = clocked /\ Len(clocked) < CmdLen) \/ Decoded
Writing == /\ chip.bits \in Seq(Bits) /\ Len(chip.bits) < DBits
           /\ Len(clocked) = CmdLen + Len(chip.bits)
           /\ Is(clocked, WRITE) /\ chip.addr = AddrOf(clocked)
           /\ chip.bits = SubSeq(clocked, CmdLen + 1, Len(clocked))
CommandInv ==
  /\ clocked \in Seq(Bits) /\ wEnable = enabled
  /\ "kind" \in DOMAIN chip
  /\ ~lastCs => clocked = <<>>
  /\ lastCs /\ chip.kind = "shift_cmd" => Shifting
  /\ lastCs /\ chip.kind = "write_data" => Writing
  /\ lastCs /\ chip.kind \notin {"shift_cmd", "write_data"} => Len(clocked) >= CmdLen

LEMMA Kinds ==
  /\ Idle.kind = "idle" /\ "kind" \in DOMAIN Idle
  /\ \A b : ShiftCmd(b).kind = "shift_cmd" /\ ShiftCmd(b).bits = b /\ "kind" \in DOMAIN ShiftCmd(b)
  /\ \A a, b : /\ WriteData(a, b).kind = "write_data" /\ WriteData(a, b).bits = b
               /\ WriteData(a, b).addr = a /\ "kind" \in DOMAIN WriteData(a, b)
  /\ \A a, p : ReadOut(a, p).kind = "read_out" /\ "kind" \in DOMAIN ReadOut(a, p)
  /\ \A n : Busy(n).kind = "busy" /\ "kind" \in DOMAIN Busy(n)
  BY DEF Idle, ShiftCmd, WriteData, ReadOut, Busy

LEMMA OpsDiffer ==
  /\ WRITE \cap EWEN = {} /\ WRITE \cap EWDS = {} /\ READ \cap EWEN = {} /\ READ \cap EWDS = {}
  /\ ERAL \cap EWEN = {} /\ ERAL \cap EWDS = {} /\ EWEN \cap EWDS = {}
  /\ READ \cap WRITE = {} /\ ERAL \cap WRITE = {} /\ ERAL \cap READ = {}
  BY DEF READ, WRITE, EWEN, EWDS, ERAL

LEMMA SelectedIs ==
  ASSUME CommandInv
  PROVE  /\ Since \in Seq(Bits) /\ Since = clocked
         /\ Selected.kind = "shift_cmd" =>
              /\ Selected.bits \in Seq(Bits)
              /\ \/ Selected.bits = Since /\ Len(Since) < CmdLen
                 \/ lastCs /\ Selected = chip /\ Decoded
         /\ Selected.kind = "write_data" => lastCs /\ Selected = chip /\ Writing
         /\ Selected.kind \notin {"shift_cmd", "write_data"} =>
              lastCs /\ Selected = chip /\ Len(clocked) >= CmdLen
         /\ "kind" \in DOMAIN Selected
<1>1. CASE lastCs
  BY <1>1 DEF CommandInv, Since, Selected, Shifting
<1>2. CASE ~lastCs
  <2>1. Selected = ShiftCmd(<<>>) /\ Since = <<>> /\ clocked = <<>>
    BY <1>2 DEF Selected, Since, CommandInv
  <2>2. <<>> \in Seq(Bits) /\ Len(<<>>) < CmdLen
    BY Lengths
  <2>3. /\ ShiftCmd(<<>>).kind = "shift_cmd" /\ ShiftCmd(<<>>).bits = <<>>
        /\ "kind" \in DOMAIN ShiftCmd(<<>>)
    BY Kinds
  <2> QED
    BY <2>1, <2>2, <2>3
<1> QED
  BY <1>1, <1>2

LEMMA RecordIs ==
  ASSUME NEW c \in Seq(Bits)
  PROVE  /\ Record(c) \in Seq(Bits)
         /\ Len(c) < CmdLen => Record(c) = c
         /\ Len(c) = CmdLen /\ Is(c, WRITE) => Record(c) = c
         /\ CmdLen < Len(c) /\ Len(c) <= Recorded => Record(c) = c
         /\ Len(c) >= CmdLen => Len(Record(c)) >= CmdLen
<1>1. [i \in 1..Recorded |-> 0] \in Seq(Bits) /\ Len([i \in 1..Recorded |-> 0]) = Recorded
  BY Lengths DEF Bits
<1> QED
  BY <1>1, Lengths DEF Record

\* A command is decoded: the chip waits for a word, or for a bit again, or neither.
LEMMA DecodeStep ==
  ASSUME NEW c \in Seq(Bits), NEW held, Decode(c, held)
  PROVE  /\ "kind" \in DOMAIN chip'
         /\ chip'.kind = "write_data" =>
              Is(c, WRITE) /\ wEnable /\ chip'.addr = AddrOf(c) /\ chip'.bits = <<>>
         /\ chip'.kind = "shift_cmd" => Is(c, EWEN \cup EWDS) /\ chip'.bits = held
         /\ wEnable' = IF Is(c, EWEN \cup EWDS) THEN Op(c) \in EWEN ELSE wEnable
         /\ mem' # mem => Is(c, ERAL) /\ wEnable /\ mem' = [a \in Addr |-> Ones]
<1>1. /\ wEnable' = IF Is(c, EWEN \cup EWDS) THEN Op(c) \in EWEN ELSE wEnable
      /\ mem' = IF chip'.kind = "busy" THEN [a \in Addr |-> Ones] ELSE mem
  BY DEF Decode, DecodeIf
<1>2. \/ chip' = ReadOut(AddrOf(c), 0)
      \/ Is(c, WRITE) /\ wEnable /\ chip' = WriteData(AddrOf(c), <<>>)
      \/ Is(c, EWEN \cup EWDS) /\ chip' = ShiftCmd(held)
      \/ Is(c, ERAL) /\ wEnable /\ chip' = Busy(2)
      \/ chip' = Idle
  BY DEF Decode, DecodeIf
<1>3. CASE chip' = ReadOut(AddrOf(c), 0)
  BY <1>1, <1>3, Kinds
<1>4. CASE Is(c, WRITE) /\ wEnable /\ chip' = WriteData(AddrOf(c), <<>>)
  BY <1>1, <1>4, Kinds
<1>5. CASE Is(c, EWEN \cup EWDS) /\ chip' = ShiftCmd(held)
  BY <1>1, <1>5, Kinds
<1>6. CASE Is(c, ERAL) /\ wEnable /\ chip' = Busy(2)
  BY <1>1, <1>6, Kinds
<1>7. CASE chip' = Idle
  BY <1>1, <1>7, Kinds
<1> QED
  BY <1>2, <1>3, <1>4, <1>5, <1>6, <1>7

\* What a rising edge may do to the memory.
Commanded ==
  LET c == Append(clocked, di) IN
  /\ enabled
  /\ \/ /\ Len(c) = CmdLen + DBits /\ Is(c, WRITE)
        /\ mem' = [mem EXCEPT ![AddrOf(c)] = Number(SubSeq(c, CmdLen + 1, CmdLen + DBits))]
     \/ /\ Len(c) = CmdLen /\ Is(c, ERAL)
        /\ mem' = [a \in Addr |-> Ones]

LEMMA CommandStep ==
  ASSUME CommandInv, ShiftCommand, Clock(Append(Since, di)), lastCs'
  PROVE  CommandInv' /\ (mem' # mem => Commanded)
<1> DEFINE s == Append(Since, di)
<1> DEFINE b == Selected.bits
<1> DEFINE c == Append(b, di)
<1>1. di \in Bits
  BY DEF di, Bits
<1>2. /\ Since \in Seq(Bits) /\ Since = clocked /\ b \in Seq(Bits) /\ wEnable = enabled
      /\ \/ b = Since /\ Len(Since) < CmdLen
         \/ lastCs /\ Selected = chip /\ Decoded
  BY SelectedIs DEF ShiftCommand, CommandInv
<1>3. c \in Seq(Bits) /\ Len(c) = Len(b) + 1 /\ s \in Seq(Bits) /\ Len(s) = Len(Since) + 1
  BY <1>1, <1>2
<1>4. clocked' = Record(s) /\ enabled' = IF Len(s) = CmdLen /\ Is(s, EWEN \cup EWDS) THEN Op(s) \in EWEN ELSE enabled
  BY DEF Clock
<1>5. clocked' \in Seq(Bits)
  BY <1>3, <1>4, RecordIs
<1>6. \/ Len(c) = CmdLen /\ Decode(c, b)
      \/ Len(c) < CmdLen /\ chip' = ShiftCmd(c) /\ UNCHANGED <<wEnable, mem, erased>>
  BY DEF ShiftCommand
<1> HIDE DEF s, c, b
<1>7. CASE b = Since /\ Len(Since) < CmdLen
  <2>1. c = s
    BY <1>7 DEF c, s
  <2>2. CASE Len(c) = CmdLen /\ Decode(c, b)
    <3>1. wEnable' = enabled'
      BY <1>2, <1>3, <1>4, <2>1, <2>2, DecodeStep
    <3>2. ASSUME chip'.kind = "write_data" PROVE Writing'
      <4>1. Is(c, WRITE) /\ chip'.addr = AddrOf(c) /\ chip'.bits = <<>>
        BY <1>3, <2>2, <3>2, DecodeStep
      <4>2. clocked' = c
        BY <1>3, <1>4, <2>1, <2>2, <4>1, RecordIs
      <4>3. SubSeq(c, CmdLen + 1, Len(c)) = <<>>
        BY <1>3, <2>2, Lengths
      <4>4. <<>> \in Seq(Bits) /\ Len(<<>>) = 0
        OBVIOUS
      <4> QED
        BY <2>2, <4>1, <4>2, <4>3, <4>4, Lengths DEF Writing
    <3>3. ASSUME chip'.kind = "shift_cmd" PROVE Shifting'
      <4>1. Is(c, EWEN \cup EWDS) /\ chip'.bits = b
        BY <1>3, <2>2, <3>3, DecodeStep
      <4>2. Len(b) = CmdLen - 1 /\ Len(b) >= 6
        BY <1>2, <1>3, <2>2, Lengths
      <4>3. Op(c) = Op(b) /\ Started(c) = Started(b)
        BY <1>1, <1>2, <4>2, AppendReads DEF c
      <4>4. enabled' = (Op(b) \in EWEN) /\ Is(b, EWEN \cup EWDS)
        BY <1>4, <2>1, <2>2, <4>1, <4>3 DEF Is
      <4>5. Len(clocked') >= CmdLen
        BY <1>3, <1>4, <2>1, <2>2, RecordIs, Lengths
      <4> QED
        BY <1>2, <4>1, <4>2, <4>4, <4>5 DEF Shifting, Decoded
    <3>4. ASSUME mem' # mem PROVE Commanded
      <4>1. Is(c, ERAL) /\ wEnable /\ mem' = [a \in Addr |-> Ones]
        BY <1>3, <2>2, <3>4, DecodeStep
      <4>2. c = Append(clocked, di)
        BY <1>2, <2>1 DEF s
      <4> QED
        BY <1>2, <2>2, <4>1, <4>2 DEF Commanded
    <3>5. "kind" \in DOMAIN chip' /\ Len(clocked') >= CmdLen
      BY <1>3, <1>4, <2>1, <2>2, DecodeStep, RecordIs, Lengths
    <3> QED
      BY <1>5, <3>1, <3>2, <3>3, <3>4, <3>5 DEF CommandInv
  <2>3. CASE Len(c) < CmdLen /\ chip' = ShiftCmd(c) /\ UNCHANGED <<wEnable, mem, erased>>
    <3>1. clocked' = c /\ enabled' = enabled
      BY <1>3, <1>4, <2>1, <2>3, RecordIs, Lengths
    <3>2. chip'.kind = "shift_cmd" /\ chip'.bits = c /\ "kind" \in DOMAIN chip'
      BY <2>3, Kinds
    <3>3. Shifting'
      BY <1>3, <2>3, <3>1, <3>2 DEF Shifting
    <3> QED
      BY <1>2, <1>5, <2>3, <3>1, <3>2, <3>3 DEF CommandInv
  <2> QED
    BY <1>6, <2>2, <2>3
<1>8. CASE lastCs /\ Selected = chip /\ Decoded
  <2>1. /\ b = chip.bits /\ Len(b) = CmdLen - 1 /\ Is(b, EWEN \cup EWDS)
        /\ Len(clocked) >= CmdLen /\ enabled = (Op(b) \in EWEN)
    BY <1>8 DEF Decoded, b
  <2>2. Len(c) = CmdLen /\ Decode(c, b) /\ Len(b) >= 6
    BY <1>2, <1>3, <1>6, <2>1, Lengths
  <2>3. Op(c) = Op(b) /\ Started(c) = Started(b)
    BY <1>1, <1>2, <2>2, AppendReads DEF c
  <2>4. Is(c, EWEN \cup EWDS) /\ ~Is(c, WRITE) /\ ~Is(c, ERAL)
    BY <2>1, <2>3, OpsDiffer DEF Is
  <2>5. mem' = mem /\ chip'.kind # "write_data" /\ wEnable' = (Op(c) \in EWEN)
        /\ (chip'.kind = "shift_cmd" => chip'.bits = b) /\ "kind" \in DOMAIN chip'
    BY <1>3, <2>2, <2>4, DecodeStep
  <2>6. enabled' = enabled /\ Len(clocked') >= CmdLen
    <3>1. Len(s) >= CmdLen /\ Len(s) # CmdLen
      BY <1>2, <1>3, <2>1, Lengths
    <3> QED
      BY <1>3, <1>4, <3>1, RecordIs
  <2>7. ASSUME chip'.kind = "shift_cmd" PROVE Shifting'
    BY <1>2, <2>1, <2>5, <2>6, <2>7 DEF Shifting, Decoded
  <2> QED
    BY <1>2, <1>5, <2>1, <2>3, <2>5, <2>6, <2>7 DEF CommandInv
<1> QED
  BY <1>2, <1>7, <1>8

LEMMA DataStep ==
  ASSUME CommandInv, ShiftData, Clock(Append(Since, di)), lastCs'
  PROVE  CommandInv' /\ (mem' # mem => Commanded)
<1> DEFINE s == Append(clocked, di)
<1> DEFINE w == Append(chip.bits, di)
<1>1. di \in Bits
  BY DEF di, Bits
<1>2. /\ lastCs /\ Since = clocked /\ clocked \in Seq(Bits) /\ wEnable = enabled
      /\ chip.bits \in Seq(Bits) /\ Is(clocked, WRITE) /\ chip.addr = AddrOf(clocked)
      /\ chip.bits = SubSeq(clocked, CmdLen + 1, Len(clocked))
  BY SelectedIs DEF ShiftData, CommandInv, Writing
<1>3. s \in Seq(Bits) /\ Len(s) = Len(clocked) + 1 /\ w \in Seq(Bits) /\ Len(w) = Len(chip.bits) + 1
  BY <1>1, <1>2
<1>4. /\ Len(clocked) = CmdLen + Len(chip.bits) /\ Len(chip.bits) < DBits
      /\ Len(clocked) \in Nat /\ Len(chip.bits) \in Nat
      /\ Len(s) = Len(clocked) + 1 /\ Len(w) = Len(chip.bits) + 1
  <2>1. Len(clocked) = CmdLen + Len(chip.bits) /\ Len(chip.bits) < DBits
    BY SelectedIs DEF ShiftData, Writing
  <2>2. Len(clocked) \in Nat /\ Len(chip.bits) \in Nat
    BY <1>2
  <2>3. Len(s) = Len(clocked) + 1 /\ Len(w) = Len(chip.bits) + 1
    BY <1>3
  <2> QED
    BY <2>1, <2>2, <2>3
<1> DEFINE all == Len(clocked)
<1> DEFINE part == Len(chip.bits)
<1> HIDE DEF all, part
<1>5. /\ all \in Nat /\ part \in Nat /\ CmdLen \in Nat /\ DBits \in Nat
      /\ all = CmdLen + part /\ part < DBits /\ CmdLen >= 6 /\ Recorded = CmdLen + DBits
  <2>1. all \in Nat /\ part \in Nat /\ all = CmdLen + part /\ part < DBits
    BY <1>4 DEF all, part
  <2>2. CmdLen \in Nat /\ DBits \in Nat /\ CmdLen >= 6 /\ Recorded = CmdLen + DBits
    BY Lengths
  <2> QED
    BY <2>1, <2>2
<1>6. Len(clocked) = all /\ Len(s) = all + 1 /\ Len(w) = part + 1
  BY <1>4 DEF all, part
<1> HIDE DEF s, w
<1>7. Is(s, WRITE) /\ AddrOf(s) = AddrOf(clocked)
  <2>1. Len(clocked) >= 6 /\ Len(clocked) >= CmdLen
    BY <1>5, <1>6
  <2> QED
    BY <1>1, <1>2, <2>1, AppendReads DEF Is, s
<1>8. w = SubSeq(s, CmdLen + 1, Len(s))
  <2>1. CmdLen + 1 \in Nat /\ 1 <= CmdLen + 1 /\ CmdLen + 1 <= Len(clocked) + 1
    BY <1>5, <1>6
  <2> QED
    BY <1>1, <1>2, <1>3, <2>1, AppendEnds DEF s, w
<1>9. clocked' = s /\ enabled' = enabled
  <2>1. Len(s) > CmdLen /\ Len(s) <= Recorded /\ Len(s) # CmdLen
    BY <1>5, <1>6
  <2>2. Clock(s)
    BY <1>2 DEF s
  <2> QED
    BY <1>3, <2>1, <2>2, RecordIs DEF Clock
<1>10. wEnable' = wEnable
  BY DEF ShiftData
<1>11. CASE /\ Len(w) = DBits
            /\ mem' = IF wEnable THEN [mem EXCEPT ![chip.addr] = Number(w)] ELSE mem
            /\ chip' = Busy(2)
  <2>1. chip'.kind = "busy" /\ "kind" \in DOMAIN chip' /\ Len(s) >= CmdLen
    BY <1>5, <1>6, <1>11, Kinds
  <2>2. ASSUME mem' # mem PROVE Commanded
    <3>1. wEnable /\ mem' = [mem EXCEPT ![AddrOf(s)] = Number(w)]
      BY <1>2, <1>7, <1>11, <2>2
    <3>2. Len(s) = CmdLen + DBits
      BY <1>11, <1>5, <1>6
    <3> QED
      BY <1>2, <1>7, <1>8, <3>1, <3>2 DEF Commanded, s
  <2> QED
    BY <1>2, <1>3, <1>9, <1>10, <2>1, <2>2 DEF CommandInv
<1>12. CASE Len(w) < DBits /\ chip' = WriteData(chip.addr, w) /\ mem' = mem
  <2>1. /\ chip'.kind = "write_data" /\ "kind" \in DOMAIN chip'
        /\ chip'.bits = w /\ chip'.addr = chip.addr
    BY <1>12, Kinds
  <2>2. Len(s) = CmdLen + Len(w)
    BY <1>5, <1>6
  <2>3. Writing'
    BY <1>2, <1>3, <1>7, <1>8, <1>9, <1>12, <2>1, <2>2 DEF Writing
  <2> QED
    BY <1>2, <1>3, <1>9, <1>10, <1>12, <2>1, <2>3 DEF CommandInv
<1>13. \/ /\ Len(w) = DBits
          /\ mem' = IF wEnable THEN [mem EXCEPT ![chip.addr] = Number(w)] ELSE mem
          /\ chip' = Busy(2)
       \/ Len(w) < DBits /\ chip' = WriteData(chip.addr, w) /\ mem' = mem
  BY DEF ShiftData, w
<1> QED
  BY <1>11, <1>12, <1>13

LEMMA RiseStep == ASSUME CommandInv, Rise, lastCs' PROVE CommandInv' /\ (mem' # mem => Commanded)
<1>1. Clock(Append(Since, di))
  BY DEF Rise, Since
<1>2. CASE ShiftCommand
  BY <1>1, <1>2, CommandStep
<1>3. CASE ShiftData
  BY <1>1, <1>3, DataStep
<1>4. CASE Selected.kind \notin {"shift_cmd", "write_data"} /\ UNCHANGED <<chip, wEnable, doLine, mem, unsaved, erased>>
  <2> DEFINE s == Append(clocked, di)
  <2>1. /\ lastCs /\ chip.kind \notin {"shift_cmd", "write_data"} /\ Len(clocked) >= CmdLen
        /\ Since = clocked /\ clocked \in Seq(Bits)
    BY <1>4, SelectedIs
  <2>2. s \in Seq(Bits) /\ Len(s) = Len(clocked) + 1
    BY <2>1 DEF di, Bits
  <2>3. Len(s) # CmdLen /\ Len(s) >= CmdLen
    BY <2>1, <2>2, Lengths
  <2> HIDE DEF s
  <2>4. Clock(s)
    BY <1>1, <2>1 DEF s
  <2>5. enabled' = enabled /\ clocked' \in Seq(Bits) /\ Len(clocked') >= CmdLen
    BY <2>2, <2>3, <2>4, RecordIs DEF Clock
  <2> QED
    BY <1>4, <2>1, <2>5 DEF CommandInv
<1> QED
  BY <1>2, <1>3, <1>4 DEF Rise

\* An edge that is not rising leaves the command as it is.
LEMMA SelectedKeeps ==
  ASSUME CommandInv, lastCs', chip' = Selected, clocked' = Since, UNCHANGED <<wEnable, enabled>>
  PROVE  CommandInv'
<1>1. CASE lastCs
  BY <1>1 DEF CommandInv, Selected, Since, Shifting, Decoded, Writing
<1>2. CASE ~lastCs
  <2>1. chip' = ShiftCmd(<<>>) /\ clocked' = <<>>
    BY <1>2 DEF Selected, Since
  <2>2. <<>> \in Seq(Bits) /\ Len(<<>>) < CmdLen
    BY Lengths
  <2>3. chip'.kind = "shift_cmd" /\ chip'.bits = <<>> /\ "kind" \in DOMAIN chip'
    BY <2>1, Kinds
  <2> QED
    BY <2>1, <2>2, <2>3 DEF CommandInv, Shifting
<1> QED
  BY <1>1, <1>2

LEMMA FallStep == ASSUME CommandInv, Fall, lastCs' PROVE CommandInv' /\ mem' = mem
<1>1. clocked' = Since /\ UNCHANGED <<wEnable, mem, enabled>>
  BY DEF Fall, Since
<1>2. CASE chip' = Selected
  BY <1>1, <1>2, SelectedKeeps
<1>3. CASE NextBit \/ GetReady
  <2>1. lastCs /\ Selected = chip /\ Len(clocked) >= CmdLen /\ chip.kind \in {"read_out", "busy"} /\ "kind" \in DOMAIN chip
    BY <1>3, SelectedIs DEF NextBit, ShiftOut, GetReady
  <2>2. \/ chip' = ReadOut(NextAddr, 0)
        \/ chip' = [chip EXCEPT !.pos = @ + 1]
        \/ chip' = Idle
        \/ chip' = Busy(1)
    BY <1>3 DEF NextBit, ShiftOut, GetReady
  <2>3. chip'.kind \notin {"shift_cmd", "write_data"} /\ "kind" \in DOMAIN chip'
    <3>1. CASE chip' = [chip EXCEPT !.pos = @ + 1]
      BY <2>1, <3>1
    <3> QED
      BY <2>2, <3>1, Kinds
  <2>4. clocked' = clocked
    BY <1>1, <2>1 DEF Since
  <2> QED
    BY <1>1, <2>1, <2>3, <2>4 DEF CommandInv
<1> QED
  BY <1>2, <1>3 DEF Fall

LEMMA TickStep == ASSUME CommandInv, NvrTick PROVE CommandInv' /\ (mem' # mem => Commanded)
<1>1. CASE Deselected
  <2>1. /\ chip' = Idle /\ clocked' = <<>> /\ UNCHANGED <<wEnable, mem, enabled>> /\ ~cs /\ lastCs' = cs
    BY <1>1 DEF Deselected, NvrTick
  <2>2. <<>> \in Seq(Bits)
    OBVIOUS
  <2> QED
    BY <2>1, <2>2, Kinds DEF CommandInv
<1>2. CASE Rise
  <2>1. lastCs'
    BY <1>2 DEF Rise, NvrTick
  <2> QED
    BY <1>2, <2>1, RiseStep
<1>3. CASE Fall
  <2>1. lastCs'
    BY <1>3 DEF Fall, NvrTick
  <2> QED
    BY <1>3, <2>1, FallStep
<1>4. CASE NoEdge
  <2>1. lastCs' /\ chip' = Selected /\ clocked' = Since /\ UNCHANGED <<wEnable, enabled, mem>>
    BY <1>4 DEF NoEdge, NvrTick, Since
  <2> QED
    BY <2>1, SelectedKeeps
<1> QED
  BY <1>1, <1>2, <1>3, <1>4 DEF NvrTick

LEMMA InitCommand == Init => CommandInv
<1>1. "kind" \in DOMAIN Idle /\ <<>> \in Seq(Bits)
  BY DEF Idle
<1> QED
  BY <1>1 DEF Init, CommandInv

LEMMA NextCommand == CommandInv /\ [Next]_vars => CommandInv'
<1> SUFFICES ASSUME CommandInv, [Next]_vars PROVE CommandInv'
  OBVIOUS
<1>1. CASE Boot
  BY <1>1 DEF Boot, PowerUp, CommandInv, Shifting, Decoded, Writing
<1>2. CASE Stop
  <2>1. "kind" \in DOMAIN Idle /\ <<>> \in Seq(Bits)
    BY DEF Idle
  <2> QED
    BY <1>2, <2>1 DEF Stop, CommandInv
<1>3. CASE NvrTick
  BY <1>3, TickStep
<1>4. CASE Save \/ WriteImage
  BY <1>4 DEF Save, WriteImage, chipVars, histVars, CommandInv, Shifting, Decoded, Writing
<1>5. CASE UNCHANGED vars
  BY <1>5 DEF vars, chipVars, histVars, CommandInv, Shifting, Decoded, Writing
<1> QED
  BY <1>1, <1>2, <1>3, <1>4, <1>5 DEF Next

\* generic.c: whatever the sizes, and however the pins move, the memory changes only at the end
\* of a whole WRITE of that word, or of a whole ERAL, after an EWEN.
THEOREM MemoryIsCommanded == Spec => WritesAreCommands
<1> DEFINE P == (NvrTick /\ mem' # mem) =>
                   LET c == Append(clocked, di) IN
                   /\ enabled
                   /\ \/ /\ Len(c) = CmdLen + DBits /\ Is(c, WRITE)
                         /\ mem' = [mem EXCEPT ![AddrOf(c)] = Number(SubSeq(c, CmdLen + 1, CmdLen + DBits))]
                      \/ /\ Len(c) = CmdLen /\ Is(c, ERAL)
                         /\ mem' = [a \in Addr |-> Ones]
<1>1. CommandInv /\ [Next]_vars => [P]_vars
  BY TickStep DEF Commanded
<1> QED
  BY <1>1, InitCommand, NextCommand, PTL DEF Spec, WritesAreCommands

-----------------------------------------------------------------------------
(***************************************************************************)
(* Types: what the chip holds in each of its states.                       *)
(***************************************************************************)
LEMMA Widths ==
  /\ Size \in Nat \ {0} /\ Ones \in Nat /\ 0 \in Word /\ Ones \in Word
  /\ \A s \in Seq(Bits) : Len(s) = DBits => Number(s) \in Word
  /\ \A c \in Seq(Bits) : Len(c) = CmdLen => AddrOf(c) \in Addr
<1>1. Size \in Nat \ {0} /\ Ones \in Nat
  BY PowerDoubles, Lengths DEF Size, Ones
<1>2. 0 \in Word /\ Ones \in Word
  BY <1>1 DEF Word
<1>3. ASSUME NEW s \in Seq(Bits), Len(s) = DBits PROVE Number(s) \in Word
  BY <1>3, NumberFits DEF Word, Ones
<1>4. ASSUME NEW c \in Seq(Bits), Len(c) = CmdLen PROVE AddrOf(c) \in Addr
  <2> DEFINE a == SubSeq(c, 7, 6 + ABits)
  <2>1. a \in Seq(Bits) /\ Len(a) = ABits
    <3>1. 7 \in 1..(Len(c) + 1) /\ 6 + ABits \in 6..Len(c) /\ ABits \in Nat
      BY <1>4, Lengths
    <3> QED
      BY <3>1
  <2> HIDE DEF a
  <2>2. Number(a) \in 0..(2^Len(a) - 1)
    BY <2>1, NumberFits
  <2> QED
    BY <2>1, <2>2 DEF AddrOf, a, Addr, Size
<1> QED
  BY <1>1, <1>2, <1>3, <1>4

LEMMA BitIsBit == \A w \in Nat, i \in Nat : Bit(w, i) \in Bits
<1>1. ASSUME NEW w \in Nat, NEW i \in Nat PROVE Bit(w, i) \in Bits
  <2>1. PICK p \in Nat \ {0} : p = 2^i
    BY PowerDoubles
  <2>2. w \div p \in Int
    BY <2>1
  <2>3. (w \div p) % 2 \in 0..1
    BY <2>2
  <2> QED
    BY <2>1, <2>3 DEF Bit, Bits
<1> QED
  BY <1>1

Command(b) == b \in Seq(Bits) /\ Len(b) < CmdLen
Data(b)    == b \in Seq(Bits) /\ Len(b) < DBits
Read(a, p, d) == [kind |-> "read_out", addr |-> a, pos |-> p, data |-> d]
ChipOK(c) == \/ c = Idle
             \/ \E b : Command(b) /\ c = ShiftCmd(b)
             \/ \E a \in Addr, p \in 0..DBits, d \in Word : c = Read(a, p, d)
             \/ \E a \in Addr : \E b : Data(b) /\ c = WriteData(a, b)
             \/ \E n \in 1..2 : c = Busy(n)

LEMMA ShortSeqs ==
  ASSUME NEW n \in Nat, NEW b \in Seq(Bits), Len(b) < n
  PROVE  b \in UNION {[1..k -> Bits] : k \in 0..(n - 1)}
<1>1. Len(b) \in 0..(n - 1) /\ b \in [1..Len(b) -> Bits]
  BY LenProperties
<1> QED
  BY <1>1

LEMMA ChipsAreTyped == ASSUME NEW c, ChipOK(c) PROVE c \in ChipType
<1>1. CASE c = Idle
  BY <1>1 DEF Idle, ChipType
<1>2. CASE \E b : Command(b) /\ c = ShiftCmd(b)
  <2>1. PICK b \in UNION {[1..k -> Bits] : k \in 0..(CmdLen - 1)} : c = ShiftCmd(b)
    BY <1>2, ShortSeqs, Lengths DEF Command
  <2> QED
    BY <2>1 DEF ShiftCmd, ChipType
<1>3. CASE \E a \in Addr, p \in 0..DBits, d \in Word : c = Read(a, p, d)
  BY <1>3 DEF Read, ChipType
<1>4. CASE \E a \in Addr : \E b : Data(b) /\ c = WriteData(a, b)
  <2>1. PICK a \in Addr, b \in UNION {[1..k -> Bits] : k \in 0..(DBits - 1)} : c = WriteData(a, b)
    BY <1>4, ShortSeqs, Lengths DEF Data
  <2> QED
    BY <2>1 DEF WriteData, ChipType
<1>5. CASE \E n \in 1..2 : c = Busy(n)
  BY <1>5 DEF Busy, ChipType
<1> QED
  BY <1>1, <1>2, <1>3, <1>4, <1>5 DEF ChipOK

FileOK == file = Absent \/ (file \in Seq(Word) /\ Len(file) <= Size)
Switches == /\ lastCs \in BOOLEAN /\ lastSk \in BOOLEAN /\ wEnable \in BOOLEAN /\ unsaved \in BOOLEAN
            /\ enabled \in BOOLEAN /\ ioFailed \in BOOLEAN /\ erased \in BOOLEAN
TypeInv == /\ phase \in Phases /\ pins \subseteq {"cs", "sk", "di"} /\ Switches
           /\ ChipOK(chip) /\ doLine \in Bits
           /\ mem \in [Addr -> Word] /\ FileOK
           /\ ~lastCs => chip = Idle

LEMMA TypesFollow == TypeInv => TypeOK
  BY ChipsAreTyped DEF TypeInv, Switches, FileOK, TypeOK, Phases

\* The fields of a chip in each of its states.
LEMMA ChipFields ==
  ASSUME NEW c, ChipOK(c)
  PROVE  /\ c.kind \in {"idle", "shift_cmd", "read_out", "write_data", "busy"}
         /\ c.kind = "shift_cmd" => Command(c.bits) /\ c = ShiftCmd(c.bits)
         /\ c.kind = "read_out" => /\ c.addr \in Addr /\ c.pos \in 0..DBits /\ c.data \in Word
                                   /\ c = Read(c.addr, c.pos, c.data)
         /\ c.kind = "write_data" => c.addr \in Addr /\ Data(c.bits)
         /\ c.kind = "busy" => c.left \in 1..2
<1>1. CASE c = Idle
  BY <1>1 DEF Idle
<1>2. CASE \E b : Command(b) /\ c = ShiftCmd(b)
  BY <1>2 DEF ShiftCmd
<1>3. CASE \E a \in Addr, p \in 0..DBits, d \in Word : c = Read(a, p, d)
  BY <1>3 DEF Read
<1>4. CASE \E a \in Addr : \E b : Data(b) /\ c = WriteData(a, b)
  BY <1>4 DEF WriteData
<1>5. CASE \E n \in 1..2 : c = Busy(n)
  BY <1>5 DEF Busy
<1> QED
  BY <1>1, <1>2, <1>3, <1>4, <1>5 DEF ChipOK

LEMMA SelectedChip ==
  ASSUME TypeInv
  PROVE  /\ ChipOK(Selected) /\ Line \in Bits
         /\ Selected.kind # "shift_cmd" => lastCs /\ Selected = chip
<1>1. ChipOK(ShiftCmd(<<>>)) /\ ShiftCmd(<<>>).kind = "shift_cmd"
  <2>1. Command(<<>>)
    BY Lengths DEF Command
  <2> QED
    BY <2>1 DEF ChipOK, ShiftCmd
<1> QED
  BY <1>1 DEF TypeInv, Selected, Line, Bits

LEMMA DecodeTypes ==
  ASSUME TypeInv, NEW c \in Seq(Bits), Len(c) = CmdLen, NEW held, Command(held), Decode(c, held)
  PROVE  /\ ChipOK(chip') /\ doLine' \in Bits /\ mem' \in [Addr -> Word]
         /\ wEnable' \in BOOLEAN /\ erased' \in BOOLEAN
<1>1. AddrOf(c) \in Addr /\ Command(<<>>) /\ Data(<<>>) /\ 0 \in 0..DBits
  BY Widths, Lengths DEF Command, Data
<1>2. \/ chip' = Read(AddrOf(c), 0, mem[AddrOf(c)])
      \/ chip' = WriteData(AddrOf(c), <<>>)
      \/ chip' = ShiftCmd(held)
      \/ chip' = Busy(2)
      \/ chip' = Idle
  BY DEF Decode, DecodeIf, ReadOut, Read
<1>3. mem[AddrOf(c)] \in Word
  BY <1>1 DEF TypeInv
<1>4. ChipOK(chip')
  BY <1>1, <1>2, <1>3 DEF ChipOK
<1>5. mem' \in [Addr -> Word]
  <2>1. mem' = mem \/ mem' = [a \in Addr |-> Ones]
    BY DEF Decode, DecodeIf
  <2> QED
    BY <2>1, Widths DEF TypeInv
<1>6. doLine' \in Bits
  BY SelectedChip DEF Decode, DecodeIf, Bits
<1>7. wEnable' \in BOOLEAN /\ erased' \in BOOLEAN
  <2>1. wEnable' = TRUE \/ wEnable' = FALSE \/ wEnable' = wEnable
    BY DEF Decode, DecodeIf
  <2>2. erased' = TRUE \/ erased' = FALSE
    BY DEF Decode, DecodeIf
  <2> QED
    BY <2>1, <2>2 DEF TypeInv, Switches
<1> QED
  BY <1>4, <1>5, <1>6, <1>7

\* What an edge of SK may leave.
ChipTypes == /\ ChipOK(chip') /\ doLine' \in Bits /\ mem' \in [Addr -> Word]
             /\ wEnable' \in BOOLEAN /\ unsaved' \in BOOLEAN /\ enabled' \in BOOLEAN /\ erased' \in BOOLEAN

LEMMA RiseTypes == ASSUME TypeInv, Rise PROVE ChipTypes
<1>1. enabled' \in BOOLEAN
  <2>1. enabled' = TRUE \/ enabled' = FALSE \/ enabled' = enabled
    BY DEF Rise, Clock
  <2> QED
    BY <2>1 DEF TypeInv, Switches
<1>2. di \in Bits
  BY DEF di, Bits
<1>3. CASE ShiftCommand
  <2> DEFINE b == Selected.bits
             c == Append(b, di)
  <2>1. Command(b)
    BY <1>3, SelectedChip, ChipFields DEF ShiftCommand
  <2>2. c \in Seq(Bits) /\ Len(c) = Len(b) + 1
    BY <1>2, <2>1 DEF Command
  <2>3. \/ Len(c) = CmdLen /\ Decode(c, b)
        \/ Len(c) < CmdLen /\ chip' = ShiftCmd(c) /\ doLine' = Line /\ UNCHANGED <<wEnable, mem, erased>>
    BY <1>3 DEF ShiftCommand
  <2>4. unsaved' = unsaved
    BY <1>3 DEF ShiftCommand
  <2> HIDE DEF b, c
  <2>5. CASE Len(c) = CmdLen /\ Decode(c, b)
    BY <1>1, <2>1, <2>2, <2>4, <2>5, DecodeTypes DEF ChipTypes, TypeInv, Switches
  <2>6. CASE Len(c) < CmdLen /\ chip' = ShiftCmd(c) /\ doLine' = Line /\ UNCHANGED <<wEnable, mem, erased>>
    <3>1. Command(c)
      BY <2>2, <2>6 DEF Command
    <3>2. ChipOK(chip')
      BY <2>6, <3>1 DEF ChipOK
    <3> QED
      BY <1>1, <2>4, <2>6, <3>2, SelectedChip DEF ChipTypes, TypeInv, Switches
  <2> QED
    BY <2>3, <2>5, <2>6
<1>4. CASE ShiftData
  <2> DEFINE w == Append(chip.bits, di)
  <2>1. Data(chip.bits) /\ chip.addr \in Addr
    BY <1>4, SelectedChip, ChipFields DEF ShiftData
  <2>2. w \in Seq(Bits) /\ Len(w) = Len(chip.bits) + 1
    BY <1>2, <2>1 DEF Data
  <2>3. \/ /\ Len(w) = DBits /\ unsaved' = TRUE /\ chip' = Busy(2) /\ doLine' = 1
           /\ mem' = IF wEnable THEN [mem EXCEPT ![chip.addr] = Number(w)] ELSE mem
        \/ Len(w) < DBits /\ chip' = WriteData(chip.addr, w) /\ UNCHANGED <<unsaved, mem, doLine>>
    BY <1>4 DEF ShiftData
  <2>4. UNCHANGED <<wEnable, erased>>
    BY <1>4 DEF ShiftData
  <2> HIDE DEF w
  <2>5. ChipOK(chip')
    BY <2>1, <2>2, <2>3 DEF ChipOK, Data
  <2>6. mem' \in [Addr -> Word]
    <3>1. Len(w) = DBits => Number(w) \in Word
      BY <2>2, Widths
    <3> QED
      BY <2>3, <3>1 DEF TypeInv
  <2> QED
    BY <1>1, <2>3, <2>4, <2>5, <2>6 DEF ChipTypes, TypeInv, Switches, Bits
<1>5. CASE UNCHANGED <<chip, wEnable, doLine, mem, unsaved, erased>>
  BY <1>1, <1>5 DEF ChipTypes, TypeInv, Switches
<1> QED
  BY <1>3, <1>4, <1>5 DEF Rise

\* A bit on the line while a word is read: a 0 first, then the word from its highest bit.
OutBit(word, p) == IF p = 0 THEN 0 ELSE Bit(word, DBits - p)

LEMMA OutBitIsBit == ASSUME NEW w \in Word, NEW p \in 0..DBits PROVE OutBit(w, p) \in Bits
  BY BitIsBit, Lengths, Widths DEF OutBit, Bits, Word

\* Reading moves on.
LEMMA NextBitIs ==
  ASSUME TypeInv, NextBit
  PROVE  /\ lastCs /\ chip.kind = "read_out" /\ NextAddr \in Addr
         /\ doLine' = OutBit(chip.data, chip.pos) /\ doLine' \in Bits
         /\ chip' = IF chip.pos = DBits THEN Read(NextAddr, 0, mem[NextAddr])
                    ELSE Read(chip.addr, chip.pos + 1, chip.data)
         /\ out' = IF Len(out) < 2 * (DBits + 1) THEN Append(out, doLine') ELSE out
<1>1. lastCs /\ Selected = chip /\ chip.kind = "read_out" /\ ChipOK(chip)
  BY SelectedChip DEF NextBit, ShiftOut, TypeInv
<1>2. /\ chip.addr \in Addr /\ chip.pos \in 0..DBits /\ chip.data \in Word
      /\ chip = Read(chip.addr, chip.pos, chip.data)
  BY <1>1, ChipFields
<1>3. NextAddr \in Addr
  BY <1>2, Widths DEF NextAddr, Addr
<1>4. doLine' = OutBit(chip.data, chip.pos)
  BY DEF NextBit, ShiftOut, OutBit
<1>5. [chip EXCEPT !.pos = @ + 1] = Read(chip.addr, chip.pos + 1, chip.data)
  BY <1>2 DEF Read
<1>6. chip' = IF chip.pos = DBits THEN Read(NextAddr, 0, mem[NextAddr])
              ELSE Read(chip.addr, chip.pos + 1, chip.data)
  BY <1>5 DEF NextBit, ShiftOut, ReadOut, Read
<1>7. out' = IF Len(out) < 2 * (DBits + 1) THEN Append(out, doLine') ELSE out
  BY DEF NextBit, ShiftOut
<1> QED
  BY <1>1, <1>2, <1>3, <1>4, <1>6, <1>7, OutBitIsBit

LEMMA FallTypes == ASSUME TypeInv, Fall PROVE ChipTypes
<1>1. UNCHANGED <<wEnable, mem, unsaved, enabled, erased>>
  BY DEF Fall
<1>2. CASE NextBit
  <2>1. /\ lastCs /\ chip.kind = "read_out" /\ NextAddr \in Addr /\ doLine' \in Bits
        /\ chip' = IF chip.pos = DBits THEN Read(NextAddr, 0, mem[NextAddr])
                   ELSE Read(chip.addr, chip.pos + 1, chip.data)
    BY <1>2, NextBitIs
  <2>2. chip.addr \in Addr /\ chip.pos \in 0..DBits /\ chip.data \in Word /\ mem[NextAddr] \in Word
    BY <2>1, ChipFields DEF TypeInv
  <2>3. 0 \in 0..DBits /\ (chip.pos # DBits => chip.pos + 1 \in 0..DBits)
    BY <2>2, Lengths
  <2>4. ChipOK(chip')
    BY <2>1, <2>2, <2>3 DEF ChipOK
  <2> QED
    BY <1>1, <2>1, <2>4 DEF ChipTypes, TypeInv, Switches
<1>3. CASE GetReady
  <2>1. ChipOK(chip') /\ doLine' \in Bits
    BY <1>3 DEF GetReady, ChipOK, TypeInv, Bits
  <2> QED
    BY <1>1, <2>1 DEF ChipTypes, TypeInv, Switches
<1>4. CASE chip' = Selected /\ doLine' = Line
  BY <1>1, <1>4, SelectedChip DEF ChipTypes, TypeInv, Switches
<1> QED
  BY <1>2, <1>3, <1>4 DEF Fall

LEMMA TickTypes == ASSUME TypeInv, NvrTick PROVE TypeInv'
<1>1. /\ phase' = "save" /\ lastCs' = cs /\ lastSk' = sk /\ UNCHANGED <<file, ioFailed>>
      /\ pins' \subseteq {"cs", "sk", "di"}
  BY DEF NvrTick, MovePins
<1>2. lastCs' \in BOOLEAN /\ lastSk' \in BOOLEAN
  BY <1>1 DEF cs, sk
<1>3. CASE Deselected
  <2>1. ChipTypes
    BY <1>3 DEF Deselected, ChipTypes, ChipOK, TypeInv, Switches, Bits
  <2>2. chip' = Idle
    BY <1>3 DEF Deselected
  <2> QED
    BY <1>1, <1>2, <2>1, <2>2 DEF ChipTypes, TypeInv, Switches, FileOK, Phases
<1>4. CASE Rise \/ Fall \/ NoEdge
  <2>1. ChipTypes
    <3>1. CASE NoEdge
      BY <3>1, SelectedChip DEF NoEdge, ChipTypes, TypeInv, Switches
    <3> QED
      BY <1>4, <3>1, RiseTypes, FallTypes
  <2>2. lastCs'
    BY <1>1, <1>4 DEF Rise, Fall, NoEdge
  <2> QED
    BY <1>1, <1>2, <2>1, <2>2 DEF ChipTypes, TypeInv, Switches, FileOK, Phases
<1> QED
  BY <1>3, <1>4 DEF NvrTick

LEMMA LoadedTypes ==
  /\ Factory \in Seq(Word) /\ Len(Factory) = Size
  /\ \A f : f = Absent \/ f \in Seq(Word) => Loaded(f) \in [Addr -> Word]
<1>1. Factory \in Seq(Word) /\ Len(Factory) = Size
  BY Widths DEF Factory
<1>2. ASSUME NEW g \in Seq(Word) PROVE [a \in Addr |-> IF a < Len(g) THEN g[a + 1] ELSE Ones] \in [Addr -> Word]
  <2> SUFFICES ASSUME NEW a \in Addr, a < Len(g) PROVE g[a + 1] \in Word
    BY Widths
  <2>1. a + 1 \in 1..Len(g)
    BY Widths DEF Addr
  <2> QED
    BY <2>1, ElementOfSeq
<1>3. ASSUME NEW f, f = Absent \/ f \in Seq(Word) PROVE Loaded(f) \in [Addr -> Word]
  <2> DEFINE g == IF f = Absent THEN Factory ELSE f
  <2>1. g \in Seq(Word)
    BY <1>1, <1>3
  <2>2. Loaded(f) = [a \in Addr |-> IF a < Len(g) THEN g[a + 1] ELSE Ones]
    BY DEF Loaded
  <2> HIDE DEF g
  <2> QED
    BY <1>2, <2>1, <2>2
<1> QED
  BY <1>1, <1>3

LEMMA InitTypes == Init => TypeInv
<1> SUFFICES ASSUME Init PROVE TypeInv
  OBVIOUS
<1>1. FileOK
  <2>1. \A n \in 0..Size : SubSeq(Factory, 1, n) \in Seq(Word) /\ Len(SubSeq(Factory, 1, n)) <= Size
    BY LoadedTypes, Widths
  <2> QED
    BY <2>1 DEF Init, FileOK
<1>2. mem \in [Addr -> Word]
  BY LoadedTypes DEF Init
<1> QED
  BY <1>1, <1>2 DEF Init, TypeInv, Switches, Phases, ChipOK, Bits

LEMMA ImageTypes ==
  ASSUME TypeInv
  PROVE  /\ Image \in Seq(Word) /\ Len(Image) = Size
         /\ \A n \in 0..(Size - 1) : SubSeq(Image, 1, n) \in Seq(Word) /\ Len(SubSeq(Image, 1, n)) <= Size
<1>1. \A i \in 1..Size : mem[i - 1] \in Word
  BY Widths DEF TypeInv, Addr
<1>2. Image \in Seq(Word) /\ Len(Image) = Size
  BY <1>1, Widths DEF Image
<1> QED
  BY <1>2, Widths

LEMMA NextTypes == TypeInv /\ [Next]_vars => TypeInv'
<1> SUFFICES ASSUME TypeInv, [Next]_vars PROVE TypeInv'
  OBVIOUS
<1>1. CASE Boot
  <2>1. FileOK' /\ mem' \in [Addr -> Word]
    BY <1>1, LoadedTypes DEF Boot, PowerUp, TypeInv, FileOK
  <2> QED
    BY <1>1, <2>1 DEF Boot, PowerUp, TypeInv, Switches, Phases
<1>2. CASE Stop
  BY <1>2 DEF Stop, TypeInv, Switches, Phases, FileOK, ChipOK, Bits
<1>3. CASE NvrTick
  BY <1>3, TickTypes
<1>4. CASE Save
  <2>1. FileOK'
    <3>1. <<>> \in Seq(Word) /\ Len(<<>>) <= Size
      BY Widths
    <3> QED
      BY <1>4, <3>1 DEF Save, FileOK, TypeInv
  <2> QED
    BY <1>4, <2>1 DEF Save, chipVars, histVars, TypeInv, Switches, Phases
<1>5. CASE WriteImage
  <2>1. FileOK'
    BY <1>5, ImageTypes, Widths DEF WriteImage, FileOK
  <2> QED
    BY <1>5, <2>1 DEF WriteImage, chipVars, TypeInv, Switches, Phases
<1>6. CASE UNCHANGED vars
  BY <1>6 DEF vars, chipVars, histVars, TypeInv, Switches, FileOK
<1> QED
  BY <1>1, <1>2, <1>3, <1>4, <1>5, <1>6 DEF Next

\* Whatever the sizes, every variable stays in its type: the chip's fields are those of its
\* state, an address is one of the chip, and what is shifted in fits a word.
THEOREM NvrTypeCorrect == Spec => []TypeOK
  BY InitTypes, NextTypes, TypesFollow, PTL DEF Spec

-----------------------------------------------------------------------------
(***************************************************************************)
(* Reading: what is on the line is what is in the memory.                  *)
(***************************************************************************)
\* The bits of one word and of the next; what comes after them is not recorded.
Span == DBits + 1
OutOf(first) ==
  /\ out \in Seq(Bits) /\ Len(out) <= 2 * Span
  /\ Len(out) < Span => chip.pos = Len(out) /\ chip.addr = first
  /\ Span <= Len(out) /\ Len(out) < 2 * Span =>
       chip.pos = Len(out) - Span /\ chip.addr = (first + 1) % Size
  /\ \A i \in 1..Len(out) :
       out[i] = IF i <= Span THEN OutBit(mem[first], i - 1)
                ELSE OutBit(mem[(first + 1) % Size], i - 1 - Span)
ReadInv ==
  /\ phase \in {"new", "off", "killed"} => chip = Idle
  /\ chip.kind # "read_out" => out = <<>>
  /\ chip.kind = "read_out" => chip.data = mem[chip.addr] /\ \E first \in Addr : OutOf(first)

\* A READ begins with nothing on the line.
LEMMA ReadBegins ==
  ASSUME NEW a \in Addr, chip' = Read(a, 0, mem[a]), mem' = mem, out' = <<>>
  PROVE  chip'.data = mem'[chip'.addr] /\ OutOf(a)'
<1>1. chip'.pos = 0 /\ chip'.addr = a /\ chip'.data = mem[a]
  BY DEF Read
<1>2. <<>> \in Seq(Bits) /\ Len(<<>>) = 0
  OBVIOUS
<1>3. Span \in Nat /\ Span >= 1
  BY Lengths DEF Span
<1> QED
  BY <1>1, <1>2, <1>3 DEF OutOf

LEMMA ReadGoesOn ==
  ASSUME TypeInv, ReadInv, NextBit, mem' = mem
  PROVE  chip'.kind = "read_out" /\ chip'.data = mem'[chip'.addr] /\ \E first \in Addr : OutOf(first)'
<1>1. /\ chip.kind = "read_out" /\ NextAddr \in Addr
      /\ doLine' = OutBit(chip.data, chip.pos) /\ doLine' \in Bits
      /\ chip' = IF chip.pos = DBits THEN Read(NextAddr, 0, mem[NextAddr])
                 ELSE Read(chip.addr, chip.pos + 1, chip.data)
      /\ out' = IF Len(out) < 2 * Span THEN Append(out, doLine') ELSE out
  BY NextBitIs DEF Span
<1>2. /\ chip.addr \in Addr /\ chip.pos \in 0..DBits /\ chip.data = mem[chip.addr]
  BY <1>1, ChipFields DEF TypeInv, ReadInv
<1>3. PICK first \in Addr : OutOf(first)
  BY <1>1 DEF ReadInv
<1>4. /\ chip'.kind = "read_out" /\ chip'.data = mem'[chip'.addr]
      /\ chip.pos = DBits => chip'.pos = 0 /\ chip'.addr = (chip.addr + 1) % Size
      /\ chip.pos # DBits => chip'.pos = chip.pos + 1 /\ chip'.addr = chip.addr
  BY <1>1, <1>2 DEF Read, NextAddr
<1>5. PICK n \in Nat : n = Len(out)
  BY <1>3 DEF OutOf
<1>6. PICK W \in Nat : W = Span /\ W = DBits + 1 /\ DBits \in Nat
  BY Lengths DEF Span
<1>7. /\ out \in Seq(Bits) /\ n <= 2 * W
      /\ n < W => chip.pos = n /\ chip.addr = first
      /\ W <= n /\ n < 2 * W => chip.pos = n - W /\ chip.addr = (first + 1) % Size
      /\ \A i \in 1..n : out[i] = IF i <= W THEN OutBit(mem[first], i - 1)
                                  ELSE OutBit(mem[(first + 1) % Size], i - 1 - W)
  BY <1>3, <1>5, <1>6 DEF OutOf
<1>8. CASE n = 2 * W
  <2>1. out' = out
    BY <1>1, <1>5, <1>6, <1>8
  <2>2. OutOf(first)'
    <3>1. ~(n < W) /\ ~(n < 2 * W)
      BY <1>6, <1>8
    <3>2. /\ out' \in Seq(Bits) /\ Len(out') = n
          /\ \A i \in 1..n : out'[i] = IF i <= W THEN OutBit(mem'[first], i - 1)
                                       ELSE OutBit(mem'[(first + 1) % Size], i - 1 - W)
      BY <1>5, <1>7, <2>1
    <3> QED
      BY <1>6, <1>7, <3>1, <3>2 DEF OutOf
  <2> QED
    BY <1>4, <2>2
<1>9. CASE n < 2 * W
  <2>1. out' = Append(out, doLine')
    BY <1>1, <1>5, <1>6, <1>9
  <2>2. /\ out' \in Seq(Bits) /\ Len(out') = n + 1 /\ out'[n + 1] = doLine'
        /\ \A i \in 1..n : out'[i] = out[i]
    BY <1>1, <1>5, <1>7, <2>1
  <2>3. doLine' = IF n + 1 <= W THEN OutBit(mem[first], n)
                  ELSE OutBit(mem[(first + 1) % Size], n - W)
    BY <1>1, <1>2, <1>7, <1>9
  <2>4. \A i \in 1..(n + 1) : out'[i] = IF i <= W THEN OutBit(mem[first], i - 1)
                                        ELSE OutBit(mem[(first + 1) % Size], i - 1 - W)
    <3> SUFFICES ASSUME NEW i \in 1..(n + 1)
                 PROVE  out'[i] = IF i <= W THEN OutBit(mem[first], i - 1)
                                  ELSE OutBit(mem[(first + 1) % Size], i - 1 - W)
      OBVIOUS
    <3>1. CASE i = n + 1
      <4>1. i - 1 = n /\ i - 1 - W = n - W
        BY <3>1
      <4> QED
        BY <2>2, <2>3, <3>1, <4>1
    <3>2. CASE i # n + 1
      <4>1. i \in 1..n
        BY <3>2
      <4> QED
        BY <1>7, <2>2, <4>1
    <3> QED
      BY <3>1, <3>2
  <2>5. n + 1 < W => chip'.pos = n + 1 /\ chip'.addr = first
    BY <1>4, <1>6, <1>7
  <2>6. W <= n + 1 /\ n + 1 < 2 * W => chip'.pos = n + 1 - W /\ chip'.addr = (first + 1) % Size
    BY <1>4, <1>6, <1>7
  <2>7. OutOf(first)'
    <3>1. n + 1 <= 2 * W
      BY <1>9
    <3> QED
      BY <1>6, <2>2, <2>4, <2>5, <2>6, <3>1 DEF OutOf
  <2> QED
    BY <1>4, <2>7
<1>10. n = 2 * W \/ n < 2 * W
  <2>1. n <= 2 * W
    BY <1>7
  <2> QED
    BY <2>1
<1> QED
  BY <1>8, <1>9, <1>10

\* A decoded command reads, or what was on the line is forgotten.
LEMMA DecodeReads ==
  ASSUME TypeInv, NEW c \in Seq(Bits), Len(c) = CmdLen, NEW held, Command(held), Decode(c, held)
  PROVE  chip'.kind = "read_out" => \E a \in Addr : chip' = Read(a, 0, mem[a]) /\ mem' = mem
<1>1. AddrOf(c) \in Addr
  BY Widths
<1>2. \/ chip' = Read(AddrOf(c), 0, mem[AddrOf(c)])
      \/ chip' = WriteData(AddrOf(c), <<>>)
      \/ chip' = ShiftCmd(held)
      \/ chip' = Busy(2)
      \/ chip' = Idle
  BY DEF Decode, DecodeIf, ReadOut, Read
<1>3. chip'.kind = "read_out" => chip' = Read(AddrOf(c), 0, mem[AddrOf(c)])
  BY <1>2 DEF WriteData, ShiftCmd, Busy, Idle
<1>4. chip'.kind = "read_out" => mem' = mem
  BY DEF Decode, DecodeIf
<1> QED
  BY <1>1, <1>3, <1>4

LEMMA TickReads ==
  ASSUME TypeInv, ReadInv, NvrTick
  PROVE  /\ chip'.kind # "read_out" => out' = <<>>
         /\ chip'.kind = "read_out" => chip'.data = mem'[chip'.addr] /\ \E first \in Addr : OutOf(first)'
<1>1. CASE Deselected
  BY <1>1 DEF Deselected, Idle
<1>2. CASE Rise
  <2>1. out' = IF chip'.kind = "read_out" THEN out ELSE <<>>
    BY <1>2 DEF Rise
  <2>2. CASE ShiftCommand
    <3> DEFINE b == Selected.bits
               c == Append(b, di)
    <3>1. Command(b) /\ di \in Bits
      BY <2>2, SelectedChip, ChipFields DEF ShiftCommand, di, Bits
    <3>2. c \in Seq(Bits)
      BY <3>1 DEF Command
    <3>3. \/ Len(c) = CmdLen /\ Decode(c, b)
          \/ chip' = ShiftCmd(c)
      BY <2>2 DEF ShiftCommand
    <3>4. out = <<>>
      <4>1. Selected.kind = "shift_cmd"
        BY <2>2 DEF ShiftCommand
      <4>2. CASE lastCs
        BY <4>1, <4>2 DEF ReadInv, Selected
      <4>3. CASE ~lastCs
        BY <4>3 DEF ReadInv, TypeInv, Idle
      <4> QED
        BY <4>2, <4>3
    <3> HIDE DEF b, c
    <3>5. CASE Len(c) = CmdLen /\ Decode(c, b)
      <4> SUFFICES ASSUME chip'.kind = "read_out"
                   PROVE  chip'.data = mem'[chip'.addr] /\ \E first \in Addr : OutOf(first)'
        BY <2>1
      <4>1. PICK a \in Addr : chip' = Read(a, 0, mem[a]) /\ mem' = mem
        BY <3>1, <3>2, <3>5, DecodeReads
      <4> QED
        BY <2>1, <3>4, <4>1, ReadBegins
    <3>6. CASE chip' = ShiftCmd(c)
      BY <2>1, <3>6 DEF ShiftCmd
    <3> QED
      BY <3>3, <3>5, <3>6
  <2>3. CASE ShiftData
    BY <2>1, <2>3 DEF ShiftData, Busy, WriteData
  <2>4. CASE UNCHANGED <<chip, mem>>
    BY <2>1, <2>4 DEF ReadInv, OutOf
  <2> QED
    BY <1>2, <2>2, <2>3, <2>4 DEF Rise
<1>3. CASE Fall \/ NoEdge
  <2>1. mem' = mem
    BY <1>3 DEF Fall, NoEdge
  <2>2. CASE NextBit
    BY <2>1, <2>2, ReadGoesOn
  <2>3. CASE GetReady
    <3>1. out' = out /\ chip'.kind # "read_out" /\ lastCs /\ chip.kind = "busy"
      BY <2>3, SelectedChip DEF GetReady, Idle, Busy
    <3> QED
      BY <3>1 DEF ReadInv
  <2>4. CASE chip' = Selected /\ out' = out
    <3>1. CASE lastCs
      BY <2>1, <2>4, <3>1 DEF ReadInv, OutOf, Selected
    <3>2. CASE ~lastCs
      <4>1. out = <<>> /\ chip'.kind = "shift_cmd"
        BY <2>4, <3>2 DEF ReadInv, TypeInv, Idle, Selected, ShiftCmd
      <4> QED
        BY <2>4, <4>1
    <3> QED
      BY <3>1, <3>2
  <2> QED
    BY <1>3, <2>2, <2>3, <2>4 DEF Fall, NoEdge
<1> QED
  BY <1>1, <1>2, <1>3 DEF NvrTick

LEMMA InitReads == Init => ReadInv
  BY DEF Init, ReadInv, Idle

LEMMA NextReads == TypeInv /\ ReadInv /\ [Next]_vars => ReadInv'
<1> SUFFICES ASSUME TypeInv, ReadInv, [Next]_vars PROVE ReadInv'
  OBVIOUS
<1>1. CASE Boot
  BY <1>1 DEF Boot, PowerUp, ReadInv, Idle
<1>2. CASE Stop
  BY <1>2 DEF Stop, ReadInv, Idle
<1>3. CASE NvrTick
  BY <1>3, TickReads DEF NvrTick, ReadInv
<1>4. CASE UNCHANGED <<chip, mem, out>> /\ phase' \in {phase, "step", "write"}
  BY <1>4 DEF ReadInv, OutOf
<1>5. Save \/ WriteImage \/ UNCHANGED vars => UNCHANGED <<chip, mem, out>> /\ phase' \in {phase, "step", "write"}
  BY DEF Save, WriteImage, vars, chipVars, histVars
<1> QED
  BY <1>1, <1>2, <1>3, <1>4, <1>5 DEF Next

\* At most two spans: which span a bit is of, and its place there.
LEMMA Spans ==
  ASSUME NEW W \in Nat \ {0}
  PROVE  /\ \A n \in 0..(W - 1) : n \div W = 0 /\ n % W = n
         /\ \A n \in W..(2 * W - 1) : n \div W = 1 /\ n % W = n - W
<1>1. ASSUME NEW n \in 0..(W - 1) PROVE n \div W = 0 /\ n % W = n
  BY <1>1
<1>2. ASSUME NEW n \in W..(2 * W - 1) PROVE n \div W = 1 /\ n % W = n - W
  BY <1>2
<1> QED
  BY <1>1, <1>2

\* generic.c: whatever the sizes and wherever it starts, what a READ clocks out is the memory:
\* a 0 and the word, from its highest bit, then the same of the next address, 0 after the last.
THEOREM ReadsAreTrue == Spec => []ReadsAreMemory
<1>1. TypeInv /\ ReadInv => ReadsAreMemory
  <2> SUFFICES ASSUME TypeInv, ReadInv, chip.kind = "read_out"
               PROVE  \E first \in Addr :
      /\ (Len(out) < 2 * (DBits + 1)) => chip.addr = (first + Len(out) \div (DBits + 1)) % Size
      /\ \A i \in 1..Len(out) :
           LET pos == (i - 1) % (DBits + 1)
               at  == (first + (i - 1) \div (DBits + 1)) % Size
           IN out[i] = IF pos = 0 THEN 0 ELSE Bit(mem[at], DBits - pos)
    BY DEF ReadsAreMemory
  <2>1. PICK first \in Addr : OutOf(first)
    BY DEF ReadInv
  <2>2. PICK W \in Nat \ {0} : W = DBits + 1 /\ W = Span
    BY Lengths DEF Span
  <2>3. PICK n \in Nat : n = Len(out) /\ n <= 2 * W
    BY <2>1, <2>2 DEF OutOf
  <2>4. first % Size = first /\ (first + 0) % Size = first
    BY Widths DEF Addr
  <2>5. n < 2 * W => chip.addr = (first + n \div W) % Size
    <3>1. CASE n < W
      <4>1. n \div W = 0 /\ chip.addr = first
        BY <2>1, <2>2, <2>3, <3>1, Spans DEF OutOf
      <4> QED
        BY <2>4, <4>1
    <3>2. CASE W <= n /\ n < 2 * W
      <4>1. n \div W = 1 /\ chip.addr = (first + 1) % Size
        BY <2>1, <2>2, <2>3, <3>2, Spans DEF OutOf
      <4> QED
        BY <4>1
    <3> QED
      BY <2>3, <3>1, <3>2
  <2>6. ASSUME NEW i \in 1..n
        PROVE  out[i] = OutBit(mem[(first + (i - 1) \div W) % Size], (i - 1) % W)
    <3>1. out[i] = IF i <= W THEN OutBit(mem[first], i - 1)
                   ELSE OutBit(mem[(first + 1) % Size], i - 1 - W)
      BY <2>1, <2>2, <2>3 DEF OutOf
    <3>2. CASE i <= W
      <4>1. i - 1 \in 0..(W - 1)
        BY <3>2
      <4>2. (i - 1) \div W = 0 /\ (i - 1) % W = i - 1
        BY <4>1, Spans
      <4> QED
        BY <2>4, <3>1, <3>2, <4>2
    <3>3. CASE ~(i <= W)
      <4>1. i - 1 \in W..(2 * W - 1)
        BY <2>3, <3>3
      <4>2. (i - 1) \div W = 1 /\ (i - 1) % W = i - 1 - W
        BY <4>1, Spans
      <4> QED
        BY <3>1, <3>3, <4>2
    <3> QED
      BY <3>2, <3>3
  <2> QED
    BY <2>2, <2>3, <2>5, <2>6 DEF OutBit
<1> QED
  BY <1>1, InitTypes, NextTypes, InitReads, NextReads, PTL DEF Spec
=============================================================================
