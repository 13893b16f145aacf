----------------------------- MODULE UVMProofs -----------------------------
(***************************************************************************)
(* What a run of the virtual machine can do, for any program, context,     *)
(* word size and accounts: it moves coins and makes none, overdraws no     *)
(* account, debits nobody who did not authorize it, and ends.              *)
(***************************************************************************)
EXTENDS UVM, NaturalsInduction, FiniteSetTheorems, TLAPS

\* A non-empty set of naturals has a least element.
LEMMA LeastNatural == \A T \in SUBSET Nat : T # {} => \E m \in T : \A k \in T : m <= k
<1>1. IsWellFoundedOn(OpToRel(<, Nat), Nat)
  BY NatLessThanWellFounded
<1>2. SUFFICES ASSUME NEW T \in SUBSET Nat, T # {}
               PROVE  \E m \in T : \A k \in T : m <= k
  OBVIOUS
<1>3. PICK m \in T : \A k \in T : ~(<<k, m>> \in OpToRel(<, Nat))
  BY <1>1, <1>2, WFMin
<1>4. \A k \in T : ~(k < m)
  BY <1>3, <1>2 DEF OpToRel
<1> QED BY <1>4, <1>2

\* Induction up to a bound, on the set of the numbers of which a fact holds.
LEMMA HoldsUpTo ==
    ASSUME NEW last \in Nat, NEW S, 0 \in S,
           \A n \in 0 .. last : n # last /\ n \in S => n + 1 \in S
    PROVE  0 .. last \subseteq S
<1> DEFINE Bad == (0 .. last) \ S
<1>1. SUFFICES ASSUME Bad # {} PROVE FALSE
  OBVIOUS
<1>2. PICK n \in Bad : \A k \in Bad : n <= k
  <2>1. Bad \in SUBSET Nat
    OBVIOUS
  <2> HIDE DEF Bad
  <2> QED BY <1>1, <2>1, LeastNatural
<1>3. n \in 0 .. last /\ n \notin S /\ n # 0
  OBVIOUS
<1>4. n - 1 \in 0 .. last /\ n - 1 # last /\ ~(n <= n - 1) /\ (n - 1) + 1 = n
  BY <1>3
<1>5. n - 1 \in S
  BY <1>2, <1>4
<1>6. (n - 1) + 1 \in S
  BY <1>4, <1>5
<1> QED BY <1>3, <1>4, <1>6

----------------------------------------------------------------------------
(* Totals.                                                                 *)

Some(s) == CHOOSE x \in s : TRUE

\* What a total over s is, of the totals of smaller sets.
NextTotal(f, it, s) == IF s = {} THEN 0 ELSE f[Some(s)] + it[s \ {Some(s)}]

\* The recursion of Total has a solution.
LEMMA TotalSolves ==
    ASSUME NEW f, IsFiniteSet(DOMAIN f)
    PROVE  \E it : /\ it = [s \in SUBSET DOMAIN f |-> NextTotal(f, it, s)]
                   /\ Total(f) = it[DOMAIN f]
<1> DEFINE D == DOMAIN f
           UpTo(m) == {s \in SUBSET D : Cardinality(s) <= m}
           Solves(m, it) == it = [s \in UpTo(m) |-> NextTotal(f, it, s)]
           Unsolved == {m \in Nat : ~\E it : Solves(m, it)}
<1>1. \A s \in SUBSET D : IsFiniteSet(s) /\ Cardinality(s) \in Nat
  BY FS_Subset, FS_CardinalityType
<1>2. ASSUME NEW s \in SUBSET D, s # {}
      PROVE  /\ Some(s) \in s
             /\ Cardinality(s \ {Some(s)}) = Cardinality(s) - 1
             /\ Cardinality(s) # 0
  BY <1>1, <1>2, FS_RemoveElement, FS_EmptySet DEF Some
<1>3. Unsolved = {}
  <2>1. SUFFICES ASSUME Unsolved # {} PROVE FALSE
    OBVIOUS
  <2>2. PICK m \in Unsolved : \A k \in Unsolved : m <= k
    <3> HIDE DEF Unsolved
    <3>1. Unsolved \in SUBSET Nat
      BY DEF Unsolved
    <3> QED BY <2>1, <3>1, LeastNatural
  <2>3. m \in Nat
    OBVIOUS
  <2>4. m # 0
    <3> DEFINE it0 == [s \in UpTo(0) |-> 0]
    <3>1. \A s \in UpTo(0) : s = {}
      <4> SUFFICES ASSUME NEW s \in UpTo(0), s # {} PROVE FALSE
        OBVIOUS
      <4>1. Cardinality(s) = 0
        BY <1>1
      <4> QED BY <1>2, <4>1
    <3>2. \A s \in UpTo(0) : NextTotal(f, it0, s) = 0
      BY <3>1 DEF NextTotal
    <3>3. Solves(0, it0)
      <4> HIDE DEF UpTo
      <4> QED BY <3>2
    <3> QED BY <3>3
  <2>5. PICK g : Solves(m - 1, g)
    <3>1. m - 1 \in Nat /\ ~(m <= m - 1)
      BY <2>3, <2>4
    <3>2. m - 1 \notin Unsolved
      <4> HIDE DEF Unsolved
      <4> QED BY <3>1, <2>2
    <3> QED BY <3>1, <3>2
  <2> DEFINE it == [s \in UpTo(m) |-> NextTotal(f, g, s)]
  <2>6. \A s \in UpTo(m - 1) : s \in UpTo(m) /\ g[s] = NextTotal(f, g, s)
    <3>1. \A s \in UpTo(m - 1) : s \in UpTo(m)
      BY <1>1, <2>3
    <3> HIDE DEF UpTo
    <3> QED BY <2>5, <3>1
  <2>7. ASSUME NEW s \in UpTo(m)
        PROVE  it[s] = NextTotal(f, it, s)
    <3>1. CASE s = {}
      BY <3>1 DEF NextTotal
    <3>2. CASE s # {}
      <4>1. s \ {Some(s)} \in UpTo(m - 1)
        BY <1>1, <1>2, <2>3, <3>2
      <4>2. it[s \ {Some(s)}] = g[s \ {Some(s)}]
        BY <2>6, <4>1
      <4> HIDE DEF UpTo, it
      <4>3. it[s] = NextTotal(f, g, s)
        BY DEF it
      <4> QED BY <3>2, <4>2, <4>3 DEF NextTotal
    <3> QED BY <3>1, <3>2
  <2>8. Solves(m, it)
    <3> HIDE DEF UpTo
    <3> QED BY <2>7
  <2> QED BY <2>8
<1>4. UpTo(Cardinality(D)) = SUBSET D
  BY <1>1, FS_Subset
<1>5. Cardinality(D) \in Nat
  BY FS_CardinalityType
<1>6. PICK it : it = [s \in SUBSET D |-> NextTotal(f, it, s)]
  <2>1. \E it : Solves(Cardinality(D), it)
    BY <1>3, <1>5
  <2> HIDE DEF UpTo
  <2> QED BY <2>1, <1>4
<1> DEFINE h == CHOOSE it_1 : it_1 = [s \in SUBSET D |-> NextTotal(f, it_1, s)]
<1>7. Total(f) = h[D]
  BY DEF Total, MapThenSumSet, MapThenFoldSet, NextTotal, Some
<1>8. h = [s \in SUBSET D |-> NextTotal(f, h, s)]
  BY <1>6
<1> HIDE DEF h
<1> QED BY <1>7, <1>8

\* What holds of the empty set, and of a set when it holds without the element
\* that is summed up first, holds of all of them.
LEMMA SetsFromBelow ==
    ASSUME NEW D, IsFiniteSet(D), NEW T, {} \in T,
           \A s \in SUBSET D : s # {} /\ s \ {Some(s)} \in T => s \in T
    PROVE  \A s \in SUBSET D : s \in T
<1> SUFFICES ASSUME NEW r \in SUBSET D, r \notin T PROVE FALSE
  OBVIOUS
<1> DEFINE Bad == {s \in SUBSET D : s \notin T}
           Sizes == {Cardinality(s) : s \in Bad}
<1>1. \A s \in SUBSET D : IsFiniteSet(s) /\ Cardinality(s) \in Nat
  BY FS_Subset, FS_CardinalityType
<1>2. PICK n \in Sizes : \A k \in Sizes : n <= k
  <2>1. Sizes \in SUBSET Nat /\ Sizes # {}
    BY <1>1
  <2> HIDE DEF Sizes
  <2> QED BY <2>1, LeastNatural
<1>3. PICK s \in Bad : Cardinality(s) = n
  OBVIOUS
<1>4. s # {} /\ Some(s) \in s
  <2>1. s # {}
    BY <1>3
  <2> QED BY <2>1 DEF Some
<1>5. Cardinality(s \ {Some(s)}) = Cardinality(s) - 1 /\ Cardinality(s) \in Nat
  BY <1>1, <1>3, <1>4, FS_RemoveElement
<1>6. s \ {Some(s)} \notin Bad
  BY <1>2, <1>3, <1>5
<1> QED BY <1>3, <1>4, <1>6

LEMMA TotalOfSum ==
    ASSUME NEW D, IsFiniteSet(D), NEW f \in [D -> Int], NEW g \in [D -> Int],
           NEW h \in [D -> Int], \A x \in D : h[x] = f[x] + g[x]
    PROVE  Total(f) \in Int /\ Total(g) \in Int /\ Total(h) = Total(f) + Total(g)
<1>1. DOMAIN f = D /\ DOMAIN g = D /\ DOMAIN h = D
  OBVIOUS
<1>2. PICK itf : itf = [s \in SUBSET D |-> NextTotal(f, itf, s)] /\ Total(f) = itf[D]
  BY <1>1, TotalSolves
<1>3. PICK itg : itg = [s \in SUBSET D |-> NextTotal(g, itg, s)] /\ Total(g) = itg[D]
  BY <1>1, TotalSolves
<1>4. PICK ith : ith = [s \in SUBSET D |-> NextTotal(h, ith, s)] /\ Total(h) = ith[D]
  BY <1>1, TotalSolves
<1> DEFINE T == {s \in SUBSET D : /\ itf[s] \in Int /\ itg[s] \in Int
                                  /\ ith[s] = itf[s] + itg[s]}
<1>5. {} \in T
  <2>1. itf[{}] = 0 /\ itg[{}] = 0 /\ ith[{}] = 0
    BY <1>2, <1>3, <1>4 DEF NextTotal
  <2> QED BY <2>1
<1>6. ASSUME NEW s \in SUBSET D, s # {}, s \ {Some(s)} \in T
      PROVE  s \in T
  <2>1. Some(s) \in D
    BY <1>6 DEF Some
  <2> DEFINE x == Some(s)
  <2>2. itf[s] = f[x] + itf[s \ {x}] /\ itg[s] = g[x] + itg[s \ {x}]
    BY <1>2, <1>3, <1>6 DEF NextTotal
  <2>3. ith[s] = h[x] + ith[s \ {x}]
    BY <1>4, <1>6 DEF NextTotal
  <2>4. h[x] = f[x] + g[x] /\ f[x] \in Int /\ g[x] \in Int
    BY <2>1
  <2> HIDE DEF x
  <2> QED BY <1>6, <2>2, <2>3, <2>4 DEF x
<1>7. D \in T
  <2> HIDE DEF T
  <2> QED BY <1>5, <1>6, SetsFromBelow
<1> QED BY <1>2, <1>3, <1>4, <1>7

LEMMA TotalOfOne ==
    ASSUME NEW D, IsFiniteSet(D), NEW a, NEW d \in Int
    PROVE  Total([x \in D |-> IF x = a THEN d ELSE 0]) = IF a \in D THEN d ELSE 0
<1> DEFINE f == [x \in D |-> IF x = a THEN d ELSE 0]
<1>1. PICK it : it = [s \in SUBSET D |-> NextTotal(f, it, s)] /\ Total(f) = it[D]
  <2>1. DOMAIN f = D
    OBVIOUS
  <2> HIDE DEF f
  <2> QED BY <2>1, TotalSolves
<1> DEFINE T == {s \in SUBSET D : it[s] = IF a \in s THEN d ELSE 0}
<1>2. {} \in T
  BY <1>1 DEF NextTotal
<1>3. ASSUME NEW s \in SUBSET D, s # {}, s \ {Some(s)} \in T
      PROVE  s \in T
  <2>1. Some(s) \in D /\ Some(s) \in s
    BY <1>3 DEF Some
  <2>2. it[s] = f[Some(s)] + it[s \ {Some(s)}]
    <3> HIDE DEF f
    <3> QED BY <1>1, <1>3 DEF NextTotal
  <2>3. f[Some(s)] = IF Some(s) = a THEN d ELSE 0
    BY <2>1
  <2>4. it[s \ {Some(s)}] = IF a \in s /\ a # Some(s) THEN d ELSE 0
    BY <1>3
  <2> HIDE DEF f
  <2>5. it[s] = IF a \in s THEN d ELSE 0
    BY <2>1, <2>2, <2>3, <2>4
  <2> QED BY <2>5
<1>4. D \in T
  <2> HIDE DEF T
  <2> QED BY <1>2, <1>3, SetsFromBelow
<1> QED BY <1>1, <1>4

LEMMA TotalIsInt ==
    ASSUME NEW D, IsFiniteSet(D), NEW f \in [D -> Int]
    PROVE  Total(f) \in Int
<1>1. PICK it : it = [s \in SUBSET D |-> NextTotal(f, it, s)] /\ Total(f) = it[D]
  <2>1. DOMAIN f = D
    OBVIOUS
  <2> QED BY <2>1, TotalSolves
<1> DEFINE T == {s \in SUBSET D : it[s] \in Int}
<1>2. {} \in T
  BY <1>1 DEF NextTotal
<1>3. ASSUME NEW s \in SUBSET D, s # {}, s \ {Some(s)} \in T
      PROVE  s \in T
  <2>1. Some(s) \in D
    BY <1>3 DEF Some
  <2>2. it[s] = f[Some(s)] + it[s \ {Some(s)}]
    BY <1>1, <1>3 DEF NextTotal
  <2> QED BY <1>3, <2>1, <2>2
<1>4. D \in T
  <2> HIDE DEF T
  <2> QED BY <1>2, <1>3, SetsFromBelow
<1> QED BY <1>1, <1>4

\* No amount of several is more than all of them.
LEMMA TotalBounds ==
    ASSUME NEW D, IsFiniteSet(D), NEW f \in [D -> Nat], NEW a \in D
    PROVE  f[a] <= Total(f)
<1>1. PICK it : it = [s \in SUBSET D |-> NextTotal(f, it, s)] /\ Total(f) = it[D]
  <2>1. DOMAIN f = D
    OBVIOUS
  <2> QED BY <2>1, TotalSolves
<1> DEFINE T == {s \in SUBSET D : it[s] \in Nat /\ (a \in s => f[a] <= it[s])}
<1>2. {} \in T
  BY <1>1 DEF NextTotal
<1>3. ASSUME NEW s \in SUBSET D, s # {}, s \ {Some(s)} \in T
      PROVE  s \in T
  <2>1. Some(s) \in D /\ Some(s) \in s
    BY <1>3 DEF Some
  <2>2. it[s] = f[Some(s)] + it[s \ {Some(s)}]
    BY <1>1, <1>3 DEF NextTotal
  <2>3. /\ it[s \ {Some(s)}] \in Nat /\ f[Some(s)] \in Nat /\ f[a] \in Nat
        /\ (a \in s /\ a # Some(s)) => f[a] <= it[s \ {Some(s)}]
    BY <1>3, <2>1
  <2> QED BY <2>2, <2>3
<1>4. D \in T
  <2> HIDE DEF T
  <2> QED BY <1>2, <1>3, SetsFromBelow
<1> QED BY <1>1, <1>4

\* One account gains d.
LEMMA TotalOfChanged ==
    ASSUME NEW D, IsFiniteSet(D), NEW f \in [D -> Int], NEW a \in D, NEW d \in Int,
           NEW h \in [D -> Int], \A x \in D : x # a => h[x] = f[x], h[a] = f[a] + d
    PROVE  Total(h) = Total(f) + d
<1> DEFINE g == [x \in D |-> IF x = a THEN d ELSE 0]
<1>1. g \in [D -> Int]
  OBVIOUS
<1>2. \A x \in D : h[x] = f[x] + g[x]
  OBVIOUS
<1>3. Total(g) = d
  BY TotalOfOne
<1> HIDE DEF g
<1> QED BY <1>1, <1>2, <1>3, TotalOfSum

\* One account pays another, or itself.
LEMMA TotalOfMoved ==
    ASSUME NEW D, IsFiniteSet(D), NEW f \in [D -> Int], NEW source \in D, NEW receiver \in D,
           NEW amount \in Int
    PROVE  /\ Moved(f, source, receiver, amount) \in [D -> Int]
           /\ Total(Moved(f, source, receiver, amount)) = Total(f)
<1> DEFINE left == [f EXCEPT ![source] = @ - amount]
           moved == [left EXCEPT ![receiver] = @ + amount]
<1>1. left \in [D -> Int]
  OBVIOUS
<1>2. f[source] = left[source] + amount /\ \A x \in D : x # source => f[x] = left[x]
  OBVIOUS
<1>3. Total(f) = Total(left) + amount
  <2> HIDE DEF left
  <2> QED BY ONLY IsFiniteSet(D), left \in [D -> Int], f \in [D -> Int], source \in D,
                  amount \in Int, <1>1, <1>2, TotalOfChanged
<1>4. /\ moved \in [D -> Int]
      /\ moved[receiver] = left[receiver] + amount
      /\ \A x \in D : x # receiver => moved[x] = left[x]
  <2> HIDE DEF left
  <2> QED BY <1>1
<1>5. Total(moved) = Total(left) + amount
  <2> HIDE DEF left, moved
  <2> QED BY ONLY IsFiniteSet(D), receiver \in D, amount \in Int, <1>1, <1>4, TotalOfChanged
<1>6. moved = Moved(f, source, receiver, amount)
  BY DEF Moved
<1> HIDE DEF moved, left
<1> QED BY <1>3, <1>4, <1>5, <1>6

\* What a transfer adds to an account.
Gain(a, source, receiver, amount) ==
    (IF a = source THEN 0 - amount ELSE 0) + (IF a = receiver THEN amount ELSE 0)

LEMMA MovedGains ==
    ASSUME NEW D, NEW f \in [D -> Int], NEW source \in D, NEW receiver \in D,
           NEW amount \in Int, NEW a \in D
    PROVE  Moved(f, source, receiver, amount)[a] = f[a] + Gain(a, source, receiver, amount)
<1> DEFINE left == [f EXCEPT ![source] = @ - amount]
<1>1. left \in [D -> Int] /\ left[a] = f[a] + (IF a = source THEN 0 - amount ELSE 0)
  OBVIOUS
<1>2. Moved(f, source, receiver, amount) = [left EXCEPT ![receiver] = @ + amount]
  BY DEF Moved
<1> HIDE DEF left
<1>3. [left EXCEPT ![receiver] = @ + amount][a] = left[a] + (IF a = receiver THEN amount ELSE 0)
  BY <1>1
<1> QED BY <1>1, <1>2, <1>3 DEF Gain

LEMMA GainType ==
    ASSUME NEW a, NEW source, NEW receiver, NEW amount \in Nat
    PROVE  /\ Gain(a, source, receiver, amount) \in Int
           /\ Gain(a, source, receiver, amount) >= 0 - amount
           /\ a # source => Gain(a, source, receiver, amount) >= 0
BY DEF Gain

\* Zero everywhere.
LEMMA TotalOfNothing ==
    ASSUME NEW D, IsFiniteSet(D)
    PROVE  Total([x \in D |-> 0]) = 0
<1> DEFINE z == [x \in D |-> 0]
<1>1. z \in [D -> Int] /\ \A x \in D : z[x] = z[x] + z[x]
  OBVIOUS
<1> HIDE DEF z
<1>2. Total(z) \in Int /\ Total(z) = Total(z) + Total(z)
  BY <1>1, TotalOfSum
<1>3. \A t \in Int : t = t + t => t = 0
  OBVIOUS
<1>4. Total(z) = 0
  BY <1>2, <1>3
<1> QED BY <1>4 DEF z

----------------------------------------------------------------------------
(* One instruction.                                                        *)

LEMMA WordModulusType == WordModulus \in Nat \ {0}
<1>1. WordBits \in 0 .. WordBits
  BY WordBitsAssumption
<1> QED BY <1>1, PowersAssumption DEF WordModulus

LEMMA ReducedToWord ==
    ASSUME NEW value \in Int
    PROVE  value % WordModulus \in Word
<1> DEFINE m == WordModulus
<1>1. m \in Nat \ {0}
  BY WordModulusType
<1> HIDE DEF m
<1>2. value % m \in 0 .. m - 1
  BY <1>1
<1> QED BY <1>2 DEF m, Word

\* The machine goes on with the coins and the gas it had.
Keeps(w, vm) ==
    /\ w \in MachineStates
    /\ w.gas = vm.gas
    /\ w.balances = vm.balances
    /\ w.changes = vm.changes

LEMMA StopKeeps ==
    ASSUME NEW vm \in MachineStates,
           NEW status \in {"running", "succeeded", "reverted", "failed", "out_of_gas"}
    PROVE  Keeps(Stop(vm, status), vm)
BY DEF MachineStates, Keeps, Stop

LEMMA FailKeeps ==
    ASSUME NEW vm \in MachineStates
    PROVE  Keeps(Fail(vm), vm)
BY StopKeeps DEF Fail

LEMMA PushedKeeps ==
    ASSUME NEW vm \in MachineStates, NEW value \in Int
    PROVE  Keeps(Pushed(vm, value), vm)
<1> DEFINE word == value % WordModulus
<1>1. word \in Word
  BY ReducedToWord
<1> HIDE DEF word
<1>2. Append(vm.stack, word) \in Seq(Word)
  BY <1>1 DEF MachineStates
<1>3. Keeps([vm EXCEPT !.stack = Append(@, word)], vm)
  BY <1>2 DEF MachineStates, Keeps
<1> QED BY <1>3, FailKeeps DEF Pushed, word

LEMMA DroppedKeeps ==
    ASSUME NEW vm \in MachineStates, NEW n \in Nat, n <= Len(vm.stack)
    PROVE  Keeps(Dropped(vm, n), vm)
<1>1. vm.stack \in Seq(Word) /\ Len(vm.stack) \in Nat
  BY DEF MachineStates
<1>2. SubSeq(vm.stack, 1, Len(vm.stack) - n) \in Seq(Word)
  BY <1>1
<1> QED BY <1>2 DEF MachineStates, Keeps, Dropped

LEMMA ReducedKeeps ==
    ASSUME NEW vm \in MachineStates, NEW n \in Nat, NEW value,
           n <= Len(vm.stack) => value \in Int
    PROVE  Keeps(Reduced(vm, n, value), vm)
<1>1. CASE Len(vm.stack) < n
  BY <1>1, FailKeeps DEF Reduced
<1>2. CASE ~(Len(vm.stack) < n)
  <2>1. n <= Len(vm.stack)
    BY <1>2 DEF MachineStates
  <2>2. Keeps(Dropped(vm, n), vm)
    BY <2>1, DroppedKeeps
  <2>3. Keeps(Pushed(Dropped(vm, n), value), Dropped(vm, n))
    BY <2>1, <2>2, PushedKeeps DEF Keeps
  <2> QED BY <1>2, <2>2, <2>3 DEF Keeps, Reduced
<1> QED BY <1>1, <1>2

\* What is on the stack is a word.
LEMMA TopIsWord ==
    ASSUME NEW vm \in MachineStates, NEW n \in Nat, n < Len(vm.stack)
    PROVE  Top(vm, n) \in Word /\ Top(vm, n) \in Nat
<1>1. vm.stack \in Seq(Word) /\ Len(vm.stack) \in Nat
  BY DEF MachineStates
<1>2. Len(vm.stack) - n \in 1 .. Len(vm.stack)
  BY <1>1
<1>3. vm.stack[Len(vm.stack) - n] \in Word
  BY <1>1, <1>2
<1>4. Word \subseteq Nat
  BY WordModulusType DEF Word
<1> QED BY <1>3, <1>4 DEF Top

LEMMA XorIsInt ==
    ASSUME NEW l \in Nat, NEW r \in Nat
    PROVE  Xor(l, r) \in Int
<1> DEFINE bit == [i \in 0 .. WordBits - 1 |-> 2^i * ((l \div 2^i + r \div 2^i) % 2)]
<1>1. ASSUME NEW i \in 0 .. WordBits - 1
      PROVE  2^i * ((l \div 2^i + r \div 2^i) % 2) \in Int
  <2> DEFINE q == 2^i
  <2>1. q \in Nat \ {0}
    <3>1. i \in 0 .. WordBits
      BY WordBitsAssumption
    <3> QED BY <3>1, PowersAssumption
  <2> HIDE DEF q
  <2>2. (l \div q) \in Int /\ (r \div q) \in Int
    BY <2>1
  <2>3. ((l \div q + r \div q) % 2) \in Int
    BY <2>2
  <2>4. q * ((l \div q + r \div q) % 2) \in Int
    BY <2>1, <2>3
  <2> QED BY <2>4 DEF q
<1>2. bit \in [0 .. WordBits - 1 -> Int]
  BY <1>1
<1>3. IsFiniteSet(0 .. WordBits - 1)
  BY FS_Interval, WordBitsAssumption
<1> HIDE DEF bit
<1>4. Total(bit) \in Int
  BY <1>2, <1>3, TotalIsInt
<1> QED BY <1>4 DEF Xor, bit

LEMMA FlagIsInt == ASSUME NEW condition PROVE Flag(condition) \in Int
BY DEF Flag

LEMMA BinaryResultIsInt ==
    ASSUME NEW op \in BinaryOps, NEW l \in Nat, NEW r \in Nat,
           op \in {"DIV", "MOD"} => r # 0
    PROVE  BinaryResult(op, l, r) \in Int
<1>1. CASE op = "XOR"
  BY <1>1, XorIsInt DEF BinaryResult
<1>2. CASE op \in {"EQ", "LT", "GT", "AND", "OR"}
  BY <1>2, FlagIsInt DEF BinaryResult
<1>3. CASE op \in {"ADD", "SUB", "MUL"}
  BY <1>3 DEF BinaryResult
<1>4. CASE op = "DIV"
  <2>1. (l \div r) \in Int
    BY <1>4
  <2> QED BY <1>4, <2>1 DEF BinaryResult
<1>5. CASE op = "MOD"
  <2>1. (l % r) \in Int
    BY <1>5
  <2> QED BY <1>5, <2>1 DEF BinaryResult
<1> QED BY <1>1, <1>2, <1>3, <1>4, <1>5 DEF BinaryOps

\* What an instruction costs; only the two that end the run are free.
LEMMA CostType ==
    ASSUME NEW ins, ins.op \in DOMAIN GasCosts
    PROVE  Cost(ins) \in Nat /\ (Cost(ins) = 0 => ins.op \in {"HALT", "REVERT"})
<1>1. GasCosts[ins.op] \in Nat
  BY SMTT(60) DEF GasCosts
<1>2. ASSUME ins.op \notin {"HALT", "REVERT"} PROVE GasCosts[ins.op] # 0
  BY <1>2, SMTT(60) DEF GasCosts
<1> QED BY <1>1, <1>2 DEF Cost

LEMMA JumpToKeeps ==
    ASSUME NEW vm \in MachineStates, NEW target \in Int, NEW length \in Nat
    PROVE  Keeps(JumpTo(vm, target, length), vm)
<1>1. CASE target \in 0 .. length - 1
  <2>1. target \in Nat
    BY <1>1
  <2>2. Keeps([vm EXCEPT !.pc = target], vm)
    BY <2>1 DEF Keeps, MachineStates
  <2> QED BY <1>1, <2>2 DEF JumpTo
<1>2. CASE target \notin 0 .. length - 1
  BY <1>2, FailKeeps DEF JumpTo
<1> QED BY <1>1, <1>2

\* No instruction but TRANSFER_FROM touches the coins, and none the gas.
LEMMA PerformKeeps ==
    ASSUME NEW ins, NEW ctx, NEW vm \in MachineStates, NEW length \in Nat,
           ins.op \in DOMAIN GasCosts \ {"TRANSFER_FROM"}, IsInstruction(ins), IsContext(ctx)
    PROVE  Keeps(Perform(ins, ctx, vm, length), vm)
<1> DEFINE w == Perform(ins, ctx, vm, length)
           args == ins.args
<1>0. Len(vm.stack) \in Nat /\ (vm.stack # << >> => Len(vm.stack) >= 1)
  BY DEF MachineStates
<1>1. CASE Len(args) # Arity(ins.op)
  BY <1>1, FailKeeps DEF Perform
<1> SUFFICES ASSUME Len(args) = Arity(ins.op) PROVE Keeps(w, vm)
  BY <1>1
<1> HIDE DEF args
<1>2. CASE ins.op = "PUSH"
  <2>1. w = Pushed(vm, args[1])
    BY <1>2 DEF Perform, BinaryOps, args
  <2>2. args[1] \in Int
    BY <1>2 DEF IsInstruction, args
  <2> QED BY <2>1, <2>2, PushedKeeps
<1>3. CASE ins.op = "POP"
  <2>1. w = IF vm.stack = << >> THEN Fail(vm) ELSE Dropped(vm, 1)
    BY <1>3 DEF Perform, BinaryOps, args
  <2> QED BY <1>0, <2>1, FailKeeps, DroppedKeeps
<1>4. CASE ins.op = "DUP"
  <2>1. w = IF vm.stack = << >> THEN Fail(vm) ELSE Pushed(vm, Top(vm, 0))
    BY <1>4 DEF Perform, BinaryOps, args
  <2> QED BY <1>0, <2>1, FailKeeps, PushedKeeps, TopIsWord
<1>5. CASE ins.op = "SWAP"
  <2> DEFINE both == Dropped(vm, 2).stack \o <<Top(vm, 0), Top(vm, 1)>>
  <2>1. w = IF Len(vm.stack) < 2 THEN Fail(vm) ELSE [vm EXCEPT !.stack = both]
    BY <1>5 DEF Perform, BinaryOps, args
  <2>2. ASSUME Len(vm.stack) >= 2
        PROVE  both \in Seq(Word)
    <3>1. Dropped(vm, 2).stack \in Seq(Word)
      BY <1>0, <2>2, DroppedKeeps DEF Keeps, MachineStates
    <3>2. Top(vm, 0) \in Word /\ Top(vm, 1) \in Word
      BY <1>0, <2>2, TopIsWord
    <3> QED BY <3>1, <3>2
  <2>3. both \in Seq(Word) => Keeps([vm EXCEPT !.stack = both], vm)
    <3> HIDE DEF both
    <3> QED BY DEF Keeps, MachineStates
  <2>4. Len(vm.stack) < 2 \/ Len(vm.stack) >= 2
    BY <1>0
  <2> HIDE DEF both, w
  <2> QED BY <2>1, <2>2, <2>3, <2>4, FailKeeps
<1>6. CASE ins.op \in BinaryOps
  <2> DEFINE value == BinaryResult(ins.op, Top(vm, 1), Top(vm, 0))
             fails == Len(vm.stack) < 2 \/ (ins.op \in {"DIV", "MOD"} /\ Top(vm, 0) = 0)
  <2>1. w = IF fails THEN Fail(vm) ELSE Reduced(vm, 2, value)
    BY <1>6 DEF Perform, BinaryOps, args
  <2>2. ASSUME ~fails
        PROVE  value \in Int
    <3>1. Len(vm.stack) >= 2
      BY <1>0, <2>2
    <3>2. Top(vm, 0) \in Nat /\ Top(vm, 1) \in Nat
      BY <1>0, <3>1, TopIsWord
    <3> QED BY <1>6, <2>2, <3>2, BinaryResultIsInt
  <2> HIDE DEF value, fails, w
  <2> QED BY <2>1, <2>2, FailKeeps, ReducedKeeps
<1>7. CASE ins.op \in {"NOT", "SHA256"}
  <2>1. w = Reduced(vm, 1, IF ins.op = "NOT" THEN Flag(Top(vm, 0) = 0) ELSE Sha256[Top(vm, 0)])
    BY <1>7 DEF Perform, BinaryOps, args
  <2>2. Len(vm.stack) >= 1 => Sha256[Top(vm, 0)] \in Int
    BY <1>0, TopIsWord, Sha256Assumption, WordModulusType DEF Word
  <2> QED BY <1>0, <2>1, <2>2, ReducedKeeps, FlagIsInt
<1>8. CASE ins.op \in {"MEM_LOAD", "LOAD"}
  <2>1. args[1] \in Keys
    BY <1>8 DEF IsInstruction, args
  <2>2. vm.memory[args[1]] \in Int /\ vm.storage[args[1]] \in Int
    BY <2>1, WordModulusType DEF MachineStates, Word
  <2>3. w = Pushed(vm, IF ins.op = "LOAD" THEN vm.storage[args[1]] ELSE vm.memory[args[1]])
    BY <1>8 DEF Perform, BinaryOps, args
  <2> QED BY <2>2, <2>3, PushedKeeps
<1>9. CASE ins.op \in {"MEM_STORE", "STORE"}
  <2> DEFINE rest == Dropped(vm, 1)
             memory == [rest EXCEPT !.memory[args[1]] = Top(vm, 0)]
             storage == [rest EXCEPT !.storage[args[1]] = Top(vm, 0)]
  <2>1. w = IF vm.stack = << >> THEN Fail(vm)
            ELSE IF ins.op = "STORE" THEN storage ELSE memory
    BY <1>9 DEF Perform, BinaryOps, args
  <2>2. vm.stack # << >> => Keeps(rest, vm) /\ Top(vm, 0) \in Word
    BY <1>0, DroppedKeeps, TopIsWord
  <2>3. ASSUME Keeps(rest, vm), Top(vm, 0) \in Word
        PROVE  Keeps(memory, vm) /\ Keeps(storage, vm)
    <3> HIDE DEF rest
    <3> QED BY <2>3 DEF Keeps, MachineStates
  <2> HIDE DEF rest, memory, storage
  <2> QED BY <2>1, <2>2, <2>3, FailKeeps
<1>10. CASE ins.op = "READ_METADATA"
  <2>1. w = IF Reads(ctx.metadata, args[1]) THEN Pushed(vm, ctx.metadata[args[1]]) ELSE Fail(vm)
    BY <1>10 DEF Perform, BinaryOps, args
  <2> QED BY <2>1, FailKeeps, PushedKeeps DEF Reads
<1>11. CASE ins.op = "READ_INPUT"
  <2>1. w = IF Reads(ctx.input, args[1]) THEN Pushed(vm, ctx.input[args[1]]) ELSE Fail(vm)
    BY <1>11 DEF Perform, BinaryOps, args
  <2> QED BY <2>1, FailKeeps, PushedKeeps DEF Reads
<1>12. CASE ins.op = "READ_COMMIT"
  <2> DEFINE pair == <<args[1], args[2]>>
             reads == IsAuthorized(ctx, args[1], args[2]) /\ pair \in DOMAIN ctx.commitments
  <2>1. w = IF reads THEN Pushed(vm, ctx.commitments[pair]) ELSE Fail(vm)
    BY <1>12 DEF Perform, BinaryOps, args
  <2>2. reads => ctx.commitments[pair] \in Int
    BY DEF IsContext
  <2> QED BY <2>1, <2>2, FailKeeps, PushedKeeps
<1>13. CASE ins.op = "READ_REVEAL"
  <2> DEFINE pair == <<args[1], args[2]>>
  <2>1. w = IF Reads(ctx.reveals, pair) THEN Pushed(vm, ctx.reveals[pair]) ELSE Fail(vm)
    BY <1>13 DEF Perform, BinaryOps, args
  <2> QED BY <2>1, FailKeeps, PushedKeeps DEF Reads
<1>14. CASE ins.op \in {"HAS_REVEAL", "HAS_AUTH"}
  <2>1. \E condition : w = Pushed(vm, Flag(condition))
    BY <1>14 DEF Perform, BinaryOps, args
  <2> QED BY <2>1, FlagIsInt, PushedKeeps
<1>15. CASE ins.op = "REQUIRE_AUTH"
  <2>1. w \in {vm, Fail(vm)}
    BY <1>15 DEF Perform, BinaryOps, args
  <2> QED BY <2>1, FailKeeps DEF Keeps
<1>16. CASE ins.op = "BLOCK_HEIGHT"
  <2>1. w = Pushed(vm, ctx.height)
    BY <1>16 DEF Perform, BinaryOps, args
  <2> QED BY <2>1, PushedKeeps DEF IsContext
<1>17. CASE ins.op = "TX_SENDER"
  <2>1. w = Pushed(vm, AddressWord[ctx.sender])
    BY <1>17 DEF Perform, BinaryOps, args
  <2>2. AddressWord[ctx.sender] \in Int
    BY AddressWordAssumption, WordModulusType DEF Word, IsContext
  <2> QED BY <2>1, <2>2, PushedKeeps
<1>18. CASE ins.op = "JUMP"
  <2>1. w = JumpTo(vm, args[1], length) /\ args[1] \in Int
    BY <1>18 DEF Perform, BinaryOps, IsInstruction, args
  <2> QED BY <2>1, JumpToKeeps
<1>19. CASE ins.op = "JUMPI"
  <2>1. args[1] \in Int
    BY <1>19 DEF IsInstruction, args
  <2>2. w = IF args[1] \notin 0 .. length - 1 \/ vm.stack = << >> THEN Fail(vm)
            ELSE IF Top(vm, 0) # 0 THEN JumpTo(Dropped(vm, 1), args[1], length)
            ELSE Dropped(vm, 1)
    BY <1>19 DEF Perform, BinaryOps, args
  <2>3. vm.stack # << >> => Keeps(Dropped(vm, 1), vm)
    BY <1>0, DroppedKeeps
  <2>4. Keeps(Dropped(vm, 1), vm) => Keeps(JumpTo(Dropped(vm, 1), args[1], length), vm)
    BY <2>1, JumpToKeeps DEF Keeps
  <2> QED BY <2>2, <2>3, <2>4, FailKeeps
<1>20. CASE ins.op \in {"HALT", "REVERT"}
  <2>1. w \in {Stop(vm, "succeeded"), Stop(vm, "reverted")}
    BY <1>20 DEF Perform, BinaryOps, args
  <2> QED BY <2>1, StopKeeps
<1>21. DOMAIN GasCosts = {"PUSH", "POP", "DUP", "SWAP", "ADD", "SUB", "MUL", "DIV", "MOD",
      "EQ", "LT", "GT", "AND", "OR", "XOR", "NOT", "SHA256", "MEM_LOAD", "MEM_STORE",
      "READ_METADATA", "READ_INPUT", "LOAD", "STORE", "READ_COMMIT", "READ_REVEAL",
      "HAS_REVEAL", "TRANSFER_FROM", "HAS_AUTH", "REQUIRE_AUTH", "BLOCK_HEIGHT",
      "TX_SENDER", "JUMP", "JUMPI", "HALT", "REVERT"}
  BY DEF GasCosts
<1> QED
  BY <1>2, <1>3, <1>4, <1>5, <1>6, <1>7, <1>8, <1>9, <1>10, <1>11, <1>12, <1>13, <1>14,
     <1>15, <1>16, <1>17, <1>18, <1>19, <1>20, <1>21 DEF BinaryOps

----------------------------------------------------------------------------
(* A run.                                                                  *)

\* What a run has done to the coins so far: moved them between accounts,
\* overdrawn none, and taken only what was its own or authorized.
MovesCoins(vm, ctx) ==
    /\ Total(vm.changes) = 0
    /\ \A a \in Accounts : vm.balances[a] = ctx.balances[a] + vm.changes[a]
    /\ \A a \in Accounts : ctx.balances[a] >= 0 => vm.balances[a] >= 0
    /\ \A a \in Accounts : vm.changes[a] < 0 =>
            \E request : MayDebit(ctx, a, request)

\* The invariant of the loop of execute_uvm_program.
SoundRun(vm, ctx) ==
    /\ vm \in MachineStates
    /\ vm.gas <= ctx.gas_limit
    /\ MovesCoins(vm, ctx)

LEMMA KeepsSound ==
    ASSUME NEW ctx, NEW vm, NEW w, Keeps(w, vm), SoundRun(vm, ctx)
    PROVE  SoundRun(w, ctx)
BY DEF Keeps, SoundRun, MovesCoins

\* The machine goes on, an account having paid another one.
Pays(w, vm, ctx) ==
    /\ w \in MachineStates
    /\ w.gas = vm.gas
    /\ \E source, receiver \in Accounts, amount \in Nat :
          /\ w.balances = Moved(vm.balances, source, receiver, amount)
          /\ w.changes = Moved(vm.changes, source, receiver, amount)
          /\ vm.balances[source] >= amount
          /\ \E request : MayDebit(ctx, source, request)

\* TRANSFER_FROM.
LEMMA TransferPays ==
    ASSUME NEW ins, NEW ctx, NEW vm \in MachineStates, IsContext(ctx), IsInstruction(ins),
           ins.op = "TRANSFER_FROM", Len(ins.args) = Arity(ins.op)
    PROVE  Keeps(TransferCoins(ins, ctx, vm), vm) \/ Pays(TransferCoins(ins, ctx, vm), vm, ctx)
<1> DEFINE source   == Account(ins.args[1], ctx)
           receiver == Account(ins.args[2], ctx)
           amount   == Top(vm, 0)
           popped   == Dropped(vm, 1)
           balances == Moved(popped.balances, source, receiver, amount)
           changes  == Moved(popped.changes, source, receiver, amount)
           paid     == [popped EXCEPT !.balances = balances, !.changes = changes]
           w        == TransferCoins(ins, ctx, vm)
           may      == /\ amount > 0
                       /\ MayDebit(ctx, source, ins.args[3])
                       /\ CanDebit(vm, source, amount)
<1> SUFFICES Keeps(w, vm) \/ Pays(w, vm, ctx)
  OBVIOUS
<1>1. Len(vm.stack) \in Nat
  BY DEF MachineStates
<1>2. CASE Len(vm.stack) < 1
  BY <1>2, FailKeeps DEF TransferCoins
<1>3. CASE Len(vm.stack) >= 1
  <2>1. Keeps(popped, vm) /\ amount \in Nat
    BY <1>1, <1>3, DroppedKeeps, TopIsWord
  <2>2. source \in Accounts /\ receiver \in Accounts
    <3>1. /\ ins.args[1] \in Accounts \cup {SelfAddress}
          /\ ins.args[2] \in Accounts \cup {SelfAddress}
      BY DEF IsInstruction, GasCosts
    <3> QED BY <3>1 DEF Account, IsContext
  <2>3. popped \in MachineStates
    BY <2>1 DEF Keeps
  <2>4. CASE ~may
    <3>1. w = Fail(popped)
      BY <1>1, <1>3, <2>4 DEF TransferCoins
    <3>2. Keeps(w, popped)
      BY <2>3, <3>1, FailKeeps
    <3> HIDE DEF w, popped
    <3> QED BY <2>1, <3>2 DEF Keeps
  <2>5. CASE may
    <3>1. w = paid
      BY <1>1, <1>3, <2>5 DEF TransferCoins
    <3>2. /\ popped.balances = vm.balances /\ popped.balances \in [Accounts -> Int]
          /\ popped.changes = vm.changes /\ popped.changes \in [Accounts -> Int]
      BY <2>1 DEF Keeps, MachineStates
    <3> HIDE DEF popped, source, receiver, amount, w
    <3>3. amount \in Int
      BY <2>1
    <3>4. balances \in [Accounts -> Int]
      BY ONLY <2>2, <3>2, <3>3, AccountsFinite, TotalOfMoved
    <3>5. changes \in [Accounts -> Int]
      BY ONLY <2>2, <3>2, <3>3, AccountsFinite, TotalOfMoved
    <3>6. vm.balances[source] >= amount /\ MayDebit(ctx, source, ins.args[3])
      BY <2>5 DEF CanDebit
    <3>7. /\ balances = Moved(vm.balances, source, receiver, amount)
          /\ changes = Moved(vm.changes, source, receiver, amount)
      BY <3>2
    <3> HIDE DEF balances, changes
    <3>8. /\ paid \in MachineStates /\ paid.gas = vm.gas
          /\ paid.balances = balances /\ paid.changes = changes
      BY <2>1, <2>3, <3>4, <3>5 DEF MachineStates, Keeps
    <3> HIDE DEF paid
    <3> QED BY <2>1, <2>2, <3>1, <3>6, <3>7, <3>8 DEF Pays
  <2> QED BY <2>4, <2>5
<1> QED BY <1>1, <1>2, <1>3

LEMMA PaysSound ==
    ASSUME NEW ctx, NEW vm, NEW w, IsContext(ctx), SoundRun(vm, ctx), Pays(w, vm, ctx)
    PROVE  SoundRun(w, ctx)
<1>1. PICK source \in Accounts, receiver \in Accounts, amount \in Nat :
          /\ w.balances = Moved(vm.balances, source, receiver, amount)
          /\ w.changes = Moved(vm.changes, source, receiver, amount)
          /\ vm.balances[source] >= amount
          /\ \E request : MayDebit(ctx, source, request)
  BY DEF Pays
<1>2. vm.balances \in [Accounts -> Int] /\ vm.changes \in [Accounts -> Int] /\ amount \in Int
  BY DEF SoundRun, MachineStates
<1>3. Total(w.changes) = 0
  <2>1. Total(w.changes) = Total(vm.changes)
    BY ONLY <1>1, <1>2, source \in Accounts, receiver \in Accounts, AccountsFinite, TotalOfMoved
  <2> QED BY <2>1 DEF SoundRun, MovesCoins
<1>4. ASSUME NEW a \in Accounts
      PROVE  /\ w.balances[a] = ctx.balances[a] + w.changes[a]
             /\ ctx.balances[a] >= 0 => w.balances[a] >= 0
             /\ w.changes[a] < 0 => \E request : MayDebit(ctx, a, request)
  <2> DEFINE d == Gain(a, source, receiver, amount)
  <2>1. vm.balances[a] \in Int /\ vm.changes[a] \in Int /\ ctx.balances[a] \in Int
    BY <1>2 DEF IsContext
  <2>2. /\ vm.balances[a] = ctx.balances[a] + vm.changes[a]
        /\ ctx.balances[a] >= 0 => vm.balances[a] >= 0
        /\ vm.changes[a] < 0 => \E request : MayDebit(ctx, a, request)
    BY DEF SoundRun, MovesCoins
  <2>3. d \in Int /\ d >= 0 - amount /\ (a # source => d >= 0)
    BY GainType
  <2>4. /\ w.balances[a] = vm.balances[a] + d
        /\ w.changes[a] = vm.changes[a] + d
    BY <1>1, <1>2, MovedGains
  <2> HIDE DEF d
  <2>5. CASE a = source
    BY <1>1, <2>1, <2>2, <2>3, <2>4, <2>5
  <2>6. CASE a # source
    BY <2>1, <2>2, <2>3, <2>4, <2>6
  <2> QED BY <2>5, <2>6
<1> QED BY <1>3, <1>4 DEF SoundRun, MovesCoins, Pays

\* One turn of the loop: gas is spent, and a turn that spends none is the last.
LEMMA StepEffect ==
    ASSUME NEW program, NEW ctx, NEW vm \in MachineStates, IsProgram(program), IsContext(ctx),
           Running(vm)
    PROVE  LET w == Step(program, ctx, vm)
           IN  /\ w \in MachineStates
               /\ w.gas <= vm.gas
               /\ Running(w) => w.gas < vm.gas
               /\ SoundRun(vm, ctx) => SoundRun(w, ctx)
<1> DEFINE w == Step(program, ctx, vm)
           Holds == /\ w \in MachineStates
                    /\ w.gas <= vm.gas
                    /\ Running(w) => w.gas < vm.gas
                    /\ SoundRun(vm, ctx) => SoundRun(w, ctx)
<1> SUFFICES Holds
  OBVIOUS
<1>1. vm.pc \in Nat /\ vm.gas \in Nat
  BY DEF MachineStates
<1>2. ASSUME Keeps(w, vm), ~Running(w)
      PROVE  Holds
  <2> HIDE DEF w
  <2> QED BY <1>1, <1>2, KeepsSound DEF Keeps
<1>3. CASE vm.pc >= Len(program)
  <2>1. w = Stop(vm, "succeeded")
    BY <1>3 DEF Step
  <2>2. ~Running(w)
    BY <2>1 DEF Stop, Running, MachineStates
  <2>3. Keeps(w, vm)
    BY <2>1, StopKeeps
  <2> HIDE DEF w, Holds
  <2> QED BY <1>2, <2>2, <2>3
<1>4. CASE ~(vm.pc >= Len(program))
  <2> DEFINE ins == program[vm.pc + 1]
             charged == [vm EXCEPT !.gas = @ - Cost(ins), !.pc = @ + 1]
  <2>1. Len(program) \in Nat /\ IsInstruction(ins)
    <3>1. Len(program) \in Nat
      BY DEF IsProgram
    <3>2. vm.pc + 1 \in 1 .. Len(program)
      BY <1>1, <1>4, <3>1
    <3> QED BY <3>1, <3>2 DEF IsProgram
  <2> HIDE DEF ins
  <2>2. CASE ins.op \notin DOMAIN GasCosts
    <3>1. w = Fail(vm)
      BY <1>4, <2>2 DEF Step, ins
    <3>2. ~Running(w)
      BY <3>1 DEF Fail, Stop, Running, MachineStates
    <3>3. Keeps(w, vm)
      BY <3>1, FailKeeps
    <3> HIDE DEF w, Holds
    <3> QED BY <1>2, <3>2, <3>3
  <2>3. CASE ins.op \in DOMAIN GasCosts /\ vm.gas < Cost(ins)
    <3>1. w = [vm EXCEPT !.gas = 0, !.status = "out_of_gas"]
      BY <1>4, <2>3 DEF Step, ins
    <3>2. /\ w \in MachineStates /\ ~Running(w) /\ w.gas = 0
          /\ w.balances = vm.balances /\ w.changes = vm.changes
      <4> HIDE DEF w
      <4>1. /\ w.status = "out_of_gas" /\ w.gas = 0 /\ w \in MachineStates
        BY <3>1 DEF MachineStates
      <4>2. w.balances = vm.balances /\ w.changes = vm.changes
        BY <3>1 DEF MachineStates
      <4> QED BY <4>1, <4>2 DEF Running
    <3> HIDE DEF w
    <3> QED BY <1>1, <3>2 DEF SoundRun, MovesCoins, IsContext
  <2>4. CASE ins.op \in DOMAIN GasCosts /\ ~(vm.gas < Cost(ins))
    <3>1. w = Perform(ins, ctx, charged, Len(program))
      BY <1>4, <2>4 DEF Step, ins
    <3>2. Cost(ins) \in Nat /\ (Cost(ins) = 0 => ins.op \in {"HALT", "REVERT"})
      BY <2>4, CostType
    <3>3. /\ charged \in MachineStates /\ charged.gas = vm.gas - Cost(ins)
          /\ charged.balances = vm.balances /\ charged.changes = vm.changes
      <4> DEFINE gas == vm.gas - Cost(ins)
      <4>1. gas \in Nat /\ vm.pc + 1 \in Nat
        BY <1>1, <2>4, <3>2
      <4> HIDE DEF gas
      <4>2. charged = [vm EXCEPT !.gas = gas, !.pc = vm.pc + 1]
        BY DEF gas
      <4>3. charged \in MachineStates /\ charged.gas = gas
        BY <4>1, <4>2 DEF MachineStates
      <4>4. charged.balances = vm.balances /\ charged.changes = vm.changes
        BY <4>2 DEF MachineStates
      <4> QED BY <4>3, <4>4 DEF gas
    <3> HIDE DEF charged
    <3>4. SoundRun(vm, ctx) => SoundRun(charged, ctx)
      BY <1>1, <3>2, <3>3 DEF SoundRun, MovesCoins, IsContext
    <3>5. Keeps(w, charged) \/ Pays(w, charged, ctx)
      <4>1. CASE ins.op # "TRANSFER_FROM"
        BY <2>1, <2>4, <3>1, <3>3, <4>1, PerformKeeps
      <4>2. CASE ins.op = "TRANSFER_FROM" /\ Len(ins.args) = Arity(ins.op)
        <5>1. w = TransferCoins(ins, ctx, charged)
          BY <3>1, <4>2 DEF Perform, BinaryOps
        <5> HIDE DEF w
        <5> QED BY <2>1, <3>3, <4>2, <5>1, TransferPays
      <4>3. CASE Len(ins.args) # Arity(ins.op)
        <5>1. w = Fail(charged)
          BY <3>1, <4>3 DEF Perform
        <5> QED BY <3>3, <5>1, FailKeeps
      <4> QED BY <4>1, <4>2, <4>3
    <3>6. ins.op \in {"HALT", "REVERT"} => ~Running(w)
      <4> SUFFICES ASSUME ins.op \in {"HALT", "REVERT"} PROVE w.status # "running"
        BY DEF Running
      <4>1. w \in {Fail(charged), Stop(charged, "succeeded"), Stop(charged, "reverted")}
        BY <3>1 DEF Perform, BinaryOps
      <4> HIDE DEF w
      <4> QED BY <3>3, <4>1 DEF Fail, Stop, MachineStates
    <3> HIDE DEF w
    <3>7. w \in MachineStates /\ w.gas = vm.gas - Cost(ins)
      BY <3>3, <3>5 DEF Keeps, Pays
    <3>8. SoundRun(vm, ctx) => SoundRun(w, ctx)
      BY <3>4, <3>5, KeepsSound, PaysSound
    <3> QED BY <1>1, <3>2, <3>6, <3>7, <3>8
  <2> QED BY <2>2, <2>3, <2>4
<1> QED BY <1>3, <1>4

LEMMA StartSound ==
    ASSUME NEW ctx, IsContext(ctx)
    PROVE  SoundRun(Start(ctx), ctx)
<1> DEFINE vm == Start(ctx)
           none == [a \in Accounts |-> 0]
<1>1. [k \in Keys |-> ctx.storage[k] % WordModulus] \in [Keys -> Word]
  <2>1. \A k \in Keys : ctx.storage[k] \in Int
    BY WordModulusType DEF IsContext, Word
  <2> QED BY <2>1, ReducedToWord
<1>2. [k \in Keys |-> 0] \in [Keys -> Word]
  BY WordModulusType DEF Word
<1>3. vm \in MachineStates
  <2>1. << >> \in Seq(Word)
    OBVIOUS
  <2> QED BY <1>1, <1>2, <2>1 DEF Start, MachineStates, IsContext
<1>4. vm.gas = ctx.gas_limit /\ vm.balances = ctx.balances /\ vm.changes = none
  BY DEF Start
<1>5. Total(none) = 0
  BY AccountsFinite, TotalOfNothing
<1>6. \A a \in Accounts : none[a] = 0 /\ ctx.balances[a] \in Int
  BY DEF IsContext
<1> HIDE DEF vm, none
<1>7. vm.gas <= ctx.gas_limit
  BY <1>4 DEF IsContext
<1>8. MovesCoins(vm, ctx)
  <2>1. Total(vm.changes) = 0
    BY <1>4, <1>5
  <2>2. ASSUME NEW a \in Accounts
        PROVE  /\ vm.balances[a] = ctx.balances[a] + vm.changes[a]
               /\ vm.balances[a] = ctx.balances[a]
               /\ ~(vm.changes[a] < 0)
    BY <1>4, <1>6
  <2> QED BY <2>1, <2>2 DEF MovesCoins
<1> QED BY <1>3, <1>7, <1>8 DEF SoundRun, vm

\* What a run ends in, of what it ends in after one more turn.
Ends(program, ctx, f, vm) == IF Running(vm) THEN f[Step(program, ctx, vm)] ELSE vm

\* The recursion of Run has a solution: every turn but the last spends gas.
LEMMA RunSolves ==
    ASSUME NEW program, NEW ctx, IsProgram(program), IsContext(ctx)
    PROVE  \E f : f = [vm \in MachineStates |-> Ends(program, ctx, f, vm)]
<1> DEFINE next(vm) == Step(program, ctx, vm)
           UpTo(n) == {vm \in MachineStates : vm.gas <= n}
           Solves(n, f) == \A vm \in UpTo(n) : f[vm] = Ends(program, ctx, f, vm)
<1>1. ASSUME NEW vm \in MachineStates
      PROVE  vm.gas \in Nat
  BY DEF MachineStates
<1>2. ASSUME NEW vm \in MachineStates, Running(vm)
      PROVE  /\ next(vm) \in MachineStates
             /\ next(vm).gas <= vm.gas
             /\ Running(next(vm)) => next(vm).gas < vm.gas
  BY <1>2, StepEffect
<1> HIDE DEF next
<1> DEFINE After(f, vm) == IF ~Running(vm) THEN vm
                           ELSE IF Running(next(vm)) THEN f[next(vm)] ELSE next(vm)
<1>3. ASSUME NEW n \in Nat, NEW g, n # 0 => Solves(n - 1, g)
      PROVE  Solves(n, [vm \in MachineStates |-> After(g, vm)])
  <2> DEFINE f == [vm \in MachineStates |-> After(g, vm)]
  <2>1. SUFFICES ASSUME NEW vm \in UpTo(n)
                 PROVE  f[vm] = IF Running(vm) THEN f[next(vm)] ELSE vm
    BY DEF Ends, next
  <2>2. CASE ~Running(vm)
    BY <2>2
  <2>3. CASE Running(vm) /\ ~Running(next(vm))
    BY <1>2, <2>3
  <2>4. CASE Running(vm) /\ Running(next(vm))
    <3> DEFINE v == next(vm)
    <3>1. v \in MachineStates /\ v.gas < vm.gas /\ v.gas \in Nat /\ vm.gas \in Nat
      BY <1>1, <1>2, <2>4
    <3>2. v \in UpTo(n - 1) /\ n # 0
      BY <3>1
    <3>3. f[vm] = g[v] /\ f[v] = After(g, v)
      BY <2>4, <3>1
    <3>4. g[v] = g[next(v)]
      BY <1>3, <2>4, <3>2 DEF Ends, next
    <3>5. CASE Running(next(v))
      BY <2>4, <3>3, <3>4, <3>5
    <3>6. CASE ~Running(next(v))
      <4>1. next(v) \in UpTo(n - 1)
        BY <1>1, <1>2, <2>4, <3>1, <3>2
      <4>2. g[next(v)] = next(v)
        BY <1>3, <3>2, <3>6, <4>1 DEF Ends
      <4> QED BY <2>4, <3>3, <3>4, <3>6, <4>2
    <3> QED BY <3>5, <3>6
  <2> QED BY <2>2, <2>3, <2>4
<1>4. \A n \in Nat : \E f : Solves(n, f)
  <2> DEFINE Unsolved == {n \in Nat : ~\E f : Solves(n, f)}
  <2>1. SUFFICES ASSUME Unsolved # {} PROVE FALSE
    OBVIOUS
  <2> HIDE DEF Solves, After
  <2>2. PICK n \in Unsolved : \A k \in Unsolved : n <= k
    BY <2>1, LeastNatural
  <2>3. n # 0 => \E g : Solves(n - 1, g)
    BY <2>2
  <2>4. CASE n = 0
    BY <1>3, <2>4
  <2>5. CASE n # 0
    BY <1>3, <2>3, <2>5
  <2> QED BY <2>4, <2>5
<1>5. ASSUME NEW n \in Nat, NEW m \in Nat, NEW f, NEW g, Solves(n, f), Solves(m, g),
             NEW vm \in UpTo(n), vm \in UpTo(m)
      PROVE  f[vm] = g[vm]
  <2> DEFINE Apart == {v \in UpTo(n) : v \in UpTo(m) /\ f[v] # g[v]}
             Gases == {v.gas : v \in Apart}
  <2>1. SUFFICES ASSUME f[vm] # g[vm] PROVE FALSE
    OBVIOUS
  <2>2. Gases \in SUBSET Nat /\ Gases # {}
    BY <1>1, <1>5, <2>1
  <2>3. PICK least \in Gases : \A k \in Gases : least <= k
    <3> HIDE DEF Gases
    <3> QED BY <2>2, LeastNatural
  <2>4. PICK v \in Apart : v.gas = least
    OBVIOUS
  <2>5. v.gas \in Nat /\ \A u \in Apart : u.gas >= v.gas
    BY <1>1, <2>3, <2>4
  <2>6. Running(v)
    BY <1>5, <2>4 DEF Ends
  <2>7. f[v] = f[next(v)] /\ g[v] = g[next(v)]
    BY <1>5, <2>4, <2>6 DEF Ends, next
  <2>8. next(v) \in UpTo(n) /\ next(v) \in UpTo(m)
    BY <1>1, <1>2, <2>4, <2>6
  <2>9. CASE ~Running(next(v))
    BY <1>5, <2>4, <2>7, <2>8, <2>9 DEF Ends
  <2>10. CASE Running(next(v))
    <3>1. next(v) \notin Apart
      BY <1>1, <1>2, <2>5, <2>4, <2>6, <2>8, <2>10
    <3> QED BY <2>4, <2>7, <2>8, <3>1
  <2> QED BY <2>9, <2>10
<1> DEFINE Of(n) == CHOOSE f : Solves(n, f)
           F == [vm \in MachineStates |-> Of(vm.gas)[vm]]
<1>6. \A n \in Nat : Solves(n, Of(n))
  <2> HIDE DEF Solves
  <2> QED BY <1>4
<1>7. ASSUME NEW vm \in MachineStates
      PROVE  F[vm] = Ends(program, ctx, F, vm)
  <2>1. vm \in UpTo(vm.gas) /\ vm.gas \in Nat
    BY <1>1
  <2>2. CASE ~Running(vm)
    BY <1>6, <2>1, <2>2 DEF Ends
  <2>3. CASE Running(vm)
    <3> DEFINE v == next(vm)
    <3>1. v \in MachineStates /\ v.gas <= vm.gas /\ v.gas \in Nat
      BY <1>1, <1>2, <2>3
    <3>2. v \in UpTo(vm.gas) /\ v \in UpTo(v.gas)
      BY <3>1
    <3>3. Of(vm.gas)[vm] = Of(vm.gas)[v]
      BY <1>6, <2>1, <2>3 DEF Ends, next
    <3>4. Of(vm.gas)[v] = Of(v.gas)[v]
      <4> HIDE DEF Solves, UpTo, Of, v
      <4> QED BY <1>5, <1>6, <2>1, <3>1, <3>2
    <3>5. F[vm] = F[v]
      BY <3>1, <3>3, <3>4
    <3> HIDE DEF F
    <3> QED BY <2>3, <3>5 DEF Ends, next
  <2> QED BY <2>2, <2>3
<1>8. F = [vm \in MachineStates |-> Ends(program, ctx, F, vm)]
  <2> HIDE DEF Of
  <2> DEFINE G == [vm \in MachineStates |-> Ends(program, ctx, F, vm)]
  <2>1. \A vm \in MachineStates : F[vm] = G[vm]
    <3> HIDE DEF F
    <3> QED BY <1>7
  <2> QED BY <2>1
<1> QED BY <1>8

\* A run of any program ends, and has moved coins as it may.
LEMMA RunSound ==
    ASSUME NEW program, NEW ctx, IsProgram(program), IsContext(ctx)
    PROVE  SoundRun(Run(program, ctx), ctx) /\ ~Running(Run(program, ctx))
<1> DEFINE final == CHOOSE f : f = [vm \in MachineStates |-> Ends(program, ctx, f, vm)]
<1>1. final = [vm \in MachineStates |-> Ends(program, ctx, final, vm)]
  BY RunSolves
<1>2. Run(program, ctx) = final[Start(ctx)]
  BY DEF Run, Ends
<1> HIDE DEF final
<1> DEFINE Good(vm) == SoundRun(vm, ctx) /\ ~Running(vm)
           Bad == {vm \in MachineStates : SoundRun(vm, ctx) /\ ~Good(final[vm])}
           Gases == {vm.gas : vm \in Bad}
<1>3. Bad = {}
  <2>1. SUFFICES ASSUME Bad # {} PROVE FALSE
    OBVIOUS
  <2>2. Gases \in SUBSET Nat /\ Gases # {}
    BY <2>1 DEF MachineStates
  <2>3. PICK least \in Gases : \A k \in Gases : least <= k
    <3> HIDE DEF Gases
    <3> QED BY <2>2, LeastNatural
  <2>4. PICK vm \in Bad : vm.gas = least
    OBVIOUS
  <2>5. \A u \in Bad : ~(u.gas < vm.gas)
    <3>1. \A u \in Bad : vm.gas <= u.gas /\ u.gas \in Nat /\ vm.gas \in Nat
      BY <2>2, <2>3, <2>4
    <3> QED BY <3>1
  <2>6. final[vm] = Ends(program, ctx, final, vm)
    BY <1>1, <2>4
  <2>7. Running(vm)
    BY <2>4, <2>6 DEF Ends
  <2> DEFINE w == Step(program, ctx, vm)
  <2>8. w \in MachineStates /\ (Running(w) => w.gas < vm.gas) /\ SoundRun(w, ctx)
    BY <2>4, <2>7, StepEffect
  <2> HIDE DEF w
  <2>9. final[vm] = final[w] /\ final[w] = Ends(program, ctx, final, w)
    BY <1>1, <2>6, <2>7, <2>8 DEF Ends, w
  <2>10. CASE ~Running(w)
    BY <2>4, <2>8, <2>9, <2>10 DEF Ends
  <2>11. CASE Running(w)
    <3>1. w \notin Bad
      BY <2>5, <2>8, <2>11
    <3> QED BY <2>4, <2>8, <2>9, <3>1
  <2> QED BY <2>10, <2>11
<1>4. SoundRun(Start(ctx), ctx) /\ Start(ctx) \in MachineStates
  BY StartSound DEF SoundRun
<1> QED BY <1>2, <1>3, <1>4

=============================================================================
