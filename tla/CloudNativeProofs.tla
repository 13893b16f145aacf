------------------------- MODULE CloudNativeProofs -------------------------
(***************************************************************************)
(* What peers see of the burst miner, what a shutdown keeps and what a     *)
(* stop may lose, for any number of blocks, starts and dials and any       *)
(* settings.                                                               *)
(***************************************************************************)
EXTENDS CloudNative, TLAPS, NaturalsInduction, WellFoundedInduction, FiniteSetTheorems

Blocks == 1 .. Len(mined)

BlockType == [parent : Nat, height : Nat, own : BOOLEAN, sound : BOOLEAN, pays : BOOLEAN]
ChainType == [stored : SUBSET Blocks, tip : {0} \cup Blocks, unverified : Nat,
              submitted : BOOLEAN]
EventType == {e \in [kind : {"blocks", "cancelled", "error"}, blocks : Seq(Blocks)] :
                e.kind = "blocks" => e.blocks # << >>}

\* The fields of the thread and of the task that name blocks.
WorkerOK(w) ==
    /\ DOMAIN w = {"at", "tip", "batch", "outbox", "then", "made"}
    /\ w.tip \in {0} \cup Blocks
    /\ w.batch \in Seq(Blocks)
    /\ w.outbox \in Seq(EventType)
    /\ w.at = "put" => w.outbox # << >>
    /\ w.made \subseteq Blocks
LoopOK(l) ==
    /\ DOMAIN l = {"at", "kind", "blocks", "tip", "end"}
    /\ l.blocks \in Seq(Blocks)
    /\ l.kind \in {"blocks", "rest"} => l.blocks # << >>

\* Blocks have their parents before them; wherever the node, the thread and
\* the queue name a block, it was mined.
TypeOK ==
    /\ settings \in Settings
    /\ mined \in Seq(BlockType)
    /\ \A b \in Blocks : mined[b].parent < b
    /\ chain \in ChainType
    /\ sent \subseteq Blocks
    /\ WorkerOK(worker)
    /\ queue \in Seq(EventType)
    /\ LoopOK(loop)

\* In the verification at shutdown, and after it, automine has ended.
EndsWithoutAutomine == node \in {"verifying", "stopped"} => loop.at = "off"

IInv ==
    /\ TypeOK
    /\ UncountedChainIsSound
    /\ SentBlocksAreSound
    /\ EndsWithoutAutomine
    /\ ShutdownKeepsTheChain

\* A chain whose counter tells the truth.
Counts(c) ==
    /\ c \in ChainType
    /\ c.unverified = 0 => \A b \in c.stored : mined[b].sound

----------------------------------------------------------------------------
(* Recursive functions.                                                    *)

\* A non-empty set of naturals has a least element.
LEMMA LeastNatural == \A T \in SUBSET Nat : T # {} => \E m \in T : \A k \in T : m <= k
<1>1. IsWellFoundedOn(OpToRel(<, Nat), Nat)
  BY NatLessThanWellFounded
<1>2. SUFFICES ASSUME NEW T \in SUBSET Nat, T # {}
               PROVE  \E m \in T : \A k \in T : m <= k
  OBVIOUS
<1>3. PICK m \in T : \A k \in T : ~(<<k, m>> \in OpToRel(<, Nat))
  BY <1>1, <1>2, WFMin
<1>4. \A k \in T : ~(k < m)
  BY <1>3, <1>2 DEF OpToRel
<1> QED BY <1>4, <1>2

\* The fast path over the first n blocks of a batch, from what it came to for
\* the blocks before the last of them.
NextAccepted(c, batch, f, n) ==
    IF n = 0 THEN [chain |-> c, ok |-> TRUE]
    ELSE IF f[n - 1].ok THEN FastAccepted(f[n - 1].chain, batch[n]) ELSE f[n - 1]

\* The recursion of AcceptedBatch has a solution.
LEMMA AcceptedBatchSolves ==
    ASSUME NEW c, NEW batch, Len(batch) \in Nat
    PROVE  \E f : /\ f = [n \in 0 .. Len(batch) |-> NextAccepted(c, batch, f, n)]
                  /\ AcceptedBatch(c, batch) = f[Len(batch)]
<1> DEFINE Next_(f, n) == NextAccepted(c, batch, f, n)
           Solves(m, f) == f = [n \in 0 .. m |-> Next_(f, n)]
           Unsolved == {m \in Nat : ~\E f : Solves(m, f)}
<1>1. Unsolved = {}
  <2>1. SUFFICES ASSUME Unsolved # {} PROVE FALSE
    OBVIOUS
  <2>2. PICK m \in Unsolved : \A k \in Unsolved : m <= k
    <3> HIDE DEF Unsolved
    <3>1. Unsolved \in SUBSET Nat
      BY DEF Unsolved
    <3> QED BY <2>1, <3>1, LeastNatural
  <2>3. m \in Nat
    OBVIOUS
  <2>4. m # 0
    <3> DEFINE f0 == [n \in 0 .. 0 |-> [chain |-> c, ok |-> TRUE]]
    <3>1. \A n \in 0 .. 0 : Next_(f0, n) = [chain |-> c, ok |-> TRUE]
      BY DEF NextAccepted
    <3> HIDE DEF Next_
    <3>2. Solves(0, f0)
      BY <3>1
    <3> QED BY <3>2
  <2>5. PICK g : Solves(m - 1, g)
    <3>1. m - 1 \in Nat /\ ~(m <= m - 1)
      BY <2>3, <2>4
    <3>2. m - 1 \notin Unsolved
      BY <3>1, <2>2
    <3> QED BY <3>1, <3>2
  <2> DEFINE f == [n \in 0 .. m |-> IF n = m THEN Next_(g, m) ELSE g[n]]
  <2>6. \A n \in 0 .. m : Next_(f, n) = Next_(g, n)
    <3> TAKE n \in 0 .. m
    <3>1. n # 0 => f[n - 1] = g[n - 1]
      BY <2>3
    <3> HIDE DEF f
    <3> QED BY <3>1 DEF NextAccepted
  <2>7. \A n \in 0 .. m - 1 : g[n] = Next_(g, n)
    <3> HIDE DEF Next_
    <3> QED BY <2>5
  <2>8. \A n \in 0 .. m : f[n] = Next_(f, n)
    <3> HIDE DEF Next_
    <3> QED BY <2>3, <2>6, <2>7
  <2>9. Solves(m, f)
    <3> HIDE DEF Next_
    <3> QED BY <2>8
  <2> QED BY <2>9
<1>2. PICK f : Solves(Len(batch), f)
  BY <1>1
<1> DEFINE h == CHOOSE f_1 : f_1 = [n \in 0 .. Len(batch) |-> Next_(f_1, n)]
<1>3. AcceptedBatch(c, batch) = h[Len(batch)]
  BY DEF AcceptedBatch, NextAccepted
<1>4. h = [n \in 0 .. Len(batch) |-> Next_(h, n)]
  <2> HIDE DEF Next_
  <2> QED BY <1>2
<1> QED BY <1>3, <1>4

----------------------------------------------------------------------------
(* What accepting a block, or a batch, does to the chain.                  *)

LEMMA StoredIsChain ==
    ASSUME NEW c \in ChainType, NEW b \in Blocks
    PROVE  /\ Stored(c, b) \in ChainType
           /\ Stored(c, b).stored = c.stored \cup {b}
           /\ Stored(c, b).unverified = c.unverified
BY DEF Stored, ChainType, Blocks

\* One block on the fast path: the counter tells the truth afterwards, and
\* while somebody is connected what is accepted is sound.
LEMMA FastAcceptedCounts ==
    ASSUME TypeOK, NEW c, Counts(c), NEW b \in Blocks
    PROVE  LET r == FastAccepted(c, b)
           IN  Counts(r.chain) /\ (r.ok /\ connection = "open" => mined[b].sound)
<1> DEFINE n == c.unverified + 1
           d == [Stored(c, b) EXCEPT !.unverified = n]
<1>1. c \in ChainType /\ n \in Nat /\ n # 0
  BY DEF Counts, ChainType
<1>2. d \in ChainType /\ d.unverified = n /\ d.stored = c.stored \cup {b}
  BY <1>1, StoredIsChain DEF ChainType
<1>3. [d EXCEPT !.unverified = 0] \in ChainType
  BY <1>2 DEF ChainType
<1>4. Counts(Counted(c, b).chain)
  <2>1. Counts(d)
    BY <1>1, <1>2 DEF Counts
  <2>2. VerifyChain(d) => Counts([d EXCEPT !.unverified = 0])
    BY <1>2, <1>3 DEF Counts, VerifyChain, ChainType
  <2> HIDE DEF d
  <2>3. \/ Counted(c, b).chain \in {d, c}
        \/ VerifyChain(d) /\ Counted(c, b).chain = [d EXCEPT !.unverified = 0]
    BY DEF Counted, d
  <2> QED BY <2>1, <2>2, <2>3
<1> QED BY <1>4 DEF FastAccepted, CanDeferHashCheck

LEMMA FullyAcceptedCounts ==
    ASSUME TypeOK, NEW c, Counts(c), NEW b \in Blocks
    PROVE  LET r == FullyAccepted(c, b)
           IN  Counts(r.chain) /\ (r.ok => mined[b].sound)
<1>1. mined[b].sound => Counts(Stored(c, b))
  BY StoredIsChain DEF Counts
<1> QED BY <1>1 DEF FullyAccepted

\* A batch, of which the first blocks may be accepted and the others not.
LEMMA AcceptedBatchCounts ==
    ASSUME TypeOK, NEW c, Counts(c), NEW batch \in Seq(Blocks)
    PROVE  LET r == AcceptedBatch(c, batch)
           IN  /\ Counts(r.chain)
               /\ r.ok /\ connection = "open" => \A i \in DOMAIN batch : mined[batch[i]].sound
<1>1. Len(batch) \in Nat /\ DOMAIN batch = 1 .. Len(batch)
      /\ \A i \in 1 .. Len(batch) : batch[i] \in Blocks
  OBVIOUS
<1>2. PICK f : /\ f = [n \in 0 .. Len(batch) |-> NextAccepted(c, batch, f, n)]
               /\ AcceptedBatch(c, batch) = f[Len(batch)]
  BY <1>1, AcceptedBatchSolves
<1> DEFINE Good(n) ==
        /\ Counts(f[n].chain)
        /\ f[n].ok /\ connection = "open" => \A i \in 1 .. n : mined[batch[i]].sound
           Bad == {n \in 0 .. Len(batch) : ~Good(n)}
<1>3. \A n \in 0 .. Len(batch) : f[n] = NextAccepted(c, batch, f, n)
  BY <1>2
<1>4. Bad = {}
  <2>1. SUFFICES ASSUME Bad # {} PROVE FALSE
    OBVIOUS
  <2>2. PICK n \in Bad : \A k \in Bad : n <= k
    <3> HIDE DEF Good
    <3>1. Bad \in SUBSET Nat
      BY <1>1
    <3> HIDE DEF Bad
    <3> QED BY <2>1, <3>1, LeastNatural
  <2>3. n \in 0 .. Len(batch) /\ ~Good(n)
    <3> HIDE DEF Good
    <3> QED OBVIOUS
  <2>4. n # 0
    <3>1. f[0] = [chain |-> c, ok |-> TRUE]
      <4>1. f[0] = NextAccepted(c, batch, f, 0)
        BY <1>1, <1>3
      <4> HIDE DEF Bad
      <4> QED BY <4>1 DEF NextAccepted
    <3> QED BY <2>3, <3>1
  <2>5. n - 1 \in 0 .. Len(batch) /\ ~(n <= n - 1) /\ batch[n] \in Blocks
    BY <1>1, <2>3, <2>4
  <2>6. Good(n - 1)
    <3> HIDE DEF Good
    <3> QED BY <2>2, <2>5
  <2>7. f[n] = IF f[n - 1].ok THEN FastAccepted(f[n - 1].chain, batch[n]) ELSE f[n - 1]
    BY <1>3, <2>3, <2>4 DEF NextAccepted
  <2>8. CASE ~f[n - 1].ok
    <3>1. f[n] = f[n - 1]
      BY <2>7, <2>8
    <3> QED BY <2>3, <2>6, <2>8, <3>1
  <2>9. CASE f[n - 1].ok
    <3>1. Counts(f[n].chain) /\ (f[n].ok /\ connection = "open" => mined[batch[n]].sound)
      BY <2>5, <2>6, <2>7, <2>9, FastAcceptedCounts
    <3>2. \A i \in 1 .. n : i = n \/ i \in 1 .. (n - 1)
      BY <2>3
    <3> QED BY <2>3, <2>6, <2>9, <3>1, <3>2
  <2> QED BY <2>8, <2>9
<1>5. Good(Len(batch))
  <2> HIDE DEF Good
  <2> QED BY <1>1, <1>4
<1> QED BY <1>1, <1>2, <1>5

----------------------------------------------------------------------------
(* A block that is mined leaves the chains before it as they are.          *)

\* A sequence of blocks whose parents come before them.
ParentsFirst(blocks) ==
    /\ Len(blocks) \in Nat
    /\ \A b \in 1 .. Len(blocks) : blocks[b].parent \in 0 .. (b - 1)

\* A block and, of f, what is known of its parent.
With(blocks, f, b) == IF b = 0 THEN {} ELSE {b} \cup f[blocks[b].parent]

LEMMA AncestrySolves ==
    ASSUME NEW blocks, ParentsFirst(blocks)
    PROVE  \E f : f = [b \in 0 .. Len(blocks) |-> With(blocks, f, b)]
<1> DEFINE Solves(m, f) == f = [b \in 0 .. m |-> With(blocks, f, b)]
           Unsolved == {m \in 0 .. Len(blocks) : ~\E f : Solves(m, f)}
<1>1. Unsolved = {}
  <2>1. SUFFICES ASSUME Unsolved # {} PROVE FALSE
    OBVIOUS
  <2>2. PICK m \in Unsolved : \A k \in Unsolved : m <= k
    <3>1. Unsolved \in SUBSET Nat
      BY DEF ParentsFirst
    <3> HIDE DEF Unsolved
    <3> QED BY <2>1, <3>1, LeastNatural
  <2>3. m \in 0 .. Len(blocks) /\ m \in Nat
    BY DEF ParentsFirst
  <2>4. m # 0
    <3> DEFINE f0 == [b \in 0 .. 0 |-> {}]
    <3>1. \A b \in 0 .. 0 : With(blocks, f0, b) = {}
      BY DEF With
    <3>2. Solves(0, f0)
      BY <3>1
    <3> QED BY <3>2
  <2>5. PICK g : Solves(m - 1, g)
    <3>1. m - 1 \in 0 .. Len(blocks) /\ ~(m <= m - 1)
      BY <2>3, <2>4 DEF ParentsFirst
    <3>2. m - 1 \notin Unsolved
      BY <3>1, <2>2
    <3> QED BY <3>1, <3>2
  <2> DEFINE f == [b \in 0 .. m |-> IF b = m THEN With(blocks, g, m) ELSE g[b]]
  <2>6. \A b \in 0 .. m : With(blocks, f, b) = With(blocks, g, b)
    <3> TAKE b \in 0 .. m
    <3>1. b # 0 => blocks[b].parent \in 0 .. (b - 1)
      BY <2>3 DEF ParentsFirst
    <3>2. b # 0 => f[blocks[b].parent] = g[blocks[b].parent]
      BY <2>3, <3>1
    <3> HIDE DEF f
    <3> QED BY <3>2 DEF With
  <2>7. \A b \in 0 .. m - 1 : g[b] = With(blocks, g, b)
    BY <2>5
  <2>8. \A b \in 0 .. m : f[b] = With(blocks, f, b)
    BY <2>3, <2>6, <2>7
  <2>9. Solves(m, f)
    BY <2>8
  <2> QED BY <2>9
<1>2. Len(blocks) \in 0 .. Len(blocks)
  BY DEF ParentsFirst
<1> QED BY <1>1, <1>2

\* Two histories of which one begins with the other have the same chains.
LEMMA AncestryAgrees ==
    ASSUME NEW old, ParentsFirst(old), NEW new, Len(old) <= Len(new), Len(new) \in Nat,
           \A b \in 1 .. Len(old) : new[b] = old[b],
           NEW f, f = [b \in 0 .. Len(old) |-> With(old, f, b)],
           NEW g, g = [b \in 0 .. Len(new) |-> With(new, g, b)],
           NEW a \in 0 .. Len(old)
    PROVE  f[a] = g[a]
<1> DEFINE Differ == {b \in 0 .. Len(old) : f[b] # g[b]}
<1>1. SUFFICES ASSUME Differ # {} PROVE FALSE
  OBVIOUS
<1>2. PICK b \in Differ : \A k \in Differ : b <= k
  <2>1. Differ \in SUBSET Nat
    BY DEF ParentsFirst
  <2> HIDE DEF Differ
  <2> QED BY <1>1, <2>1, LeastNatural
<1>3. b \in 0 .. Len(old) /\ b \in 0 .. Len(new) /\ f[b] # g[b]
  BY DEF ParentsFirst
<1>4. f[b] = With(old, f, b) /\ g[b] = With(new, g, b)
  BY <1>3
<1>5. b # 0 => f[old[b].parent] = g[old[b].parent]
  <2>1. b # 0 => /\ old[b].parent \in 0 .. Len(old)
                 /\ ~(b <= old[b].parent)
    BY <1>3 DEF ParentsFirst
  <2> QED BY <2>1, <1>2
<1>6. b # 0 => new[b] = old[b]
  BY <1>3 DEF ParentsFirst
<1> QED BY <1>3, <1>4, <1>5, <1>6 DEF With

LEMMA MinedParentsFirst ==
    ASSUME TypeOK
    PROVE  ParentsFirst(mined)
<1>1. Len(mined) \in Nat /\ \A b \in 1 .. Len(mined) : mined[b] \in BlockType
  BY DEF TypeOK
<1>2. \A b \in 1 .. Len(mined) : mined[b].parent \in Nat
  BY <1>1 DEF BlockType
<1>3. \A b \in 1 .. Len(mined) : mined[b].parent < b
  BY DEF TypeOK, Blocks
<1> QED BY <1>1, <1>2, <1>3 DEF ParentsFirst

\* The chain up to a block is the same after another block was mined.
LEMMA AncestryStays ==
    ASSUME TypeOK, TypeOK', Len(mined) <= Len(mined'),
           \A b \in Blocks : mined'[b] = mined[b],
           NEW a \in {0} \cup Blocks
    PROVE  Ancestry'[a] = Ancestry[a]
<1>1. ParentsFirst(mined) /\ ParentsFirst(mined')
  <2>1. ParentsFirst(mined)
    BY MinedParentsFirst
  <2>2. Len(mined') \in Nat /\ \A b \in 1 .. Len(mined') : mined'[b] \in BlockType
    BY DEF TypeOK
  <2>3. \A b \in 1 .. Len(mined') : mined'[b].parent \in Nat
    BY <2>2 DEF BlockType
  <2>4. \A b \in 1 .. Len(mined') : mined'[b].parent < b
    BY DEF TypeOK, Blocks
  <2>5. ParentsFirst(mined')
    BY <2>2, <2>3, <2>4 DEF ParentsFirst
  <2> QED BY <2>1, <2>5
<1> DEFINE Old == CHOOSE f : f = [b \in 0 .. Len(mined) |-> With(mined, f, b)]
           New == CHOOSE f : f = [b \in 0 .. Len(mined') |-> With(mined', f, b)]
<1>2. Ancestry = Old /\ Ancestry' = New
  BY DEF Ancestry, With
<1>3. Old = [b \in 0 .. Len(mined) |-> With(mined, Old, b)]
  BY <1>1, AncestrySolves
<1>4. New = [b \in 0 .. Len(mined') |-> With(mined', New, b)]
  BY <1>1, AncestrySolves
<1>5. a \in 0 .. Len(mined) /\ Len(mined') \in Nat
  BY <1>1 DEF Blocks, ParentsFirst
<1>6. \A b \in 1 .. Len(mined) : mined'[b] = mined[b]
  BY DEF Blocks
<1> HIDE DEF Old, New
<1>7. Old[a] = New[a]
  BY <1>1, <1>3, <1>4, <1>5, <1>6, AncestryAgrees
<1> QED BY <1>2, <1>7

----------------------------------------------------------------------------
(* Types.                                                                  *)

\* The part of TypeOK about the blocks and the chain, and the others.
HistoryOK ==
    /\ settings \in Settings
    /\ mined \in Seq(BlockType)
    /\ \A b \in Blocks : mined[b].parent < b

LEMMA TypesOfParts == TypeOK <=> /\ HistoryOK
                                 /\ chain \in ChainType
                                 /\ sent \subseteq Blocks
                                 /\ WorkerOK(worker)
                                 /\ queue \in Seq(EventType)
                                 /\ LoopOK(loop)
BY DEF TypeOK, HistoryOK

\* While no block is mined the types stay what they are.
LEMMA TypesStay ==
    ASSUME mined' = mined
    PROVE  /\ Blocks' = Blocks
           /\ ChainType' = ChainType
           /\ EventType' = EventType
           /\ WorkerOK(worker)' <=> WorkerOK(worker')
           /\ LoopOK(loop)' <=> LoopOK(loop')
BY DEF Blocks, ChainType, EventType, WorkerOK, LoopOK

\* A sequence over a set is one over a larger set.
LEMMA SeqGrows ==
    ASSUME NEW S, NEW T, S \subseteq T, NEW s \in Seq(S)
    PROVE  s \in Seq(T)
<1>1. Len(s) \in Nat /\ s = [i \in 1 .. Len(s) |-> s[i]] /\ \A i \in 1 .. Len(s) : s[i] \in T
  OBVIOUS
<1> QED BY <1>1

\* When one is, they grow.
LEMMA TypesGrow ==
    ASSUME Len(mined) \in Nat, Len(mined') \in Nat, Len(mined) <= Len(mined')
    PROVE  /\ Blocks \subseteq Blocks'
           /\ ChainType \subseteq ChainType'
           /\ EventType \subseteq EventType'
           /\ Seq(EventType) \subseteq Seq(EventType')
           /\ \A w : WorkerOK(w) => WorkerOK(w)'
           /\ \A l : LoopOK(l) => LoopOK(l)'
<1>1. Blocks \subseteq Blocks'
  BY DEF Blocks
<1>2. Seq(Blocks) \subseteq Seq(Blocks')
  BY <1>1, SeqGrows
<1>3. EventType \subseteq EventType'
  BY <1>2 DEF EventType
<1>4. Seq(EventType) \subseteq Seq(EventType')
  BY <1>3, SeqGrows
<1>5. ChainType \subseteq ChainType'
  BY <1>1 DEF ChainType
<1> HIDE DEF Blocks, EventType
<1>6. \A l : LoopOK(l) => LoopOK(l)'
  BY <1>2 DEF LoopOK
<1>7. \A w : WorkerOK(w) => WorkerOK(w)'
  BY <1>1, <1>2, <1>4 DEF WorkerOK
<1> QED BY <1>1, <1>3, <1>4, <1>5, <1>6, <1>7

\* The task when it ends or goes to wait.
LEMMA OffLoopTyped ==
    /\ LoopOK(OffLoop)
    /\ \A at : LoopOK([OffLoop EXCEPT !.at = at])
    /\ \A at, tip : LoopOK([OffLoop EXCEPT !.at = at, !.tip = tip])
    /\ \A end : LoopOK([OffLoop EXCEPT !.end = end])
    /\ \A at, tip, end : LoopOK([OffLoop EXCEPT !.at = at, !.tip = tip, !.end = end])
BY DEF OffLoop, LoopOK

LEMMA NewWorkerTyped ==
    ASSUME NEW tip \in {0} \cup Blocks
    PROVE  WorkerOK(NewWorker(tip))
BY DEF NewWorker, WorkerOK

LEMMA NoWorkerTyped == WorkerOK(NoWorker)
BY DEF NewWorker, NoWorker, WorkerOK

LEMMA InitTyped ==
    ASSUME Init
    PROVE  TypeOK
<1>1. mined = << >> /\ Len(mined) = 0
  BY DEF Init
<1>2. HistoryOK
  BY <1>1 DEF Init, HistoryOK, Blocks
<1>3. chain \in ChainType
  BY DEF Init, InitialChain, ChainType
<1>4. WorkerOK(worker) /\ queue \in Seq(EventType)
  BY NoWorkerTyped DEF Init
<1>5. LoopOK(loop)
  BY OffLoopTyped DEF Init
<1>6. sent \subseteq Blocks
  BY DEF Init
<1> QED BY <1>2, <1>3, <1>4, <1>5, <1>6, TypesOfParts

----------------------------------------------------------------------------
(* Steps that leave the chain, the file and the blocks of peers alone.     *)

LEMMA InitIInv ==
    ASSUME Init
    PROVE  IInv
<1>1. TypeOK
  BY InitTyped
<1> QED BY <1>1 DEF Init, InitialChain, IInv, UncountedChainIsSound, SentBlocksAreSound,
                    EndsWithoutAutomine, ShutdownKeepsTheChain

LEMMA TypedIf ==
    ASSUME TypeOK, UNCHANGED <<settings, mined>>, chain' \in ChainType, sent' \subseteq Blocks,
           WorkerOK(worker'), queue' \in Seq(EventType), LoopOK(loop')
    PROVE  TypeOK'
<1>1. HistoryOK'
  BY TypesOfParts DEF HistoryOK, Blocks
<1> QED BY <1>1, TypesStay DEF TypeOK, HistoryOK

\* Automine does not run again once the verification at shutdown has begun.
MayRun == node = "up" \/ loop.at # "off" \/ loop' = loop

LEMMA KeepsIf ==
    ASSUME IInv, UNCHANGED <<settings, mined, chain, saved, sent, node>>, MayRun,
           WorkerOK(worker'), queue' \in Seq(EventType), LoopOK(loop')
    PROVE  IInv'
<1>1. TypeOK'
  <2>1. chain' \in ChainType /\ sent' \subseteq Blocks
    BY DEF IInv, TypeOK
  <2> QED BY <2>1, TypedIf DEF IInv
<1>2. UncountedChainIsSound' /\ SentBlocksAreSound'
  BY DEF IInv, UncountedChainIsSound, SentBlocksAreSound
<1>3. EndsWithoutAutomine'
  BY DEF IInv, EndsWithoutAutomine, MayRun
<1>4. ShutdownKeepsTheChain'
  BY DEF IInv, ShutdownKeepsTheChain, MainChain, Ancestry
<1> QED BY <1>1, <1>2, <1>3, <1>4 DEF IInv

\* What every state has.
LEMMA Typed ==
    ASSUME IInv
    PROVE  /\ TypeOK
           /\ Len(mined) \in Nat
           /\ chain \in ChainType
           /\ chain.tip \in {0} \cup Blocks
           /\ WorkerOK(worker)
           /\ queue \in Seq(EventType)
           /\ LoopOK(loop)
BY DEF IInv, TypeOK, ChainType

\* The handlers that only change flags, connections and bounds.
LEMMA FlagsKeep ==
    ASSUME IInv, UNCHANGED <<settings, mined, chain, saved, sent, node, loop, threadVars>>
    PROVE  IInv'
BY Typed, KeepsIf DEF threadVars, MayRun

LEMMA StopAutomineKeeps ==
    ASSUME IInv, StopAutomine \/ DialEnds \/ PeerDials \/ Disconnected
    PROVE  IInv'
<1>1. CASE StopAutomine
  BY <1>1, FlagsKeep DEF StopAutomine, fileVars, netVars, nodeVars
<1>2. CASE DialEnds \/ PeerDials \/ Disconnected
  BY <1>2, FlagsKeep DEF DialEnds, PeerDials, Disconnected, SetConnection, fileVars, nodeVars
<1> QED BY <1>1, <1>2

LEMMA StartAutomineKeeps ==
    ASSUME IInv, StartAutomine
    PROVE  IInv'
<1>1. LoopOK(loop')
  BY OffLoopTyped DEF StartAutomine
<1> QED BY <1>1, Typed, KeepsIf DEF StartAutomine, MayRun, fileVars, netVars, threadVars

\* The task: everything but AcceptBlocks.
LEMMA FinishKeeps ==
    ASSUME IInv, Finish, loop.at # "off",
           UNCHANGED <<settings, mined, chain, saved, sent, node>>
    PROVE  IInv'
<1>1. LoopOK(loop')
  BY OffLoopTyped DEF Finish
<1> QED BY <1>1, Typed, KeepsIf DEF Finish, MayRun, threadVars

LEMMA LoopHeadKeeps ==
    ASSUME IInv, LoopHead
    PROVE  IInv'
<1>1. CASE stop
  <2>1. Finish
    BY <1>1 DEF LoopHead, BeginRun
  <2> QED BY <2>1, FinishKeeps DEF LoopHead, fileVars, netVars, nodeVars
<1>2. CASE ~stop
  <2>1. WorkerOK(worker') /\ queue' = << >> /\ LoopOK(loop')
    <3>1. worker' = NewWorker(chain.tip) /\ queue' = << >>
          /\ loop' = [OffLoop EXCEPT !.at = "test", !.tip = chain.tip]
      BY <1>2 DEF LoopHead, BeginRun
    <3>2. WorkerOK(NewWorker(chain.tip))
      BY Typed, NewWorkerTyped
    <3> QED BY <3>1, <3>2, OffLoopTyped
  <2>2. queue' \in Seq(EventType)
    BY <2>1
  <2> QED BY <2>1, <2>2, KeepsIf DEF LoopHead, MayRun, fileVars, netVars, nodeVars
<1> QED BY <1>1, <1>2

LEMMA LeaveKeeps ==
    ASSUME IInv, NEW end, Leave(end, loop.tip), loop.at # "off",
           UNCHANGED <<settings, mined, chain, saved, sent, node>>
    PROVE  IInv'
<1>1. LoopOK(loop')
  BY OffLoopTyped DEF Leave
<1> QED BY <1>1, Typed, KeepsIf DEF Leave, MayRun, threadVars

\* A step of the task that keeps the blocks it handles.
LEMMA LoopKeeps ==
    ASSUME IInv, loop.at # "off", NEW at, loop' = [loop EXCEPT !.at = at],
           UNCHANGED <<settings, mined, chain, saved, sent, node, threadVars>>
    PROVE  IInv'
<1>1. LoopOK(loop')
  BY Typed DEF LoopOK
<1> QED BY <1>1, Typed, KeepsIf DEF MayRun, threadVars

LEMMA TestLoopKeeps ==
    ASSUME IInv, TestLoop
    PROVE  IInv'
<1>1. CASE EventsExpected
  BY <1>1, LoopKeeps DEF TestLoop, fileVars, netVars, nodeVars
<1>2. CASE ~EventsExpected
  BY <1>2, LeaveKeeps DEF TestLoop, fileVars, netVars, nodeVars
<1> QED BY <1>1, <1>2

LEMMA GetKeeps ==
    ASSUME IInv, GetEvent \/ GetTimesOut
    PROVE  IInv'
<1>1. CASE GetTimesOut
  BY <1>1, LoopKeeps DEF GetTimesOut, fileVars, netVars, nodeVars
<1>2. CASE GetEvent
  <2>1. Head(queue) \in EventType /\ Tail(queue) \in Seq(EventType)
    BY <1>2, Typed DEF GetEvent
  <2>2. /\ Head(queue).blocks \in Seq(Blocks)
        /\ Head(queue).kind \in {"blocks", "rest"} => Head(queue).blocks # << >>
    <3> HIDE DEF Blocks
    <3> QED BY <2>1 DEF EventType
  <2>3. LoopOK(loop')
    BY <1>2, <2>2, Typed DEF GetEvent, LoopOK
  <2> QED BY <1>2, <2>1, <2>3, Typed, KeepsIf
          DEF GetEvent, MayRun, fileVars, netVars, nodeVars
<1> QED BY <1>1, <1>2

LEMMA HandleEndKeeps ==
    ASSUME IInv, HandleEnd
    PROVE  IInv'
<1>1. PICK end : Leave(end, loop.tip)
  BY DEF HandleEnd
<1> QED BY <1>1, LeaveKeeps DEF HandleEnd, fileVars, netVars, nodeVars

LEMMA JoinedKeeps ==
    ASSUME IInv, Joined
    PROVE  IInv'
<1>1. CASE loop' = [loop EXCEPT !.at = "loop"] /\ UNCHANGED threadVars
  BY <1>1, LoopKeeps DEF Joined, fileVars, netVars, nodeVars
<1>2. CASE Finish
  BY <1>2, FinishKeeps DEF Joined, fileVars, netVars, nodeVars
<1> QED BY <1>1, <1>2 DEF Joined

----------------------------------------------------------------------------
(* The task takes blocks in.                                               *)

LEMMA AcceptedOneCounts ==
    ASSUME TypeOK, NEW c, Counts(c), NEW b \in Blocks
    PROVE  LET r == AcceptedOne(c, b)
           IN  Counts(r.chain) /\ (r.ok /\ connection = "open" => mined[b].sound)
BY FastAcceptedCounts, FullyAcceptedCounts DEF AcceptedOne

\* What is accepted together is some blocks of the event, the rest the others.
LEMMA TogetherSplits ==
    ASSUME IInv, loop.kind \in {"blocks", "rest"}, NEW n, n = Together
    PROVE  /\ SubSeq(loop.blocks, 1, n) \in Seq(Blocks)
           /\ SubSeq(loop.blocks, n + 1, Len(loop.blocks)) \in Seq(Blocks)
<1>1. loop.blocks \in Seq(Blocks) /\ Len(loop.blocks) \in Nat /\ Len(loop.blocks) # 0
  <2>1. loop.blocks \in Seq(Blocks) /\ loop.blocks # << >>
    BY Typed DEF LoopOK
  <2> HIDE DEF Blocks
  <2> QED BY <2>1
<1>2. n \in 1 .. Len(loop.blocks)
  BY <1>1 DEF Together
<1> QED BY <1>1, <1>2

\* Accepted or not, the counter tells the truth, and what is sent is sound.
LEMMA AcceptCounts ==
    ASSUME IInv, NEW blocks \in Seq(Blocks), NEW r,
           r = IF Len(blocks) = 1 THEN AcceptedOne(chain, Head(blocks))
               ELSE AcceptedBatch(chain, blocks)
    PROVE  /\ Counts(r.chain)
           /\ r.ok /\ connection = "open" => \A i \in DOMAIN blocks : mined[blocks[i]].sound
<1>1. TypeOK /\ Counts(chain)
  BY DEF IInv, TypeOK, UncountedChainIsSound, Counts
<1>2. CASE Len(blocks) = 1
  <2>1. Head(blocks) \in Blocks /\ \A i \in DOMAIN blocks : blocks[i] = Head(blocks)
    <3> HIDE DEF Blocks
    <3> QED BY <1>2
  <2> QED BY <1>1, <1>2, <2>1, AcceptedOneCounts
<1>3. CASE Len(blocks) # 1
  BY <1>1, <1>3, AcceptedBatchCounts
<1> QED BY <1>2, <1>3

LEMMA AcceptKeeps ==
    ASSUME IInv, loop.at = "handle", NEW blocks \in Seq(Blocks), NEW rest \in Seq(Blocks),
           Accept(blocks, rest), UNCHANGED <<settings, mined, connection, node>>
    PROVE  IInv'
<1>1. CASE mined[Head(blocks)].parent # chain.tip
  BY <1>1, LeaveKeeps DEF Accept, fileVars
<1>2. CASE mined[Head(blocks)].parent = chain.tip
  <2>1. PICK r : /\ r = IF Len(blocks) = 1 THEN AcceptedOne(chain, Head(blocks))
                        ELSE AcceptedBatch(chain, blocks)
                 /\ chain' = r.chain
                 /\ IF r.ok
                    THEN Recorded(blocks, r.chain) /\ GoOn(rest, Last(blocks))
                    ELSE UNCHANGED <<fileVars, sent>> /\ Leave("error", loop.tip)
    BY <1>2 DEF Accept
  <2>2. /\ Counts(chain')
        /\ r.ok /\ connection = "open" => \A i \in DOMAIN blocks : mined[blocks[i]].sound
    BY <2>1, AcceptCounts
  <2>3. sent' \subseteq Blocks /\ \A b \in sent' : mined[b].sound
    <3>1. sent \subseteq Blocks /\ \A b \in sent : mined[b].sound
      BY DEF IInv, TypeOK, SentBlocksAreSound
    <3>2. \A i \in DOMAIN blocks : blocks[i] \in Blocks
      OBVIOUS
    <3>3. ToSet(blocks) = {blocks[i] : i \in DOMAIN blocks}
      BY DEF ToSet
    <3>4. CASE r.ok /\ connection = "open"
      BY <2>1, <2>2, <3>1, <3>2, <3>3, <3>4 DEF Recorded
    <3>5. CASE ~(r.ok /\ connection = "open")
      BY <2>1, <3>1, <3>5 DEF Recorded
    <3> QED BY <3>4, <3>5
  <2>4. LoopOK(loop') /\ worker' = worker /\ queue' = queue
    <3>1. CASE r.ok
      <4>1. LoopOK([loop EXCEPT !.kind = "rest", !.blocks = rest, !.tip = Last(blocks)])
               \/ rest = << >>
        BY Typed DEF LoopOK
      <4>2. GoOn(rest, Last(blocks))
        BY <2>1, <3>1
      <4> QED BY <4>1, <4>2, OffLoopTyped DEF GoOn, threadVars
    <3>2. CASE ~r.ok
      <4>1. Leave("error", loop.tip)
        BY <2>1, <3>2
      <4> QED BY <4>1, OffLoopTyped DEF Leave, threadVars
    <3> QED BY <3>1, <3>2
  <2>5. TypeOK'
    BY <2>2, <2>3, <2>4, Typed, TypedIf DEF Counts
  <2>6. UncountedChainIsSound' /\ SentBlocksAreSound'
    BY <2>2, <2>3 DEF Counts, UncountedChainIsSound, SentBlocksAreSound
  <2>7. node \notin {"verifying", "stopped"}
    BY DEF IInv, EndsWithoutAutomine
  <2>8. EndsWithoutAutomine' /\ ShutdownKeepsTheChain'
    BY <2>7 DEF EndsWithoutAutomine, ShutdownKeepsTheChain
  <2> QED BY <2>5, <2>6, <2>8 DEF IInv
<1> QED BY <1>1, <1>2

LEMMA AcceptBlocksKeeps ==
    ASSUME IInv, AcceptBlocks
    PROVE  IInv'
<1>1. Accept(SubSeq(loop.blocks, 1, Together),
             SubSeq(loop.blocks, Together + 1, Len(loop.blocks)))
  BY DEF AcceptBlocks
<1>2. /\ SubSeq(loop.blocks, 1, Together) \in Seq(Blocks)
      /\ SubSeq(loop.blocks, Together + 1, Len(loop.blocks)) \in Seq(Blocks)
  BY TogetherSplits DEF AcceptBlocks
<1> QED BY <1>1, <1>2, AcceptKeeps DEF AcceptBlocks, nodeVars

----------------------------------------------------------------------------
(* The thread.                                                             *)

\* A step that mines nothing.
LEMMA ThreadKeeps ==
    ASSUME IInv, mined' = mined, NEW w, NEW q, ThreadOnly(w, q),
           WorkerOK(w), q \in Seq(EventType)
    PROVE  IInv'
BY Typed, KeepsIf DEF ThreadOnly, MayRun, fileVars, netVars, nodeVars

\* The changes a step makes to the thread.
LEMMA WorkerChanges ==
    ASSUME NEW w, WorkerOK(w)
    PROVE  /\ WorkerOK(Done(w))
           /\ WorkerOK([w EXCEPT !.at = "search"])
           /\ \A outbox \in Seq(EventType) :
                 /\ WorkerOK([w EXCEPT !.outbox = outbox, !.at = "head"])
                 /\ outbox # << >> =>
                       /\ WorkerOK([w EXCEPT !.outbox = outbox])
                       /\ \A then : WorkerOK([w EXCEPT !.at = "put", !.then = then,
                                                       !.outbox = outbox])
<1>1. WorkerOK(Done(w))
  BY DEF Done, NoWorker, NewWorker, WorkerOK
<1> QED BY <1>1 DEF WorkerOK

LEMMA EventTyped ==
    ASSUME NEW kind \in {"blocks", "cancelled", "error"}, NEW batch \in Seq(Blocks),
           kind = "blocks" => batch # << >>
    PROVE  Event(kind, batch) \in EventType
BY DEF Event, EventType

LEMMA BatchOutTyped ==
    ASSUME IInv
    PROVE  BatchOut \in Seq(EventType)
<1>1. worker.batch \in Seq(Blocks)
  BY Typed DEF WorkerOK
<1>2. worker.batch # << >> => Event("blocks", worker.batch) \in EventType
  BY <1>1, EventTyped
<1> HIDE DEF EventType
<1> QED BY <1>2 DEF BatchOut

LEMMA NextSearchKeeps ==
    ASSUME IInv, NextSearch
    PROVE  IInv'
BY Typed, WorkerChanges, ThreadKeeps DEF NextSearch

LEMMA SearchEndsKeeps ==
    ASSUME IInv, SearchCancelled \/ SearchFails
    PROVE  IInv'
<1>1. << >> \in Seq(Blocks)
  OBVIOUS
<1>2. Event("cancelled", << >>) \in EventType /\ Event("error", << >>) \in EventType
  BY <1>1, EventTyped
<1>3. /\ BatchOut \o <<Event("cancelled", << >>)>> \in Seq(EventType)
      /\ BatchOut \o <<Event("error", << >>)>> \in Seq(EventType)
      /\ BatchOut \o <<Event("cancelled", << >>)>> # << >>
      /\ BatchOut \o <<Event("error", << >>)>> # << >>
      /\ queue \o BatchOut \in Seq(EventType)
  <2> HIDE DEF EventType
  <2> QED BY <1>2, BatchOutTyped, Typed
<1> DEFINE Ends(last) == [worker EXCEPT !.at = "put", !.then = "done",
                                       !.outbox = BatchOut \o <<Event(last, << >>)>>]
<1>4. WorkerOK(Ends("cancelled")) /\ WorkerOK(Ends("error")) /\ WorkerOK(Done(worker))
  BY <1>3, Typed, WorkerChanges
<1>5. PICK w, q : /\ mined' = mined /\ ThreadOnly(w, q)
                  /\ w \in {Ends("cancelled"), Ends("error"), Done(worker)}
                  /\ q \in {queue, queue \o BatchOut}
  BY DEF SearchCancelled, SearchFails
<1> HIDE DEF Ends
<1>6. WorkerOK(w) /\ q \in Seq(EventType)
  BY <1>3, <1>4, <1>5, Typed
<1> QED BY <1>5, <1>6, ThreadKeeps

LEMMA PutKeeps ==
    ASSUME IInv, PutEvent \/ PutGivesUp
    PROVE  IInv'
<1>1. CASE PutGivesUp
  BY <1>1, Typed, WorkerChanges, ThreadKeeps DEF PutGivesUp
<1>2. CASE PutEvent
  <2>1. worker.outbox \in Seq(EventType) /\ worker.outbox # << >>
    BY <1>2, Typed DEF PutEvent, WorkerOK
  <2>2. Tail(worker.outbox) \in Seq(EventType) /\ Head(worker.outbox) \in EventType
    <3> HIDE DEF EventType
    <3> QED BY <2>1
  <2>3. Append(queue, Head(worker.outbox)) \in Seq(EventType)
    <3> HIDE DEF EventType
    <3> QED BY <2>2, Typed
  <2>4. PICK w : ThreadOnly(w, Append(queue, Head(worker.outbox))) /\ WorkerOK(w)
    BY <1>2, <2>2, Typed, WorkerChanges DEF PutEvent
  <2>5. mined' = mined
    BY <1>2 DEF PutEvent
  <2> QED BY <2>3, <2>4, <2>5, ThreadKeeps
<1> QED BY <1>1, <1>2

----------------------------------------------------------------------------
(* A block is mined.                                                       *)

\* What is true of the blocks before stays true.
LEMMA MinedKeeps ==
    ASSUME TypeOK, NEW x \in BlockType, x.parent <= Len(mined), mined' = Append(mined, x),
           UNCHANGED settings
    PROVE  /\ HistoryOK'
           /\ Len(mined') = Len(mined) + 1 /\ Len(mined) \in Nat
           /\ Blocks' = Blocks \cup {Len(mined) + 1}
           /\ \A b \in Blocks : mined'[b] = mined[b]
           /\ mined'[Len(mined) + 1] = x
<1>1. mined \in Seq(BlockType) /\ Len(mined) \in Nat
  BY DEF TypeOK
<1>2. /\ mined' \in Seq(BlockType)
      /\ Len(mined') = Len(mined) + 1
      /\ \A b \in 1 .. Len(mined) : mined'[b] = mined[b]
      /\ mined'[Len(mined) + 1] = x
  <2> HIDE DEF BlockType
  <2> QED BY <1>1
<1>3. Blocks' = Blocks \cup {Len(mined) + 1}
  BY <1>1, <1>2 DEF Blocks
<1>4. \A b \in Blocks' : mined'[b].parent < b
  <2>1. \A b \in Blocks : mined'[b].parent < b
    BY <1>2 DEF TypeOK, Blocks
  <2>2. x.parent \in Nat /\ mined'[Len(mined) + 1].parent < Len(mined) + 1
    BY <1>1, <1>2 DEF BlockType
  <2> QED BY <1>3, <2>1, <2>2
<1> QED BY <1>1, <1>2, <1>3, <1>4 DEF HistoryOK, TypeOK, Blocks

LEMMA HeightTyped ==
    ASSUME TypeOK, NEW b \in {0} \cup Blocks
    PROVE  HeightOf(b) \in Nat
<1>1. \A k \in 1 .. Len(mined) : mined[k] \in BlockType
  BY DEF TypeOK
<1> QED BY <1>1 DEF HeightOf, Blocks, BlockType

\* The worker's block.
LEMMA FindTyped ==
    ASSUME IInv, NEW sound \in BOOLEAN, FindBlock(sound)
    PROVE  TypeOK' /\ Len(mined) <= Len(mined') /\ \A b \in Blocks : mined'[b] = mined[b]
<1> DEFINE x == [parent |-> worker.tip, height |-> HeightOf(worker.tip) + 1,
                 own |-> TRUE, sound |-> sound, pays |-> FALSE]
           n == Len(mined) + 1
           found == [worker EXCEPT !.tip = n, !.batch = Append(@, n), !.made = @ \cup {n}]
           out == Event("blocks", found.batch)
<1>1. /\ worker.tip \in {0} \cup Blocks /\ worker.batch \in Seq(Blocks)
      /\ worker.made \subseteq Blocks /\ worker.outbox \in Seq(EventType)
      /\ DOMAIN worker = {"at", "tip", "batch", "outbox", "then", "made"}
      /\ worker.at = "search"
  BY Typed DEF WorkerOK, FindBlock
<1>2. x \in BlockType /\ x.parent <= Len(mined)
  <2>1. HeightOf(worker.tip) \in Nat /\ worker.tip \in Nat /\ worker.tip <= Len(mined)
    BY <1>1, Typed, HeightTyped DEF Blocks
  <2> QED BY <2>1 DEF BlockType
<1>3. mined' = Append(mined, x) /\ UNCHANGED settings
  BY DEF FindBlock, ThreadOnly
<1> HIDE DEF x
<1>4. /\ HistoryOK' /\ Len(mined') = n /\ n \in Nat /\ Len(mined) <= Len(mined')
      /\ Blocks' = Blocks \cup {n}
      /\ \A b \in Blocks : mined'[b] = mined[b]
  <2>1. TypeOK
    BY Typed
  <2>2. /\ HistoryOK' /\ Len(mined') = Len(mined) + 1 /\ Len(mined) \in Nat
        /\ Blocks' = Blocks \cup {Len(mined) + 1}
        /\ \A b \in Blocks : mined'[b] = mined[b]
    BY <1>2, <1>3, <2>1, MinedKeeps
  <2> QED BY <2>2
<1>5. /\ Blocks \subseteq Blocks' /\ ChainType \subseteq ChainType'
      /\ Seq(EventType) \subseteq Seq(EventType')
      /\ \A l : LoopOK(l) => LoopOK(l)'
  BY <1>4, Typed, TypesGrow
<1>6. /\ Append(worker.batch, n) \in Seq(Blocks')
      /\ Append(worker.batch, n) # << >>
      /\ << >> \in Seq(Blocks')
  <2> HIDE DEF n, Blocks
  <2>1. worker.batch \in Seq(Blocks')
    BY <1>1, <1>5, SeqGrows
  <2> QED BY <2>1, <1>4
<1>7. found.batch = Append(worker.batch, n)
  BY <1>1
<1>8. out \in EventType'
  BY <1>6, <1>7 DEF Event, EventType
<1>9. /\ queue \in Seq(EventType')
      /\ Append(queue, out) \in Seq(EventType')
      /\ <<out>> \in Seq(EventType') /\ <<out>> # << >>
  <2> HIDE DEF out, EventType
  <2> QED BY <1>5, <1>8, Typed
<1>10. worker.outbox \in Seq(EventType') /\ worker.made \cup {n} \subseteq Blocks'
  BY <1>1, <1>4, <1>5
<1> DEFINE put == [found EXCEPT !.at = "put", !.outbox = <<out>>, !.batch = << >>,
                               !.then = "head"]
           head == [found EXCEPT !.at = "head"]
<1>11. \A w \in {Done(found), head, put} : WorkerOK(w)'
  <2>1. /\ DOMAIN found = {"at", "tip", "batch", "outbox", "then", "made"}
        /\ found.tip = n /\ found.batch = Append(worker.batch, n)
        /\ found.outbox = worker.outbox /\ found.made = worker.made \cup {n}
    BY <1>1
  <2> HIDE DEF found, out
  <2>2. \A w \in {head} : WorkerOK(w)'
    BY <2>1, <1>4, <1>6, <1>10 DEF WorkerOK
  <2>3. \A w \in {put} : WorkerOK(w)'
    BY <2>1, <1>4, <1>6, <1>9, <1>10 DEF WorkerOK
  <2>4. \A w \in {Done(found)} : WorkerOK(w)'
    <3>1. /\ DOMAIN Done(found) = {"at", "tip", "batch", "outbox", "then", "made"}
          /\ Done(found).tip = 0 /\ Done(found).batch = << >> /\ Done(found).outbox = << >>
          /\ Done(found).at = "done" /\ Done(found).made = worker.made \cup {n}
      BY <2>1 DEF Done, NoWorker, NewWorker
    <3>2. << >> \in Seq(EventType') /\ << >> \in Seq(Blocks')
      OBVIOUS
    <3> HIDE DEF n
    <3> QED BY <3>1, <3>2, <1>10 DEF WorkerOK
  <2> QED BY <2>2, <2>3, <2>4
<1>12. /\ worker' \in {Done(found), head, put}
       /\ queue' \in {queue, Append(queue, out)}
       /\ UNCHANGED <<chain, sent, loop>>
  BY DEF FindBlock, ThreadOnly, netVars
<1> HIDE DEF found, out, put, head
<1>13. WorkerOK(worker)' /\ queue' \in Seq(EventType')
  <2>1. WorkerOK(worker)'
    BY <1>11, <1>12 DEF WorkerOK
  <2> QED BY <2>1, <1>9, <1>12
<1>14. (chain \in ChainType)' /\ (sent \subseteq Blocks)' /\ LoopOK(loop)'
  BY <1>5, <1>12, Typed DEF IInv, TypeOK
<1> QED BY <1>4, <1>13, <1>14 DEF TypeOK, HistoryOK

LEMMA FindKeeps ==
    ASSUME IInv, Find
    PROVE  IInv'
<1>1. PICK sound \in BOOLEAN : FindBlock(sound)
  BY DEF Find
<1>2. TypeOK' /\ Len(mined) <= Len(mined') /\ \A b \in Blocks : mined'[b] = mined[b]
  BY <1>1, FindTyped
<1>3. UNCHANGED <<chain, saved, sent, loop, node>>
  BY <1>1 DEF FindBlock, ThreadOnly, fileVars, netVars, nodeVars
<1>4. UncountedChainIsSound' /\ SentBlocksAreSound'
  <2>1. chain.stored \subseteq Blocks /\ sent \subseteq Blocks
    BY DEF IInv, TypeOK, ChainType
  <2> QED BY <2>1, <1>2, <1>3 DEF IInv, UncountedChainIsSound, SentBlocksAreSound
<1>5. MainChain(chain)' = MainChain(chain)
  <2>1. Ancestry'[chain.tip] = Ancestry[chain.tip]
    BY <1>2, Typed, AncestryStays
  <2> QED BY <2>1, <1>3 DEF MainChain
<1>6. EndsWithoutAutomine' /\ ShutdownKeepsTheChain'
  BY <1>3, <1>5 DEF IInv, EndsWithoutAutomine, ShutdownKeepsTheChain
<1> QED BY <1>2, <1>4, <1>6 DEF IInv

\* A peer's block, which the node checks.
LEMMA ReceiveBlockKeeps ==
    ASSUME IInv, ReceiveBlock
    PROVE  IInv'
<1> DEFINE n == Len(mined) + 1
<1>1. PICK parent \in chain.stored \cup {0}, pays \in {FALSE, chain.submitted} :
         /\ mined' = Append(mined, [parent |-> parent, height |-> HeightOf(parent) + 1,
                                    own |-> FALSE, sound |-> TRUE, pays |-> pays])
         /\ chain' = [chain EXCEPT !.stored = @ \cup {n},
                          !.tip = IF HeightOf(parent) + 1 > HeightOf(@) THEN n ELSE @]
  BY DEF ReceiveBlock
<1> DEFINE x == [parent |-> parent, height |-> HeightOf(parent) + 1,
                 own |-> FALSE, sound |-> TRUE, pays |-> pays]
<1>2. x \in BlockType /\ x.parent <= Len(mined)
  <2>1. parent \in {0} \cup Blocks /\ pays \in BOOLEAN
    BY <1>1, Typed DEF ChainType
  <2>2. HeightOf(parent) \in Nat /\ parent \in Nat /\ parent <= Len(mined)
    BY <2>1, Typed, HeightTyped DEF Blocks
  <2> QED BY <2>1, <2>2 DEF BlockType
<1>3. /\ UNCHANGED <<settings, sent, loop, node, worker, queue>>
      /\ node \notin {"verifying", "stopped"}
  BY DEF ReceiveBlock, Handlers, netVars, threadVars, nodeVars
<1>4. x.sound = TRUE
  OBVIOUS
<1> HIDE DEF x
<1>5. /\ HistoryOK' /\ Len(mined') = n /\ Len(mined) <= Len(mined')
      /\ Blocks' = Blocks \cup {n}
      /\ \A b \in Blocks : mined'[b] = mined[b]
      /\ mined'[n] = x
  <2>1. mined' = Append(mined, x)
    BY <1>1 DEF x
  <2>2. TypeOK
    BY Typed
  <2>3. /\ HistoryOK' /\ Len(mined') = Len(mined) + 1 /\ Len(mined) \in Nat
        /\ Blocks' = Blocks \cup {Len(mined) + 1}
        /\ \A b \in Blocks : mined'[b] = mined[b]
        /\ mined'[Len(mined) + 1] = x
    BY <2>1, <2>2, <1>2, <1>3, MinedKeeps
  <2> QED BY <2>3
<1>6. /\ Blocks \subseteq Blocks'
      /\ Seq(EventType) \subseteq Seq(EventType')
      /\ \A w : WorkerOK(w) => WorkerOK(w)'
      /\ \A l : LoopOK(l) => LoopOK(l)'
  BY <1>5, Typed, TypesGrow
<1>7. /\ chain' \in ChainType'
      /\ chain'.stored = chain.stored \cup {n}
      /\ chain'.unverified = chain.unverified
  BY <1>1, <1>5, <1>6, Typed DEF ChainType
<1>8. TypeOK'
  <2>1. (sent \subseteq Blocks)' /\ WorkerOK(worker)' /\ (queue \in Seq(EventType))'
        /\ LoopOK(loop)'
    BY <1>3, <1>6, Typed DEF TypeOK
  <2> QED BY <1>5, <1>7, <2>1 DEF TypeOK, HistoryOK
<1>9. UncountedChainIsSound' /\ SentBlocksAreSound'
  <2>1. chain.stored \subseteq Blocks /\ sent \subseteq Blocks
    BY DEF IInv, TypeOK, ChainType
  <2> QED BY <2>1, <1>3, <1>4, <1>5, <1>7
          DEF IInv, UncountedChainIsSound, SentBlocksAreSound
<1>10. EndsWithoutAutomine' /\ ShutdownKeepsTheChain'
  BY <1>3 DEF EndsWithoutAutomine, ShutdownKeepsTheChain
<1> QED BY <1>8, <1>9, <1>10 DEF IInv

----------------------------------------------------------------------------
(* The node's other handlers, and stop.                                    *)

\* Blocks are verified, or need not be: then the counter may be set to zero.
LEMMA VerifiedCounts ==
    ASSUME IInv, ExposureVerifies
    PROVE  /\ [chain EXCEPT !.unverified = 0] \in ChainType
           /\ [chain EXCEPT !.unverified = 0].stored = chain.stored
           /\ [chain EXCEPT !.unverified = 0].tip = chain.tip
           /\ \A b \in chain.stored : mined[b].sound
<1>1. chain \in ChainType
  BY Typed
<1>2. \A b \in chain.stored : mined[b].sound
  BY DEF IInv, UncountedChainIsSound, ExposureVerifies, VerifyChain
<1> QED BY <1>1, <1>2 DEF ChainType

LEMMA DialKeeps ==
    ASSUME IInv, Dial
    PROVE  IInv'
<1>1. UNCHANGED <<settings, mined, sent, worker, queue, loop, node>>
      /\ node \notin {"verifying", "stopped"}
  BY DEF Dial, Handlers, threadVars, nodeVars
<1>2. /\ chain' \in ChainType /\ chain'.stored = chain.stored
      /\ \A b \in chain.stored : mined[b].sound
  BY VerifiedCounts DEF Dial
<1>3. TypeOK'
  <2>1. sent' \subseteq Blocks
    BY <1>1, Typed DEF TypeOK
  <2> QED BY <1>1, <1>2, <2>1, Typed, TypedIf
<1>4. UncountedChainIsSound' /\ SentBlocksAreSound'
  BY <1>1, <1>2 DEF IInv, UncountedChainIsSound, SentBlocksAreSound
<1>5. EndsWithoutAutomine' /\ ShutdownKeepsTheChain'
  BY <1>1 DEF EndsWithoutAutomine, ShutdownKeepsTheChain
<1> QED BY <1>3, <1>4, <1>5 DEF IInv

LEMMA SubmitKeeps ==
    ASSUME IInv, SubmitTransaction
    PROVE  IInv'
<1>1. UNCHANGED <<settings, mined, sent, worker, queue, loop, node>>
      /\ node \notin {"verifying", "stopped"}
  BY DEF SubmitTransaction, netVars, threadVars, nodeVars
<1>2. chain' \in ChainType /\ chain'.stored = chain.stored
      /\ chain'.unverified = chain.unverified
  BY Typed DEF SubmitTransaction, ChainType
<1>3. TypeOK'
  <2>1. sent' \subseteq Blocks
    BY <1>1, Typed DEF TypeOK
  <2> QED BY <1>1, <1>2, <2>1, Typed, TypedIf
<1>4. UncountedChainIsSound' /\ SentBlocksAreSound'
  BY <1>1, <1>2 DEF IInv, UncountedChainIsSound, SentBlocksAreSound
<1>5. EndsWithoutAutomine' /\ ShutdownKeepsTheChain'
  BY <1>1 DEF EndsWithoutAutomine, ShutdownKeepsTheChain
<1> QED BY <1>3, <1>4, <1>5 DEF IInv

LEMMA BeginStopKeeps ==
    ASSUME IInv, BeginStop
    PROVE  IInv'
<1>1. UNCHANGED <<settings, mined, chain, sent, worker, queue, loop>> /\ node' = "stopping"
  BY DEF BeginStop, netVars, threadVars
<1>2. TypeOK'
  <2>1. chain' \in ChainType /\ sent' \subseteq Blocks
    BY <1>1, Typed DEF TypeOK
  <2> QED BY <1>1, <2>1, Typed, TypedIf
<1>3. UncountedChainIsSound' /\ SentBlocksAreSound'
  BY <1>1 DEF IInv, UncountedChainIsSound, SentBlocksAreSound
<1>4. EndsWithoutAutomine' /\ ShutdownKeepsTheChain'
  BY <1>1 DEF EndsWithoutAutomine, ShutdownKeepsTheChain
<1> QED BY <1>2, <1>3, <1>4 DEF IInv

\* The snapshot has the chain if any block of it is not verified.
LEMMA BeginShutdownKeeps ==
    ASSUME IInv, BeginShutdown
    PROVE  IInv'
<1>1. UNCHANGED <<settings, mined, chain, sent, worker, queue, loop>> /\ node' = "verifying"
      /\ loop.at = "off"
  BY DEF BeginShutdown, netVars, threadVars
<1>2. TypeOK'
  <2>1. chain' \in ChainType /\ sent' \subseteq Blocks
    BY <1>1, Typed DEF TypeOK
  <2> QED BY <1>1, <2>1, Typed, TypedIf
<1>3. UncountedChainIsSound' /\ SentBlocksAreSound'
  BY <1>1 DEF IInv, UncountedChainIsSound, SentBlocksAreSound
<1>4. EndsWithoutAutomine'
  BY <1>1 DEF EndsWithoutAutomine
<1>5. ShutdownKeepsTheChain'
  <2>1. MainChain(chain)' = MainChain(chain)
    BY <1>1 DEF MainChain, Ancestry
  <2>2. chain.unverified # 0 => saved' = MainChain(chain)
    BY DEF BeginShutdown, SaveSnapshot
  <2> QED BY <1>1, <2>1, <2>2 DEF ShutdownKeepsTheChain
<1> QED BY <1>2, <1>3, <1>4, <1>5 DEF IInv

\* The verification fails: the snapshot is what is left.
LEMMA EndShutdownKeeps ==
    ASSUME IInv, EndShutdown
    PROVE  IInv'
<1>1. UNCHANGED <<settings, mined, sent, worker, queue, loop>> /\ node = "verifying"
      /\ node' = "stopped"
  BY DEF EndShutdown, threadVars
<1>2. sent' \subseteq Blocks /\ EndsWithoutAutomine'
  BY <1>1 DEF IInv, TypeOK, EndsWithoutAutomine
<1>3. CASE ExposureVerifies
  <2>1. /\ chain' \in ChainType /\ chain'.stored = chain.stored /\ chain'.tip = chain.tip
        /\ \A b \in chain.stored : mined[b].sound
        /\ saved' = MainChain(chain)
    BY <1>3, VerifiedCounts DEF EndShutdown
  <2>2. TypeOK'
    BY <1>1, <1>2, <2>1, Typed, TypedIf
  <2>3. UncountedChainIsSound' /\ SentBlocksAreSound'
    BY <1>1, <2>1 DEF IInv, UncountedChainIsSound, SentBlocksAreSound
  <2>4. MainChain(chain)' = MainChain(chain)
    BY <1>1, <2>1 DEF MainChain, Ancestry
  <2>5. ShutdownKeepsTheChain'
    BY <2>1, <2>4 DEF ShutdownKeepsTheChain
  <2> QED BY <1>2, <2>2, <2>3, <2>5 DEF IInv
<1>4. CASE ~ExposureVerifies
  <2>1. UNCHANGED <<chain, saved>>
    BY <1>4 DEF EndShutdown
  <2>2. chain.unverified > 0
    BY <1>4, Typed DEF ExposureVerifies, ChainType
  <2>3. TypeOK'
    BY <1>1, <1>2, <2>1, Typed, TypedIf
  <2>4. UncountedChainIsSound' /\ SentBlocksAreSound'
    BY <1>1, <2>1 DEF IInv, UncountedChainIsSound, SentBlocksAreSound
  <2>5. MainChain(chain)' = MainChain(chain)
    BY <1>1, <2>1 DEF MainChain, Ancestry
  <2>6. ShutdownKeepsTheChain'
    BY <1>1, <2>1, <2>2, <2>5 DEF IInv, ShutdownKeepsTheChain
  <2> QED BY <1>2, <2>3, <2>4, <2>6 DEF IInv
<1> QED BY <1>3, <1>4

----------------------------------------------------------------------------
(* Theorems.                                                               *)

LEMMA StepIInv ==
    ASSUME IInv, [Next]_vars
    PROVE  IInv'
<1>1. CASE LoopStep
  BY <1>1, AcceptBlocksKeeps, LoopHeadKeeps, TestLoopKeeps, GetKeeps, HandleEndKeeps, JoinedKeeps
     DEF LoopStep
<1>2. CASE ThreadStep
  BY <1>2, NextSearchKeeps, SearchEndsKeeps, PutKeeps DEF ThreadStep
<1>3. CASE Find
  BY <1>3, FindKeeps
<1>4. CASE SearchFails
  BY <1>4, SearchEndsKeeps
<1>5. CASE StartAutomine
  BY <1>5, StartAutomineKeeps
<1>6. CASE StopAutomine \/ DialEnds \/ PeerDials \/ Disconnected
  BY <1>6, StopAutomineKeeps
<1>7. CASE Dial \/ SubmitTransaction \/ ReceiveBlock
  BY <1>7, DialKeeps, SubmitKeeps, ReceiveBlockKeeps
<1>8. CASE BeginStop \/ BeginShutdown \/ EndShutdown
  BY <1>8, BeginStopKeeps, BeginShutdownKeeps, EndShutdownKeeps
<1>9. CASE UNCHANGED vars
  BY <1>9, FlagsKeep DEF vars, fileVars, netVars, nodeVars
<1> QED BY <1>1, <1>2, <1>3, <1>4, <1>5, <1>6, <1>7, <1>8, <1>9 DEF Next

\* The inductive invariant: types, the true counter, sound blocks at the peers,
\* and a file that keeps up with the shutdown.
THEOREM IInvHolds == Spec => []IInv
<1>1. Init => IInv
  BY InitIInv
<1>2. IInv /\ [Next]_vars => IInv'
  BY StepIInv
<1> QED BY <1>1, <1>2, PTL DEF Spec

\* Whatever lies in the queue when a peer connects, no peer is sent a block
\* whose hash is not the hash of its contents (CanDeferHashCheck).
THEOREM PeersGetSoundBlocks == Spec => []SentBlocksAreSound
<1>1. IInv => SentBlocksAreSound
  BY DEF IInv
<1> QED BY <1>1, IInvHolds, PTL

\* The counter of unverified blocks is zero only if there are none, through
\* every rollback and verification that fails.
THEOREM CounterTellsTheTruth == Spec => []UncountedChainIsSound
<1>1. IInv => UncountedChainIsSound
  BY DEF IInv
<1> QED BY <1>1, IInvHolds, PTL

\* A shutdown keeps the chain, whether its verification succeeds, fails or is
\* interrupted (stop, _save_cloud_native_fast_shutdown_snapshot).
THEOREM ShutdownKeeps == Spec => []ShutdownKeepsTheChain
<1>1. IInv => ShutdownKeepsTheChain
  BY DEF IInv
<1> QED BY <1>1, IInvHolds, PTL

----------------------------------------------------------------------------
(* Where the worker's blocks are until the node has them.                  *)

\* The blocks of some events.
BlocksOf(events) == UNION {ToSet(events[i].blocks) : i \in DOMAIN events}

\* What the node has or is yet to see.
Reached == chain.stored \cup ToSet(loop.blocks) \cup BlocksOf(queue)

\* What the worker has not put into the queue, and may not.
AtRisk == CASE worker.at = "put"                -> BlocksOf(worker.outbox)
            [] worker.at \in {"search", "head"} -> ToSet(worker.batch)
            [] OTHER                            -> {}

\* Not more than a batch.
Small(S) == IsFiniteSet(S) /\ Cardinality(S) <= settings.batch

\* After "cancelled" or "error", which bring no blocks, comes nothing more.
EndIsLast(events) ==
    \A i \in DOMAIN events : events[i].kind # "blocks" =>
        i = Len(events) /\ events[i].blocks = << >>

\* The worker's last event is the last, in its outbox, in the queue and with
\* the task, which has then seen all the others.
EndsAreLast ==
    /\ EndIsLast(queue) /\ EndIsLast(worker.outbox)
    /\ \A i \in DOMAIN queue : queue[i].kind # "blocks" => worker.at = "done"
    /\ \A i \in DOMAIN worker.outbox :
          worker.outbox[i].kind # "blocks" => worker.then = "done"
    /\ loop.at = "handle" /\ loop.kind \in {"cancelled", "error"} =>
          worker.at = "done" /\ queue = << >> /\ loop.blocks = << >>

\* What the worker has in its hands is not more than a batch.
BatchIsSmall ==
    /\ worker.at \in {"search", "head", "put", "done"}
    /\ worker.at \in {"search", "head"} => Len(worker.batch) < settings.batch
    /\ worker.at = "put" => Small(BlocksOf(worker.outbox))
    /\ worker.at = "put" /\ worker.then # "done" => worker.batch = << >>

\* The task is in the loop over the events of the present worker, or has left
\* it for the reason that the worker ended.
InRun == loop.at \in {"test", "get", "handle"} \/ loop.end = "ended"

\* While it is, every block of the worker has reached the node or is in the
\* worker's hands, and all but a batch reach it when the worker has ended.
Accounted ==
    /\ InRun => IF worker.at = "done" THEN Small(worker.made \ Reached)
                ELSE worker.made \ Reached \subseteq AtRisk
    /\ loop.end = "ended" =>
          loop.at \in {"joining", "off"} /\ worker.at = "done" /\ queue = << >>
    /\ loop.at # "handle" => loop.blocks = << >>

SInv == EndsAreLast /\ BatchIsSmall /\ Accounted

\* The elements of sequences.
LEMMA ElementsOf ==
    ASSUME NEW S, NEW s \in Seq(S)
    PROVE  /\ ToSet(<< >>) = {}
           /\ \A x \in S : ToSet(Append(s, x)) = ToSet(s) \cup {x}
           /\ \A n \in 0 .. Len(s) :
                 ToSet(s) = ToSet(SubSeq(s, 1, n)) \cup ToSet(SubSeq(s, n + 1, Len(s)))
<1>1. ToSet(<< >>) = {}
  BY DEF ToSet
<1>2. ASSUME NEW x \in S PROVE ToSet(Append(s, x)) = ToSet(s) \cup {x}
  <2>1. /\ DOMAIN Append(s, x) = 1 .. (Len(s) + 1) /\ DOMAIN s = 1 .. Len(s) /\ Len(s) \in Nat
        /\ \A i \in 1 .. Len(s) : Append(s, x)[i] = s[i]
        /\ Append(s, x)[Len(s) + 1] = x
    OBVIOUS
  <2>2. DOMAIN Append(s, x) = DOMAIN s \cup {Len(s) + 1}
    BY <2>1
  <2> QED BY <2>1, <2>2 DEF ToSet
<1>3. ASSUME NEW n \in 0 .. Len(s)
      PROVE  ToSet(s) = ToSet(SubSeq(s, 1, n)) \cup ToSet(SubSeq(s, n + 1, Len(s)))
  <2> DEFINE a == SubSeq(s, 1, n)
             b == SubSeq(s, n + 1, Len(s))
  <2>1. /\ DOMAIN s = 1 .. Len(s) /\ Len(s) \in Nat /\ n \in Nat
        /\ DOMAIN a = 1 .. n /\ DOMAIN b = 1 .. (Len(s) - n)
        /\ \A i \in 1 .. n : a[i] = s[i]
        /\ \A i \in 1 .. (Len(s) - n) : b[i] = s[n + i]
    OBVIOUS
  <2> HIDE DEF a, b
  <2>2. ToSet(a) \cup ToSet(b) \subseteq ToSet(s)
    <3>1. \A i \in DOMAIN a : i \in DOMAIN s /\ a[i] = s[i]
      BY <2>1
    <3>2. ASSUME NEW i \in DOMAIN b PROVE b[i] \in ToSet(s)
      <4>1. n + i \in DOMAIN s /\ b[i] = s[n + i]
        BY <2>1
      <4> QED BY ONLY <4>1 DEF ToSet
    <3> QED BY ONLY <3>1, <3>2 DEF ToSet
  <2>3. ASSUME NEW i \in 1 .. Len(s) PROVE s[i] \in ToSet(a) \cup ToSet(b)
    <3>1. CASE i \in 1 .. n
      BY <2>1, <3>1 DEF ToSet
    <3>2. CASE i \notin 1 .. n
      <4>1. i - n \in 1 .. (Len(s) - n) /\ n + (i - n) = i
        BY <2>1, <3>2
      <4>2. b[i - n] = s[i] /\ i - n \in DOMAIN b
        BY <2>1, <4>1
      <4> QED BY <4>2 DEF ToSet
    <3> QED BY <3>1, <3>2
  <2>4. ToSet(s) \subseteq ToSet(a) \cup ToSet(b)
    BY <2>1, <2>3 DEF ToSet
  <2>5. ToSet(s) = ToSet(a) \cup ToSet(b)
    BY <2>2, <2>4
  <2> QED BY <2>5 DEF a, b
<1> QED BY <1>1, <1>2, <1>3

\* A sequence has no more elements than places.
LEMMA ElementsAreFew ==
    ASSUME NEW S, NEW s \in Seq(S), settings.batch \in Nat, Len(s) <= settings.batch
    PROVE  Small(ToSet(s))
<1>1. Len(s) \in Nat /\ DOMAIN s = 1 .. Len(s) /\ s \in [1 .. Len(s) -> ToSet(s)]
  BY DEF ToSet
<1>2. s \in Surjection(1 .. Len(s), ToSet(s))
  BY <1>1 DEF Surjection, ToSet
<1>3. ExistsSurjection(1 .. Len(s), ToSet(s))
  BY <1>2 DEF ExistsSurjection
<1>4. IsFiniteSet(ToSet(s)) /\ Cardinality(ToSet(s)) <= Len(s)
  BY <1>1, <1>3, FS_NatSurjection, FS_SurjCardinalityBound
<1>5. Cardinality(ToSet(s)) \in Nat
  BY <1>4, FS_CardinalityType
<1> QED BY <1>1, <1>4, <1>5 DEF Small

LEMMA SmallerIsSmall ==
    ASSUME NEW S, NEW T, Small(T), S \subseteq T, settings.batch \in Nat
    PROVE  Small(S)
<1>1. IsFiniteSet(S) /\ Cardinality(S) <= Cardinality(T)
  BY FS_Subset DEF Small
<1>2. Cardinality(S) \in Nat /\ Cardinality(T) \in Nat
  BY <1>1, FS_CardinalityType DEF Small
<1> QED BY <1>1, <1>2 DEF Small

LEMMA BatchTyped ==
    ASSUME IInv
    PROVE  settings.batch \in Nat /\ settings.batch # 0
BY Typed, SettingsAssumption DEF TypeOK

\* The blocks of events that are put into a queue or taken from it.
LEMMA BlocksOfEvents ==
    ASSUME NEW S, NEW q \in Seq(S)
    PROVE  /\ BlocksOf(<< >>) = {}
           /\ \A e \in S : BlocksOf(Append(q, e)) = BlocksOf(q) \cup ToSet(e.blocks)
           /\ q # << >> => BlocksOf(q) = ToSet(Head(q).blocks) \cup BlocksOf(Tail(q))
<1>1. BlocksOf(<< >>) = {}
  BY DEF BlocksOf
<1>2. ASSUME NEW e \in S PROVE BlocksOf(Append(q, e)) = BlocksOf(q) \cup ToSet(e.blocks)
  <2>1. /\ DOMAIN Append(q, e) = 1 .. (Len(q) + 1) /\ DOMAIN q = 1 .. Len(q) /\ Len(q) \in Nat
        /\ \A i \in 1 .. Len(q) : Append(q, e)[i] = q[i]
        /\ Append(q, e)[Len(q) + 1] = e
    OBVIOUS
  <2>2. DOMAIN Append(q, e) = DOMAIN q \cup {Len(q) + 1}
    BY <2>1
  <2> QED BY <2>1, <2>2 DEF BlocksOf
<1>3. ASSUME q # << >>
      PROVE  BlocksOf(q) = ToSet(Head(q).blocks) \cup BlocksOf(Tail(q))
  <2> DEFINE t == Tail(q)
  <2>1. /\ DOMAIN q = 1 .. Len(q) /\ Len(q) \in Nat /\ Len(q) # 0
        /\ DOMAIN t = 1 .. (Len(q) - 1)
        /\ \A i \in 1 .. (Len(q) - 1) : t[i] = q[i + 1]
        /\ Head(q) = q[1]
    BY <1>3
  <2> HIDE DEF t
  <2>2. ToSet(Head(q).blocks) \cup BlocksOf(t) \subseteq BlocksOf(q)
    BY <2>1 DEF BlocksOf
  <2>3. ASSUME NEW i \in 1 .. Len(q)
        PROVE  ToSet(q[i].blocks) \subseteq ToSet(Head(q).blocks) \cup BlocksOf(t)
    <3>1. CASE i = 1
      BY <2>1, <3>1
    <3>2. CASE i # 1
      <4>1. i - 1 \in 1 .. (Len(q) - 1) /\ (i - 1) + 1 = i
        BY <2>1, <3>2
      <4>2. t[i - 1] = q[i] /\ i - 1 \in DOMAIN t
        BY <2>1, <4>1
      <4> QED BY <4>2 DEF BlocksOf
    <3> QED BY <3>1, <3>2
  <2>4. BlocksOf(q) \subseteq ToSet(Head(q).blocks) \cup BlocksOf(t)
    BY <2>1, <2>3 DEF BlocksOf
  <2> QED BY <2>2, <2>4 DEF t
<1> QED BY <1>1, <1>2, <1>3

\* One event.
LEMMA BlocksOfOne ==
    ASSUME NEW e
    PROVE  /\ BlocksOf(<<e>>) = ToSet(e.blocks)
           /\ EndIsLast(<<e>>) <=> e.kind = "blocks" \/ e.blocks = << >>
<1>1. DOMAIN <<e>> = {1} /\ <<e>>[1] = e /\ Len(<<e>>) = 1
  OBVIOUS
<1> QED BY <1>1 DEF BlocksOf, EndIsLast

\* Two.
LEMMA BlocksOfTwo ==
    ASSUME NEW d, NEW e, d.kind = "blocks", e.blocks = << >>
    PROVE  BlocksOf(<<d, e>>) = ToSet(d.blocks) /\ EndIsLast(<<d, e>>)
<1>1. /\ DOMAIN <<d, e>> = {1, 2} /\ <<d, e>>[1] = d /\ <<d, e>>[2] = e /\ Len(<<d, e>>) = 2
  OBVIOUS
<1>2. ToSet(e.blocks) = {}
  BY DEF ToSet
<1> QED BY <1>1, <1>2 DEF BlocksOf, EndIsLast

----------------------------------------------------------------------------
(* Steps of the handlers and the task.                                     *)

LEMMA InitSInv ==
    ASSUME Init
    PROVE  SInv
<1>1. queue = << >> /\ loop = OffLoop /\ worker = NoWorker
  BY DEF Init
<1>2. worker.at = "done" /\ worker.outbox = << >>
  BY <1>1 DEF NoWorker, NewWorker
<1>3. loop.at = "off" /\ loop.kind = "none" /\ loop.blocks = << >> /\ loop.end = "none"
  BY <1>1 DEF OffLoop
<1>4. EndsAreLast
  <2>1. EndIsLast(queue) /\ EndIsLast(worker.outbox)
    BY <1>1, <1>2 DEF EndIsLast
  <2> QED BY <1>1, <1>2, <1>3, <2>1 DEF EndsAreLast
<1>5. BatchIsSmall /\ Accounted
  BY <1>1, <1>2, <1>3 DEF BatchIsSmall, Accounted, InRun
<1> QED BY <1>4, <1>5 DEF SInv

\* The steps of the handlers and the task that leave the thread and the queue
\* alone: blocks the task had are stored, or it leaves the run.
LEMMA SInvStays ==
    ASSUME IInv, SInv, UNCHANGED <<settings, worker, queue>>,
           chain.stored \subseteq chain'.stored,
           loop'.at = "handle" /\ loop'.kind \in {"cancelled", "error"} => loop' = loop,
           loop'.at # "handle" => loop'.blocks = << >>,
           InRun' => InRun /\ ToSet(loop.blocks) \subseteq chain'.stored \cup ToSet(loop'.blocks),
           loop'.end = "ended" =>
               loop'.at \in {"joining", "off"} /\ worker.at = "done" /\ queue = << >>
    PROVE  SInv'
<1>1. EndsAreLast'
  BY DEF SInv, EndsAreLast, EndIsLast
<1>2. BatchIsSmall'
  BY DEF SInv, BatchIsSmall, Small, BlocksOf
<1>3. AtRisk' = AtRisk
  BY DEF AtRisk, BlocksOf
<1>4. InRun' => (worker.made \ Reached)' \subseteq worker.made \ Reached
  BY DEF Reached, BlocksOf
<1>5. Accounted'
  <2>1. ASSUME InRun', Small(worker.made \ Reached)
        PROVE  Small((worker.made \ Reached)')
    BY <1>4, <2>1, BatchTyped, SmallerIsSmall
  <2>2. InRun' /\ Small(worker.made \ Reached) => Small(worker.made \ Reached)'
    BY <2>1 DEF Small
  <2> QED BY <1>3, <1>4, <2>2 DEF SInv, Accounted
<1> QED BY <1>1, <1>2, <1>5 DEF SInv

\* The blocks of the task are where they were, whatever the node stores.
LEMMA HandlersKeepSInv ==
    ASSUME IInv, SInv, UNCHANGED <<settings, worker, queue, loop>>,
           chain.stored \subseteq chain'.stored
    PROVE  SInv'
<1>1. InRun' => InRun
  BY DEF InRun
<1> QED BY <1>1, SInvStays DEF SInv, Accounted

LEMMA NodeKeepsSInv ==
    ASSUME IInv, SInv,
           \/ StopAutomine \/ DialEnds \/ PeerDials \/ Disconnected \/ Dial
           \/ SubmitTransaction \/ ReceiveBlock \/ BeginStop \/ BeginShutdown \/ EndShutdown
           \/ UNCHANGED vars
    PROVE  SInv'
<1>1. UNCHANGED <<settings, worker, queue, loop>>
  BY DEF StopAutomine, DialEnds, PeerDials, Disconnected, Dial, SubmitTransaction, ReceiveBlock,
         BeginStop, BeginShutdown, EndShutdown, SetConnection, threadVars, vars
<1>2. chain.stored \subseteq chain'.stored
  <2>1. CASE UNCHANGED chain
    BY <2>1
  <2>2. CASE Dial \/ SubmitTransaction \/ EndShutdown
    BY <2>2, Typed DEF Dial, SubmitTransaction, EndShutdown, ChainType
  <2>3. CASE ReceiveBlock
    BY <2>3, Typed DEF ReceiveBlock, ChainType
  <2> QED BY <2>1, <2>2, <2>3
          DEF StopAutomine, DialEnds, PeerDials, Disconnected, BeginStop, BeginShutdown,
              SetConnection, vars
<1> QED BY <1>1, <1>2, HandlersKeepSInv

LEMMA StartKeepsSInv ==
    ASSUME IInv, SInv, StartAutomine
    PROVE  SInv'
<1>1. /\ UNCHANGED <<settings, worker, queue, chain>>
      /\ loop'.at = "loop" /\ loop'.blocks = << >> /\ loop'.end = "none"
  BY DEF StartAutomine, OffLoop, threadVars
<1>2. ~InRun'
  BY <1>1 DEF InRun
<1> QED BY <1>1, <1>2, SInvStays

\* A run that is left or ended keeps what it has, but an end that is not
\* "ended" asks for nothing.
LEMMA LeaveKeepsSInv ==
    ASSUME IInv, SInv, UNCHANGED <<settings, chain>>, NEW end, NEW tip, Leave(end, tip),
           end = "ended" => /\ InRun /\ loop.blocks = << >>
                            /\ worker.at = "done" /\ queue = << >>
    PROVE  SInv'
<1>1. /\ UNCHANGED <<worker, queue>>
      /\ loop'.at = "joining" /\ loop'.blocks = << >> /\ loop'.end = end
  BY DEF Leave, OffLoop, threadVars
<1>2. InRun' => end = "ended"
  BY <1>1 DEF InRun
<1>3. ToSet(<< >>) = {}
  BY DEF ToSet
<1> QED BY <1>1, <1>2, <1>3, SInvStays

LEMMA FinishKeepsSInv ==
    ASSUME IInv, SInv, UNCHANGED <<settings, chain>>, Finish, loop.at # "handle"
    PROVE  SInv'
<1>1. /\ UNCHANGED <<worker, queue>>
      /\ loop'.at = "off" /\ loop'.blocks = << >> /\ loop'.end = loop.end
  BY DEF Finish, OffLoop, threadVars
<1>2. InRun' => InRun
  BY <1>1 DEF InRun
<1>3. ToSet(loop.blocks) = {}
  BY DEF ToSet, SInv, Accounted
<1>4. loop.end = "ended" => worker.at = "done" /\ queue = << >>
  BY DEF SInv, Accounted
<1> QED BY <1>1, <1>2, <1>3, <1>4, SInvStays

\* A new worker has mined nothing yet.
LEMMA HeadKeepsSInv ==
    ASSUME IInv, SInv, LoopHead
    PROVE  SInv'
<1>1. CASE stop
  BY <1>1, FinishKeepsSInv DEF LoopHead, BeginRun
<1>2. CASE ~stop
  <2>1. /\ worker' = NewWorker(chain.tip) /\ queue' = << >> /\ settings' = settings
        /\ loop' = [OffLoop EXCEPT !.at = "test", !.tip = chain.tip]
    BY <1>2 DEF LoopHead, BeginRun
  <2>2. /\ worker'.at = "search" /\ worker'.batch = << >> /\ worker'.outbox = << >>
        /\ worker'.made = {}
    BY <2>1 DEF NewWorker
  <2>3. loop'.at = "test" /\ loop'.blocks = << >> /\ loop'.end = "none"
    BY <2>1 DEF OffLoop
  <2>4. EndsAreLast'
    BY <2>1, <2>2, <2>3 DEF EndsAreLast, EndIsLast
  <2>5. BatchIsSmall'
    BY <2>1, <2>2, BatchTyped DEF BatchIsSmall
  <2>6. Accounted'
    BY <2>2, <2>3 DEF Accounted
  <2> QED BY <2>4, <2>5, <2>6 DEF SInv
<1> QED BY <1>1, <1>2

LEMMA JoinedKeepsSInv ==
    ASSUME IInv, SInv, Joined
    PROVE  SInv'
<1>1. CASE loop.end \in {"stale", "cancelled"} /\ ~stop
  <2>1. /\ UNCHANGED <<settings, worker, queue, chain>>
        /\ loop' = [loop EXCEPT !.at = "loop"]
    BY <1>1 DEF Joined, threadVars
  <2>2. /\ loop'.at = "loop" /\ loop'.blocks = << >> /\ loop'.end = loop.end
    BY <2>1, Typed DEF LoopOK, SInv, Accounted, Joined
  <2>3. ~InRun'
    BY <1>1, <2>2 DEF InRun
  <2> QED BY <1>1, <2>1, <2>2, <2>3, SInvStays
<1>2. CASE Finish
  BY <1>2, FinishKeepsSInv DEF Joined
<1> QED BY <1>1, <1>2 DEF Joined

\* The test and a wait that is over; nothing is left when the run ends here.
LEMMA TestKeepsSInv ==
    ASSUME IInv, SInv, TestLoop \/ GetTimesOut
    PROVE  SInv'
<1>1. CASE loop.at \in {"test", "get"} /\ UNCHANGED threadVars
           /\ \E at \in {"test", "get"} : loop' = [loop EXCEPT !.at = at]
  <2>1. /\ UNCHANGED <<settings, worker, queue, chain>>
    BY <1>1 DEF TestLoop, GetTimesOut, threadVars
  <2>2. loop'.at \in {"test", "get"} /\ loop'.blocks = << >> /\ loop'.end = loop.end
    BY <1>1, Typed DEF LoopOK, SInv, Accounted
  <2>3. InRun /\ ToSet(loop.blocks) = {} /\ loop.end # "ended"
    BY <1>1 DEF InRun, ToSet, SInv, Accounted
  <2> QED BY <2>1, <2>2, <2>3, SInvStays
<1>2. CASE TestLoop /\ ~EventsExpected
  <2>1. InRun /\ loop.blocks = << >>
    BY <1>2 DEF TestLoop, InRun, SInv, Accounted
  <2> QED BY <1>2, <2>1, LeaveKeepsSInv DEF TestLoop, EventsExpected
<1> QED BY <1>1, <1>2 DEF TestLoop, GetTimesOut

LEMMA HandleEndKeepsSInv ==
    ASSUME IInv, SInv, HandleEnd
    PROVE  SInv'
<1>1. PICK end : Leave(end, loop.tip)
  BY DEF HandleEnd
<1>2. InRun /\ loop.blocks = << >> /\ worker.at = "done" /\ queue = << >>
  BY DEF HandleEnd, InRun, SInv, EndsAreLast
<1> QED BY <1>1, <1>2, LeaveKeepsSInv DEF HandleEnd

\* The task takes the first event; the last one is the last.
LEMMA GetKeepsSInv ==
    ASSUME IInv, SInv, GetEvent
    PROVE  SInv'
<1>1. /\ queue \in Seq(EventType) /\ queue # << >> /\ loop.at = "get"
      /\ queue' = Tail(queue) /\ UNCHANGED <<settings, chain, worker>>
  BY Typed DEF GetEvent
<1>2. /\ loop'.at = "handle" /\ loop'.kind = Head(queue).kind
      /\ loop'.blocks = Head(queue).blocks /\ loop'.end = loop.end
  BY Typed DEF GetEvent, LoopOK
<1>3. /\ DOMAIN queue = 1 .. Len(queue) /\ Len(queue) \in Nat /\ Len(queue) # 0
      /\ Len(queue') = Len(queue) - 1 /\ DOMAIN queue' = 1 .. (Len(queue) - 1)
      /\ \A i \in 1 .. (Len(queue) - 1) : queue'[i] = queue[i + 1]
      /\ Head(queue) = queue[1]
  <2> HIDE DEF EventType
  <2> QED BY <1>1
<1>4. EndsAreLast'
  <2>1. ASSUME NEW i \in 1 .. (Len(queue) - 1), queue'[i].kind # "blocks"
        PROVE  i = Len(queue') /\ queue'[i].blocks = << >> /\ worker.at = "done"
    <3>1. i + 1 \in DOMAIN queue /\ queue[i + 1].kind # "blocks"
      BY <1>3, <2>1
    <3>2. /\ EndIsLast(queue)
          /\ \A k \in DOMAIN queue : queue[k].kind # "blocks" => worker.at = "done"
      BY DEF SInv, EndsAreLast
    <3>3. i + 1 = Len(queue) /\ queue[i + 1].blocks = << >> /\ worker.at = "done"
      BY <3>1, <3>2 DEF EndIsLast
    <3>4. queue'[i] = queue[i + 1]
      BY <1>3
    <3>5. i = Len(queue')
      <4>1. Len(queue') = Len(queue) - 1 /\ Len(queue) \in Nat /\ i \in Int
        BY <1>3
      <4> DEFINE m == Len(queue)
      <4>2. Len(queue') = m - 1 /\ m \in Nat /\ i + 1 = m
        BY <3>3, <4>1
      <4> HIDE DEF m
      <4> QED BY <4>1, <4>2
    <3> QED BY <3>3, <3>4, <3>5
  <2>2. /\ EndIsLast(queue')
        /\ \A i \in DOMAIN queue' : queue'[i].kind # "blocks" => worker.at = "done"
    BY <1>3, <2>1 DEF EndIsLast
  <2>3. loop'.kind # "blocks" => worker.at = "done" /\ queue' = << >> /\ loop'.blocks = << >>
    <3>1. ASSUME queue[1].kind # "blocks"
          PROVE  Len(queue) = 1 /\ queue[1].blocks = << >> /\ worker.at = "done"
      BY <1>3, <3>1 DEF SInv, EndsAreLast, EndIsLast
    <3>2. Len(queue) = 1 => queue' = << >>
      <4> HIDE DEF EventType
      <4> QED BY <1>1
    <3> QED BY <1>2, <1>3, <3>1, <3>2
  <2>4. EndIsLast(queue)'
    BY <2>2 DEF EndIsLast
  <2>5. EndIsLast(worker.outbox)'
    BY <1>1 DEF SInv, EndsAreLast, EndIsLast
  <2> QED BY <1>1, <1>2, <2>2, <2>3, <2>4, <2>5 DEF SInv, EndsAreLast
<1>5. BatchIsSmall'
  BY <1>1 DEF SInv, BatchIsSmall, Small, BlocksOf
<1>6. Accounted'
  <2>1. loop.blocks = << >> /\ InRun /\ loop.end # "ended" /\ ToSet(<< >>) = {}
    BY <1>1 DEF SInv, Accounted, InRun, ToSet
  <2>2. BlocksOf(queue) = ToSet(Head(queue).blocks) \cup BlocksOf(Tail(queue))
    <3> HIDE DEF EventType
    <3> QED BY <1>1, BlocksOfEvents
  <2>3. BlocksOf(queue') = BlocksOf(queue)'
    BY DEF BlocksOf
  <2>4. Reached' = Reached
    BY <1>1, <1>2, <2>1, <2>2, <2>3 DEF Reached
  <2>5. AtRisk' = AtRisk
    BY <1>1 DEF AtRisk, BlocksOf
  <2> QED BY <1>1, <1>2, <2>1, <2>4, <2>5 DEF SInv, Accounted, Small
<1> QED BY <1>4, <1>5, <1>6 DEF SInv

\* One block that is accepted is stored, and those before it stay.
LEMMA AcceptedOneStores ==
    ASSUME NEW c \in ChainType, NEW b \in Blocks
    PROVE  /\ FastAccepted(c, b).chain \in ChainType
           /\ c.stored \subseteq FastAccepted(c, b).chain.stored
           /\ FastAccepted(c, b).ok => b \in FastAccepted(c, b).chain.stored
           /\ c.stored \subseteq AcceptedOne(c, b).chain.stored
           /\ AcceptedOne(c, b).ok => b \in AcceptedOne(c, b).chain.stored
<1> DEFINE n == c.unverified + 1
           d == [Stored(c, b) EXCEPT !.unverified = n]
           e == [d EXCEPT !.unverified = 0]
<1>1. /\ d \in ChainType /\ d.stored = c.stored \cup {b}
      /\ e \in ChainType /\ e.stored = c.stored \cup {b}
  <2>1. Stored(c, b) \in ChainType /\ Stored(c, b).stored = c.stored \cup {b} /\ n \in Nat
    BY StoredIsChain DEF ChainType
  <2> HIDE DEF n
  <2> QED BY <2>1 DEF ChainType
<1>2. \/ Counted(c, b).ok = FALSE /\ Counted(c, b).chain = c
      \/ Counted(c, b).chain \in {d, e}
  BY DEF Counted
<1> HIDE DEF d, e
<1>3. /\ Counted(c, b).chain \in ChainType
      /\ c.stored \subseteq Counted(c, b).chain.stored
      /\ Counted(c, b).ok => b \in Counted(c, b).chain.stored
  BY <1>1, <1>2
<1>4. /\ FastAccepted(c, b).chain \in ChainType
      /\ c.stored \subseteq FastAccepted(c, b).chain.stored
      /\ FastAccepted(c, b).ok => b \in FastAccepted(c, b).chain.stored
  BY <1>3 DEF FastAccepted
<1>5. /\ c.stored \subseteq FullyAccepted(c, b).chain.stored
      /\ FullyAccepted(c, b).ok => b \in FullyAccepted(c, b).chain.stored
  BY StoredIsChain DEF FullyAccepted
<1> QED BY <1>4, <1>5 DEF AcceptedOne

LEMMA AcceptedBatchStores ==
    ASSUME NEW c \in ChainType, NEW batch \in Seq(Blocks)
    PROVE  LET r == AcceptedBatch(c, batch)
           IN  c.stored \subseteq r.chain.stored /\ (r.ok => ToSet(batch) \subseteq r.chain.stored)
<1>1. Len(batch) \in Nat /\ DOMAIN batch = 1 .. Len(batch)
      /\ \A i \in 1 .. Len(batch) : batch[i] \in Blocks
  OBVIOUS
<1>2. PICK f : /\ f = [n \in 0 .. Len(batch) |-> NextAccepted(c, batch, f, n)]
               /\ AcceptedBatch(c, batch) = f[Len(batch)]
  BY <1>1, AcceptedBatchSolves
<1> DEFINE Good(n) ==
        /\ f[n].chain \in ChainType /\ c.stored \subseteq f[n].chain.stored
        /\ f[n].ok => \A i \in 1 .. n : batch[i] \in f[n].chain.stored
           Bad == {n \in 0 .. Len(batch) : ~Good(n)}
<1>3. \A n \in 0 .. Len(batch) : f[n] = NextAccepted(c, batch, f, n)
  BY <1>2
<1>4. Bad = {}
  <2>1. SUFFICES ASSUME Bad # {} PROVE FALSE
    OBVIOUS
  <2>2. PICK n \in Bad : \A k \in Bad : n <= k
    <3> HIDE DEF Good
    <3>1. Bad \in SUBSET Nat
      BY <1>1
    <3> HIDE DEF Bad
    <3> QED BY <2>1, <3>1, LeastNatural
  <2>3. n \in 0 .. Len(batch) /\ ~Good(n)
    <3> HIDE DEF Good
    <3> QED OBVIOUS
  <2>4. n # 0
    <3>1. f[0] = [chain |-> c, ok |-> TRUE]
      <4>1. f[0] = NextAccepted(c, batch, f, 0)
        BY <1>1, <1>3
      <4> HIDE DEF Bad
      <4> QED BY <4>1 DEF NextAccepted
    <3> QED BY <2>3, <3>1
  <2>5. n - 1 \in 0 .. Len(batch) /\ ~(n <= n - 1) /\ batch[n] \in Blocks
    BY <1>1, <2>3, <2>4
  <2>6. Good(n - 1)
    <3> HIDE DEF Good
    <3> QED BY <2>2, <2>5
  <2>7. f[n] = IF f[n - 1].ok THEN FastAccepted(f[n - 1].chain, batch[n]) ELSE f[n - 1]
    BY <1>3, <2>3, <2>4 DEF NextAccepted
  <2>8. CASE ~f[n - 1].ok
    <3>1. f[n] = f[n - 1]
      BY <2>7, <2>8
    <3> QED BY <2>3, <2>6, <2>8, <3>1
  <2>9. CASE f[n - 1].ok
    <3>1. /\ f[n].chain \in ChainType
          /\ f[n - 1].chain.stored \subseteq f[n].chain.stored
          /\ f[n].ok => batch[n] \in f[n].chain.stored
      BY <2>5, <2>6, <2>7, <2>9, AcceptedOneStores
    <3>2. \A i \in 1 .. n : i = n \/ i \in 1 .. (n - 1)
      BY <2>3
    <3> QED BY <2>3, <2>6, <2>9, <3>1, <3>2
  <2> QED BY <2>8, <2>9
<1>5. Good(Len(batch))
  <2> HIDE DEF Good
  <2> QED BY <1>1, <1>4
<1> QED BY <1>1, <1>2, <1>5 DEF ToSet

\* What is accepted together was stored, and the rest is still in hand.
LEMMA AcceptKeepsSInv ==
    ASSUME IInv, SInv, AcceptBlocks
    PROVE  SInv'
<1> DEFINE n == Together
           blocks == SubSeq(loop.blocks, 1, n)
           rest == SubSeq(loop.blocks, n + 1, Len(loop.blocks))
<1>1. /\ Accept(blocks, rest) /\ UNCHANGED settings
      /\ loop.at = "handle" /\ loop.kind \in {"blocks", "rest"}
  BY DEF AcceptBlocks
<1>2. /\ blocks \in Seq(Blocks) /\ rest \in Seq(Blocks)
  BY <1>1, TogetherSplits
<1>3. ToSet(loop.blocks) = ToSet(blocks) \cup ToSet(rest)
  <2>1. loop.blocks \in Seq(Blocks) /\ Len(loop.blocks) \in Nat /\ Len(loop.blocks) # 0
    <3>1. loop.blocks \in Seq(Blocks) /\ loop.blocks # << >>
      BY <1>1, Typed DEF LoopOK
    <3> HIDE DEF Blocks
    <3> QED BY <3>1
  <2>2. n \in 0 .. Len(loop.blocks)
    BY <2>1 DEF Together
  <2> HIDE DEF n, Blocks
  <2> QED BY <2>1, <2>2, ElementsOf
<1> HIDE DEF blocks, rest, n
<1>4. CASE mined[Head(blocks)].parent # chain.tip
  BY <1>1, <1>4, LeaveKeepsSInv DEF Accept
<1>5. CASE mined[Head(blocks)].parent = chain.tip
  <2>1. PICK r : /\ r = IF Len(blocks) = 1 THEN AcceptedOne(chain, Head(blocks))
                        ELSE AcceptedBatch(chain, blocks)
                 /\ chain' = r.chain
                 /\ IF r.ok
                    THEN Recorded(blocks, r.chain) /\ GoOn(rest, Last(blocks))
                    ELSE UNCHANGED <<fileVars, sent>> /\ Leave("error", loop.tip)
    BY <1>1, <1>5 DEF Accept
  <2>2. /\ chain.stored \subseteq chain'.stored
        /\ r.ok => ToSet(blocks) \subseteq chain'.stored
    <3>1. CASE Len(blocks) = 1
      <4>1. Head(blocks) \in Blocks /\ ToSet(blocks) = {Head(blocks)}
        <5>1. Head(blocks) \in Blocks /\ DOMAIN blocks = {1} /\ Head(blocks) = blocks[1]
          <6> HIDE DEF Blocks
          <6> QED BY <1>2, <3>1
        <5> QED BY <5>1 DEF ToSet
      <4> QED BY <2>1, <3>1, <4>1, AcceptedOneStores, Typed
    <3>2. CASE Len(blocks) # 1
      BY <1>2, <2>1, <3>2, AcceptedBatchStores, Typed
    <3> QED BY <3>1, <3>2
  <2>3. loop.end # "ended" /\ InRun
    BY <1>1 DEF SInv, Accounted, InRun
  <2>4. CASE r.ok
    <3>1. GoOn(rest, Last(blocks))
      BY <2>1, <2>4
    <3>2. /\ UNCHANGED <<worker, queue>> /\ loop'.end # "ended"
          /\ loop'.blocks = rest
          /\ loop'.at = "handle" => loop'.kind = "rest"
          /\ loop'.at # "handle" => rest = << >>
      BY <1>1, <2>3, <3>1, Typed DEF GoOn, threadVars, OffLoop, LoopOK
    <3>3. ToSet(loop.blocks) \subseteq chain'.stored \cup ToSet(loop'.blocks)
      BY <1>3, <2>2, <2>4, <3>2
    <3>4. /\ loop'.at = "handle" /\ loop'.kind \in {"cancelled", "error"} => loop' = loop
          /\ loop'.at # "handle" => loop'.blocks = << >>
          /\ UNCHANGED <<settings, worker, queue>>
      BY <1>1, <3>2
    <3> QED BY <2>2, <2>3, <3>2, <3>3, <3>4, SInvStays
  <2>5. CASE ~r.ok
    <3>1. Leave("error", loop.tip)
      BY <2>1, <2>5
    <3>2. /\ UNCHANGED <<worker, queue>>
          /\ loop'.at = "joining" /\ loop'.blocks = << >> /\ loop'.end = "error"
      BY <3>1 DEF Leave, OffLoop, threadVars
    <3>3. ~InRun'
      BY <3>2 DEF InRun
    <3> QED BY <1>1, <2>2, <3>2, <3>3, SInvStays
  <2> QED BY <2>4, <2>5
<1> QED BY <1>4, <1>5

----------------------------------------------------------------------------
(* Steps of the thread.                                                    *)

\* Events that all have blocks, the last one aside.
Ending(events, ended) ==
    EndIsLast(events) /\ \A i \in DOMAIN events : events[i].kind # "blocks" => ended

\* While the thread goes on it has sent no last event, the task has not ended
\* its run, and what it has in its hands is small.
LEMMA ThreadGoesOn ==
    ASSUME IInv, SInv, worker.at # "done"
    PROVE  /\ \A i \in DOMAIN queue : queue[i].kind = "blocks"
           /\ ~(loop.at = "handle" /\ loop.kind \in {"cancelled", "error"})
           /\ loop.end # "ended"
           /\ Small(AtRisk)
           /\ InRun => worker.made \ Reached \subseteq AtRisk
<1>1. /\ \A i \in DOMAIN queue : queue[i].kind = "blocks"
      /\ ~(loop.at = "handle" /\ loop.kind \in {"cancelled", "error"})
  BY DEF SInv, EndsAreLast
<1>2. loop.end # "ended" /\ (InRun => worker.made \ Reached \subseteq AtRisk)
  BY DEF SInv, Accounted
<1>3. Small(AtRisk)
  <2>1. CASE worker.at = "put"
    BY <2>1 DEF SInv, BatchIsSmall, AtRisk
  <2>2. CASE worker.at \in {"search", "head"}
    <3>1. worker.batch \in Seq(Blocks) /\ Len(worker.batch) \in Nat
      BY Typed DEF WorkerOK
    <3>2. Len(worker.batch) < settings.batch
      BY <2>2 DEF SInv, BatchIsSmall
    <3>3. Len(worker.batch) <= settings.batch
      BY <3>1, <3>2, BatchTyped
    <3>4. Small(ToSet(worker.batch))
      <4> HIDE DEF Blocks
      <4> QED BY <3>1, <3>3, BatchTyped, ElementsAreFew
    <3> QED BY <2>2, <3>4 DEF AtRisk
  <2> QED BY <2>1, <2>2 DEF SInv, BatchIsSmall
<1> QED BY <1>1, <1>2, <1>3

LEMMA ThreadKeepsSInv ==
    ASSUME IInv, SInv, UNCHANGED <<settings, chain, loop>>, worker.at # "done",
           Ending(queue', worker'.at = "done"),
           Ending(worker'.outbox, worker'.then = "done"),
           BatchIsSmall',
           InRun => IF worker'.at = "done" THEN Small(worker'.made \ Reached')
                    ELSE worker'.made \ Reached' \subseteq AtRisk'
    PROVE  SInv'
<1>1. /\ ~(loop.at = "handle" /\ loop.kind \in {"cancelled", "error"})
      /\ loop.end # "ended"
  BY ThreadGoesOn
<1>2. EndsAreLast'
  BY <1>1 DEF EndsAreLast, Ending, EndIsLast
<1>3. Accounted'
  BY <1>1 DEF SInv, Accounted, InRun, Small
<1> QED BY <1>2, <1>3 DEF SInv

\* The thread ends: what was in its hands may be lost.
LEMMA DoneKeepsSInv ==
    ASSUME IInv, SInv, UNCHANGED <<settings, chain, loop>>, worker.at # "done",
           NEW w, worker' = Done(w), Ending(queue', TRUE),
           InRun => Small(w.made \ Reached')
    PROVE  SInv'
<1>1. worker'.at = "done" /\ worker'.outbox = << >> /\ worker'.made = w.made
  BY DEF Done, NoWorker, NewWorker
<1>2. Ending(queue', worker'.at = "done") /\ Ending(worker'.outbox, worker'.then = "done")
  BY <1>1 DEF Ending, EndIsLast
<1>3. BatchIsSmall'
  BY <1>1 DEF BatchIsSmall
<1> QED BY <1>1, <1>2, <1>3, ThreadKeepsSInv

\* The queue as it is, and with the blocks of one more event.
LEMMA QueueGrows ==
    ASSUME IInv, SInv, worker.at # "done", UNCHANGED <<chain, loop>>,
           queue' = queue \/ \E e : e.kind = "blocks" /\ queue' = Append(queue, e)
    PROVE  /\ \A ended : Ending(queue', ended)
           /\ Reached \subseteq Reached'
           /\ \A e : queue' = Append(queue, e) => Reached' = Reached \cup ToSet(e.blocks)
<1>1. \A i \in DOMAIN queue : queue[i].kind = "blocks"
  BY ThreadGoesOn
<1>2. CASE queue' = queue
  <2>1. Len(queue) \in Nat /\ \A e : Append(queue, e) # queue
    <3>1. queue \in Seq(EventType)
      BY Typed
    <3> HIDE DEF EventType
    <3>2. \A e : Len(Append(queue, e)) = Len(queue) + 1
      BY <3>1
    <3> QED BY <3>1, <3>2
  <2> QED BY <1>1, <1>2, <2>1 DEF Ending, EndIsLast, Reached, BlocksOf
<1>3. CASE \E e : e.kind = "blocks" /\ queue' = Append(queue, e)
  <2>1. PICK e : e.kind = "blocks" /\ queue' = Append(queue, e)
    BY <1>3
  <2>2. queue \in Seq(EventType \cup {e})
    BY Typed, SeqGrows
  <2>3. /\ DOMAIN queue' = DOMAIN queue \cup {Len(queue) + 1}
        /\ \A i \in DOMAIN queue : queue'[i] = queue[i]
        /\ queue'[Len(queue) + 1] = e
    <3> HIDE DEF EventType
    <3> QED BY <2>1, <2>2
  <2>4. \A ended : Ending(queue', ended)
    BY <1>1, <2>1, <2>3 DEF Ending, EndIsLast
  <2>5. BlocksOf(queue') = BlocksOf(queue) \cup ToSet(e.blocks)
    <3> HIDE DEF EventType
    <3> QED BY <2>1, <2>2, BlocksOfEvents
  <2>6. Reached' = Reached \cup ToSet(e.blocks)
    BY <2>5 DEF Reached, BlocksOf
  <2>7. \A d : queue' = Append(queue, d) => d = e
    <3> TAKE d
    <3>1. queue \in Seq(EventType \cup {d, e}) /\ Len(queue) \in Nat
      BY Typed, SeqGrows
    <3> HIDE DEF EventType
    <3>2. Append(queue, d)[Len(queue) + 1] = d
      BY <3>1
    <3> QED BY <2>3, <3>2
  <2> QED BY <2>4, <2>6, <2>7
<1> QED BY <1>2, <1>3

LEMMA FewAtRisk ==
    ASSUME IInv, NEW S, NEW T, S \subseteq T, Small(T)
    PROVE  Small(S)
BY BatchTyped, SmallerIsSmall

LEMMA PutGivesUpKeepsSInv ==
    ASSUME IInv, SInv, PutGivesUp \/ (NextSearch /\ stopEvent)
    PROVE  SInv'
<1>1. /\ worker' = Done(worker) /\ UNCHANGED <<settings, chain, loop, queue>>
      /\ worker.at # "done"
  BY DEF PutGivesUp, NextSearch, ThreadOnly
<1>2. Ending(queue', TRUE) /\ Reached \subseteq Reached'
  BY <1>1, QueueGrows
<1>3. InRun => Small(worker.made \ Reached')
  <2>1. ASSUME InRun PROVE worker.made \ Reached' \subseteq AtRisk /\ Small(AtRisk)
    BY <1>1, <1>2, <2>1, ThreadGoesOn
  <2> QED BY <2>1, FewAtRisk
<1> QED BY <1>1, <1>2, <1>3, DoneKeepsSInv

LEMMA NextSearchKeepsSInv ==
    ASSUME IInv, SInv, NextSearch, ~stopEvent
    PROVE  SInv'
<1>1. /\ worker.at = "head" /\ worker' = [worker EXCEPT !.at = "search"]
      /\ UNCHANGED <<settings, chain, loop, queue>>
  BY DEF NextSearch, ThreadOnly
<1>2. /\ worker'.at = "search" /\ worker'.batch = worker.batch
      /\ worker'.outbox = worker.outbox /\ worker'.then = worker.then
      /\ worker'.made = worker.made
  BY <1>1, Typed DEF WorkerOK
<1>3. Ending(queue', worker'.at = "done") /\ Reached \subseteq Reached'
  BY <1>1, QueueGrows
<1>4. Ending(worker'.outbox, worker'.then = "done")
  BY <1>2 DEF SInv, EndsAreLast, Ending
<1>5. BatchIsSmall'
  BY <1>1, <1>2 DEF SInv, BatchIsSmall
<1>6. AtRisk = ToSet(worker.batch) /\ AtRisk' = ToSet(worker.batch)
  BY <1>1, <1>2 DEF AtRisk
<1>7. InRun => worker'.made \ Reached' \subseteq AtRisk'
  BY <1>1, <1>2, <1>3, <1>6, ThreadGoesOn
<1> QED BY <1>1, <1>2, <1>3, <1>4, <1>5, <1>7, ThreadKeepsSInv

\* The batch as an event, if there is one.
LEMMA BatchOutHolds ==
    ASSUME IInv, worker.at = "search"
    PROVE  /\ queue \o BatchOut = queue
              \/ \E e : e.kind = "blocks" /\ queue \o BatchOut = Append(queue, e)
           /\ \A e : e.kind # "blocks" /\ e.blocks = << >> =>
                 /\ BlocksOf(BatchOut \o <<e>>) = ToSet(worker.batch)
                 /\ Ending(BatchOut \o <<e>>, TRUE)
<1>1. queue \in Seq(EventType)
  BY Typed
<1>2. CASE worker.batch = << >>
  <2>1. BatchOut = << >>
    BY <1>2 DEF BatchOut
  <2>2. queue \o BatchOut = queue /\ \A e : BatchOut \o <<e>> = <<e>>
    <3> HIDE DEF EventType
    <3> QED BY <1>1, <2>1
  <2>3. ToSet(worker.batch) = {} /\ ToSet(<< >>) = {}
    BY <1>2 DEF ToSet
  <2> QED BY <2>2, <2>3, BlocksOfOne DEF Ending
<1>3. CASE worker.batch # << >>
  <2> DEFINE d == Event("blocks", worker.batch)
  <2>1. BatchOut = <<d>> /\ d.kind = "blocks" /\ d.blocks = worker.batch
    BY <1>3 DEF BatchOut, Event
  <2> HIDE DEF d
  <2>2. queue \o BatchOut = Append(queue, d) /\ \A e : BatchOut \o <<e>> = <<d, e>>
    <3>1. queue \o <<d>> = Append(queue, d)
      <4>1. queue \in Seq(EventType \cup {d})
        BY <1>1, SeqGrows
      <4> HIDE DEF EventType
      <4> QED BY <4>1
    <3>2. ASSUME NEW e PROVE <<d>> \o <<e>> = <<d, e>>
      <4>1. <<d>> \in Seq({d, e}) /\ <<e>> \in Seq({d, e}) /\ <<d, e>> \in Seq({d, e})
        OBVIOUS
      <4>2. /\ Len(<<d>> \o <<e>>) = 2 /\ <<d>> \o <<e>> \in Seq({d, e})
            /\ (<<d>> \o <<e>>)[1] = d /\ (<<d>> \o <<e>>)[2] = e
        BY <4>1
      <4>3. /\ Len(<<d, e>>) = 2 /\ <<d, e>>[1] = d /\ <<d, e>>[2] = e
        OBVIOUS
      <4>4. \A s, t \in Seq({d, e}) : Len(s) = 2 /\ Len(t) = 2 /\ s[1] = t[1] /\ s[2] = t[2]
                                       => s = t
        <5> TAKE s, t \in Seq({d, e})
        <5>1. HAVE Len(s) = 2 /\ Len(t) = 2 /\ s[1] = t[1] /\ s[2] = t[2]
        <5>2. \A i \in 1 .. 2 : s[i] = t[i]
          BY <5>1
        <5> QED BY <5>1, <5>2
      <4> QED BY <4>1, <4>2, <4>3, <4>4
    <3> QED BY <2>1, <3>1, <3>2
  <2>3. \A e : e.kind # "blocks" /\ e.blocks = << >> =>
            BlocksOf(<<d, e>>) = ToSet(worker.batch) /\ EndIsLast(<<d, e>>)
    BY <2>1, BlocksOfTwo
  <2> QED BY <2>1, <2>2, <2>3 DEF Ending
<1> QED BY <1>2, <1>3

\* The search ends: the batch and the last event go out, or, after the stop,
\* the batch if there is room.
LEMMA SearchEndsKeepsSInv ==
    ASSUME IInv, SInv, SearchCancelled \/ SearchFails
    PROVE  SInv'
<1>1. /\ worker.at = "search" /\ UNCHANGED <<settings, chain, loop>>
      /\ worker.at # "done" /\ AtRisk = ToSet(worker.batch)
  BY DEF SearchCancelled, SearchFails, ThreadOnly, AtRisk
<1>2. CASE worker' = Done(worker) /\ queue' \in {queue, queue \o BatchOut}
  <2>1. queue' = queue \/ \E e : e.kind = "blocks" /\ queue' = Append(queue, e)
    BY <1>1, <1>2, BatchOutHolds
  <2>2. Ending(queue', TRUE) /\ Reached \subseteq Reached'
    BY <1>1, <2>1, QueueGrows
  <2>3. InRun => Small(worker.made \ Reached')
    <3>1. ASSUME InRun PROVE worker.made \ Reached' \subseteq AtRisk /\ Small(AtRisk)
      BY <1>1, <2>2, <3>1, ThreadGoesOn
    <3> QED BY <3>1, FewAtRisk
  <2> QED BY <1>1, <1>2, <2>2, <2>3, DoneKeepsSInv
<1>3. ASSUME NEW last \in {"cancelled", "error"}, queue' = queue,
             worker' = [worker EXCEPT !.at = "put", !.then = "done",
                                      !.outbox = BatchOut \o <<Event(last, << >>)>>]
      PROVE  SInv'
  <2>1. Event(last, << >>).kind # "blocks" /\ Event(last, << >>).blocks = << >>
    BY DEF Event
  <2> DEFINE out == BatchOut \o <<Event(last, << >>)>>
  <2>2. BlocksOf(out) = ToSet(worker.batch) /\ Ending(out, TRUE)
    BY <1>1, <2>1, BatchOutHolds
  <2>3. /\ worker'.at = "put" /\ worker'.then = "done" /\ worker'.outbox = out
        /\ worker'.made = worker.made
    BY <1>3, Typed DEF WorkerOK
  <2> HIDE DEF out
  <2>4. Ending(queue', worker'.at = "done") /\ Reached \subseteq Reached'
    BY <1>1, <1>3, QueueGrows
  <2>5. AtRisk' = AtRisk /\ BlocksOf(worker.outbox)' = ToSet(worker.batch)
    BY <1>1, <2>2, <2>3 DEF AtRisk, BlocksOf
  <2>6. BatchIsSmall'
    <3>1. Small(AtRisk)
      BY <1>1, ThreadGoesOn
    <3> QED BY <1>1, <2>3, <2>5, <3>1 DEF BatchIsSmall, Small
  <2>7. InRun => worker'.made \ Reached' \subseteq AtRisk'
    BY <1>1, <2>3, <2>4, <2>5, ThreadGoesOn
  <2>8. Ending(worker'.outbox, worker'.then = "done")
    BY <2>2, <2>3 DEF Ending
  <2> QED BY <1>1, <2>3, <2>4, <2>6, <2>7, <2>8, ThreadKeepsSInv
<1> QED BY <1>2, <1>3 DEF SearchCancelled, SearchFails, ThreadOnly

\* An event goes into the queue; after the last one the thread ends.
LEMMA PutKeepsSInv ==
    ASSUME IInv, SInv, PutEvent
    PROVE  SInv'
<1> DEFINE e == Head(worker.outbox)
           rest == Tail(worker.outbox)
<1>1. /\ worker.at = "put" /\ UNCHANGED <<settings, chain, loop>> /\ worker.at # "done"
      /\ queue' = Append(queue, e)
      /\ worker' = CASE rest # << >> -> [worker EXCEPT !.outbox = rest]
                     [] rest = << >> /\ worker.then = "done" -> Done(worker)
                     [] OTHER -> [worker EXCEPT !.outbox = rest, !.at = "head"]
  BY DEF PutEvent, ThreadOnly
<1>2. /\ worker.outbox \in Seq(EventType) /\ worker.outbox # << >>
      /\ queue \in Seq(EventType)
  BY <1>1, Typed DEF WorkerOK
<1>3. /\ DOMAIN worker.outbox = 1 .. Len(worker.outbox) /\ Len(worker.outbox) \in Nat
      /\ Len(worker.outbox) # 0 /\ e \in EventType
      /\ rest \in Seq(EventType) /\ Len(rest) = Len(worker.outbox) - 1
      /\ DOMAIN rest = 1 .. (Len(worker.outbox) - 1)
      /\ \A i \in 1 .. (Len(worker.outbox) - 1) : rest[i] = worker.outbox[i + 1]
      /\ e = worker.outbox[1]
      /\ rest = << >> <=> Len(worker.outbox) = 1
  <2> DEFINE o == worker.outbox
  <2>1. o \in Seq(EventType) /\ o # << >>
    BY <1>2
  <2> HIDE DEF EventType, o
  <2>2. /\ DOMAIN o = 1 .. Len(o) /\ Len(o) \in Nat /\ Len(o) # 0 /\ Head(o) \in EventType
        /\ Tail(o) \in Seq(EventType) /\ Len(Tail(o)) = Len(o) - 1
        /\ DOMAIN Tail(o) = 1 .. (Len(o) - 1) /\ Head(o) = o[1]
    BY <2>1
  <2>3. \A i \in 1 .. (Len(o) - 1) : Tail(o)[i] = o[i + 1]
    BY <2>1
  <2>4. Tail(o) = << >> <=> Len(o) = 1
    <3>1. \A t \in Seq(EventType) : t = << >> <=> Len(t) = 0
      OBVIOUS
    <3>2. Tail(o) = << >> <=> Len(o) - 1 = 0
      BY <2>2, <3>1
    <3> QED BY <2>2, <3>2
  <2> QED BY <2>2, <2>3, <2>4 DEF o
<1>4. BlocksOf(worker.outbox) = ToSet(e.blocks) \cup BlocksOf(rest)
  <2> HIDE DEF EventType
  <2> QED BY <1>2, BlocksOfEvents
<1> HIDE DEF e, rest
<1>5. /\ EndIsLast(worker.outbox)
      /\ \A i \in DOMAIN worker.outbox : worker.outbox[i].kind # "blocks" => worker.then = "done"
      /\ worker.then # "done" => worker.batch = << >>
      /\ AtRisk = BlocksOf(worker.outbox) /\ Small(AtRisk)
  BY <1>1, ThreadGoesOn DEF SInv, EndsAreLast, BatchIsSmall, AtRisk
<1>6. Ending(rest, worker.then = "done")
  <2>1. ASSUME NEW i \in DOMAIN rest, rest[i].kind # "blocks"
        PROVE  i = Len(rest) /\ rest[i].blocks = << >> /\ worker.then = "done"
    <3>1. i + 1 \in DOMAIN worker.outbox /\ worker.outbox[i + 1] = rest[i] /\ i \in Int
      BY <1>3, <2>1
    <3>2. i + 1 = Len(worker.outbox) /\ rest[i].blocks = << >> /\ worker.then = "done"
      BY <1>5, <2>1, <3>1 DEF EndIsLast
    <3> QED BY <1>3, <3>1, <3>2
  <2> QED BY <2>1 DEF Ending, EndIsLast
<1>7. e.kind # "blocks" => e.blocks = << >> /\ rest = << >> /\ worker.then = "done"
  BY <1>3, <1>5 DEF EndIsLast
<1>8. Reached' = Reached \cup ToSet(e.blocks)
  <2>1. BlocksOf(queue') = BlocksOf(queue) \cup ToSet(e.blocks)
    <3> HIDE DEF EventType
    <3> QED BY <1>1, <1>2, <1>3, BlocksOfEvents
  <2> QED BY <1>1, <2>1 DEF Reached, BlocksOf
<1>9. Ending(queue', e.kind # "blocks")
  <2>1. \A i \in DOMAIN queue : queue[i].kind = "blocks"
    BY <1>1, ThreadGoesOn
  <2>2. /\ DOMAIN queue' = DOMAIN queue \cup {Len(queue) + 1}
        /\ Len(queue') = Len(queue) + 1
        /\ \A i \in DOMAIN queue : queue'[i] = queue[i]
        /\ queue'[Len(queue) + 1] = e
    <3> HIDE DEF EventType
    <3> QED BY <1>1, <1>2, <1>3
  <2> QED BY <1>7, <2>1, <2>2 DEF Ending, EndIsLast
<1>10. InRun => worker.made \ Reached' \subseteq BlocksOf(rest)
  BY <1>1, <1>4, <1>5, <1>8, ThreadGoesOn
<1>11. Small(BlocksOf(rest))
  BY <1>4, <1>5, FewAtRisk
<1>12. CASE rest = << >> /\ worker.then = "done"
  <2>1. worker' = Done(worker) /\ Ending(queue', TRUE)
    BY <1>1, <1>9, <1>12 DEF Ending
  <2>2. InRun => Small(worker.made \ Reached')
    BY <1>10, <1>11, FewAtRisk
  <2> QED BY <1>1, <2>1, <2>2, DoneKeepsSInv
<1>13. CASE rest # << >> \/ worker.then # "done"
  <2>1. Ending(queue', worker'.at = "done")
    BY <1>7, <1>9, <1>13 DEF Ending
  <2>2. CASE rest # << >>
    <3>1. /\ worker'.at = "put" /\ worker'.outbox = rest /\ worker'.then = worker.then
          /\ worker'.made = worker.made /\ worker'.batch = worker.batch
      BY <1>1, <2>2, Typed DEF WorkerOK
    <3>2. AtRisk' = BlocksOf(rest) /\ BlocksOf(worker.outbox)' = BlocksOf(rest)
      BY <3>1 DEF AtRisk, BlocksOf
    <3>3. BatchIsSmall'
      BY <1>1, <1>5, <1>11, <3>1, <3>2 DEF BatchIsSmall, Small
    <3>4. Ending(worker'.outbox, worker'.then = "done")
      BY <1>6, <3>1
    <3> QED BY <1>1, <1>10, <2>1, <3>1, <3>2, <3>3, <3>4, ThreadKeepsSInv
  <2>3. CASE rest = << >> /\ worker.then # "done"
    <3>1. /\ worker'.at = "head" /\ worker'.outbox = rest /\ worker'.then = worker.then
          /\ worker'.made = worker.made /\ worker'.batch = << >>
      BY <1>1, <1>5, <2>3, Typed DEF WorkerOK
    <3>2. AtRisk' = {} /\ BlocksOf(rest) = {}
      BY <2>3, <3>1 DEF AtRisk, BlocksOf, ToSet
    <3>3. BatchIsSmall'
      BY <1>1, <3>1, BatchTyped DEF BatchIsSmall
    <3>4. Ending(worker'.outbox, worker'.then = "done")
      BY <1>6, <3>1
    <3> QED BY <1>1, <1>10, <2>1, <3>1, <3>2, <3>3, <3>4, ThreadKeepsSInv
  <2> QED BY <1>13, <2>2, <2>3
<1> QED BY <1>12, <1>13

\* A block is found: it is in the queue, in the outbox or in the batch.
LEMMA FindKeepsSInv ==
    ASSUME IInv, SInv, NEW sound, FindBlock(sound)
    PROVE  SInv'
<1> DEFINE b == Len(mined) + 1
           found == [worker EXCEPT !.tip = b, !.batch = Append(@, b), !.made = @ \cup {b}]
           out == Event("blocks", found.batch)
<1>1. /\ worker.at = "search" /\ UNCHANGED <<settings, chain, loop>>
      /\ worker.at # "done" /\ AtRisk = ToSet(worker.batch)
  BY DEF FindBlock, ThreadOnly, AtRisk
<1>2. \/ worker' = Done(found) /\ queue' \in {queue, Append(queue, out)}
      \/ /\ Len(found.batch) < settings.batch
         /\ worker' = [found EXCEPT !.at = "head"] /\ queue' = queue
      \/ /\ worker' = [found EXCEPT !.at = "put", !.outbox = <<out>>,
                                    !.batch = << >>, !.then = "head"]
         /\ queue' = queue
  BY DEF FindBlock, ThreadOnly
<1>3. /\ worker.batch \in Seq(Nat) /\ b \in Nat /\ Len(worker.batch) \in Nat
      /\ DOMAIN worker = {"at", "tip", "batch", "outbox", "then", "made"}
  <2>1. worker.batch \in Seq(Blocks) /\ Blocks \subseteq Nat
    BY Typed DEF WorkerOK, Blocks
  <2>2. worker.batch \in Seq(Nat)
    BY <2>1, SeqGrows
  <2> QED BY <2>2, Typed DEF WorkerOK
<1>4. /\ DOMAIN found = {"at", "tip", "batch", "outbox", "then", "made"}
      /\ found.batch = Append(worker.batch, b) /\ found.made = worker.made \cup {b}
      /\ found.outbox = worker.outbox /\ found.then = worker.then
  BY <1>3
<1>5. out.kind = "blocks" /\ out.blocks = found.batch
  BY DEF Event
<1> HIDE DEF found, out, b
<1>6. /\ ToSet(found.batch) = ToSet(worker.batch) \cup {b}
      /\ Small(ToSet(found.batch))
  <2>1. found.batch \in Seq(Nat) /\ Len(found.batch) = Len(worker.batch) + 1
    BY <1>3, <1>4
  <2>2. Len(worker.batch) < settings.batch
    BY <1>1 DEF SInv, BatchIsSmall
  <2>3. Len(found.batch) <= settings.batch
    BY <1>3, <2>1, <2>2, BatchTyped
  <2>4. Small(ToSet(found.batch))
    BY <2>1, <2>3, BatchTyped, ElementsAreFew
  <2>5. \A x \in Nat : ToSet(Append(worker.batch, x)) = ToSet(worker.batch) \cup {x}
    BY <1>3, ElementsOf
  <2> QED BY <1>3, <1>4, <2>4, <2>5
<1>7. /\ \A ended : Ending(queue', ended)
      /\ Reached \subseteq Reached'
  <2>1. queue' = queue \/ \E e : e.kind = "blocks" /\ queue' = Append(queue, e)
    BY <1>2, <1>5
  <2> QED BY <1>1, <2>1, QueueGrows
<1>8. InRun => found.made \ Reached' \subseteq ToSet(found.batch)
  BY <1>1, <1>4, <1>6, <1>7, ThreadGoesOn
<1>9. CASE worker' = Done(found)
  <2>1. InRun => Small(found.made \ Reached')
    BY <1>6, <1>8, FewAtRisk
  <2> QED BY <1>1, <1>7, <1>9, <2>1, DoneKeepsSInv
<1>10. CASE Len(found.batch) < settings.batch /\ worker' = [found EXCEPT !.at = "head"]
  <2>1. /\ worker'.at = "head" /\ worker'.batch = found.batch /\ worker'.made = found.made
        /\ worker'.outbox = worker.outbox /\ worker'.then = worker.then
    BY <1>4, <1>10
  <2>2. AtRisk' = ToSet(found.batch)
    BY <2>1 DEF AtRisk
  <2>3. BatchIsSmall'
    BY <1>1, <1>10, <2>1 DEF BatchIsSmall
  <2>4. Ending(worker'.outbox, worker'.then = "done")
    BY <2>1 DEF SInv, EndsAreLast, Ending
  <2> QED BY <1>1, <1>7, <1>8, <2>1, <2>2, <2>3, <2>4, ThreadKeepsSInv
<1>11. CASE worker' = [found EXCEPT !.at = "put", !.outbox = <<out>>,
                                    !.batch = << >>, !.then = "head"]
  <2>1. /\ worker'.at = "put" /\ worker'.batch = << >> /\ worker'.made = found.made
        /\ worker'.outbox = <<out>> /\ worker'.then = "head"
    BY <1>4, <1>11
  <2>2. BlocksOf(<<out>>) = ToSet(found.batch)
    BY <1>5, BlocksOfOne
  <2>3. AtRisk' = ToSet(found.batch) /\ BlocksOf(worker.outbox)' = ToSet(found.batch)
    BY <2>1, <2>2 DEF AtRisk, BlocksOf
  <2>4. BatchIsSmall'
    BY <1>1, <1>6, <2>1, <2>3 DEF BatchIsSmall, Small
  <2>5. Ending(worker'.outbox, worker'.then = "done")
    BY <1>5, <2>1 DEF Ending, EndIsLast
  <2> QED BY <1>1, <1>7, <1>8, <2>1, <2>3, <2>4, <2>5, ThreadKeepsSInv
<1> QED BY <1>2, <1>9, <1>10, <1>11

LEMMA StepSInv ==
    ASSUME IInv, SInv, [Next]_vars
    PROVE  SInv'
<1>1. CASE LoopStep
  BY <1>1, AcceptKeepsSInv, HeadKeepsSInv, TestKeepsSInv, GetKeepsSInv, HandleEndKeepsSInv,
     JoinedKeepsSInv DEF LoopStep
<1>2. CASE ThreadStep \/ SearchFails
  BY <1>2, NextSearchKeepsSInv, PutGivesUpKeepsSInv, SearchEndsKeepsSInv, PutKeepsSInv
     DEF ThreadStep
<1>3. CASE Find
  BY <1>3, FindKeepsSInv DEF Find
<1>4. CASE StartAutomine
  BY <1>4, StartKeepsSInv
<1>5. CASE ~(LoopStep \/ ThreadStep \/ SearchFails \/ Find \/ StartAutomine)
  BY <1>5, NodeKeepsSInv DEF Next
<1> QED BY <1>1, <1>2, <1>3, <1>4, <1>5

\* However the stop falls between the search, the batch, the outbox, the queue
\* and the task, all but one batch of the worker's blocks is stored when a run
\* ends because it was told to (_run_cloud_native_automine_worker).
THEOREM StopsLoseAtMostABatch == Spec => []StopLosesAtMostABatch
<1>1. Init => IInv /\ SInv
  BY InitIInv, InitSInv
<1>2. IInv /\ SInv /\ [Next]_vars => (IInv /\ SInv)'
  BY StepIInv, StepSInv
<1>3. IInv /\ SInv => StopLosesAtMostABatch
  <2>1. ASSUME IInv, SInv, loop.end = "ended"
        PROVE  Cardinality(worker.made \ chain.stored) <= settings.batch
    <3>1. loop.blocks = << >> /\ queue = << >> /\ worker.at = "done" /\ InRun
      BY <2>1 DEF SInv, Accounted, InRun
    <3>2. Reached = chain.stored
      BY <3>1 DEF Reached, BlocksOf, ToSet
    <3> QED BY <2>1, <3>1, <3>2 DEF SInv, Accounted, Small
  <2> QED BY <2>1 DEF StopLosesAtMostABatch
<1> QED BY <1>1, <1>2, <1>3, PTL DEF Spec

=============================================================================
