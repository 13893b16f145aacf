-------------------------- MODULE BlockchainProofs --------------------------
(***************************************************************************)
(* What Blockchain.tla promises for every set of hashes, transactions,     *)
(* miners and peer blocks.  The first part is about the tree, its tip, the *)
(* states after its blocks, the pool and what a block takes from it; there *)
(* a transaction and what it does to a ledger are opaque.  The second      *)
(* looks into CanApply and ApplyTransaction: the records and the coins of  *)
(* the ledgers along a chain, whatever programs its contracts run.  The    *)
(* third puts the two together: which payments a reorganisation keeps, and *)
(* when a block that is mined is accepted.                                 *)
(***************************************************************************)
EXTENDS ContractChain, UVMProofs

----------------------------------------------------------------------------
(* The inductive invariant.                                                *)

\* The stored blocks, their states and the tip have their types.
TypeOK ==
    /\ Stored \subseteq Hashes
    /\ DOMAIN states = Stored
    /\ \A h \in Stored :
          /\ Parent(h) \in Hashes \cup {NoHash}
          /\ Height(h) \in Nat
    /\ mainTip \in Hashes \cup {NoHash}

\* What the loops that walk from a tip to the genesis block (get_chain,
\* is_ancestor, _find_common_ancestor_hash) rely on to end where they should:
\* every stored block but one genesis block has a stored parent exactly one
\* lower, and heights are the block ids.
TreeIsSound ==
    /\ \A h \in Stored :
          /\ Height(h) = blocks[h].block_id
          /\ IF Parent(h) = NoHash
             THEN Height(h) = 0
             ELSE Parent(h) \in Stored /\ Height(h) = Height(Parent(h)) + 1
    /\ \A g, h \in Stored : Parent(g) = NoHash /\ Parent(h) = NoHash => g = h

\* The main tip is a stored block no other block is higher than, whatever
\* order the branches arrived in.
MainTipIsHighest ==
    Stored # {} => /\ mainTip \in Stored
                   /\ \A h \in Stored : Height(h) <= Height(mainTip)

\* Every stored block is a valid child of its parent, and the state stored
\* with it is the one its parent's state leads to.  With TreeIsSound this
\* makes block_states a function of the blocks, which is what verify_chain
\* relies on.
Replayed ==
    /\ states = [h \in Stored |-> states[h]]
    /\ \A h \in Stored :
          /\ Parent(h) = NoHash => IsGenesis(blocks[h])
          /\ IsValidChild(blocks[h], StateAt(Parent(h)).ledger)
          /\ states[h] = ChildState(blocks[h], StateAt(Parent(h)).ledger)

\* MainTipIsHighest with the case of the empty tree.
TipIsSound == MainTipIsHighest /\ (Stored = {} => mainTip = NoHash)

IInv == TypeOK /\ TreeIsSound /\ TipIsSound /\ Replayed

LEMMA InitIInv == Init => IInv
BY DEF Init, IInv, TypeOK, TreeIsSound, TipIsSound, MainTipIsHighest, Replayed, Stored

\* A step that keeps the tree, its states and the tip keeps the invariant.
LEMMA KeepIInv ==
    ASSUME IInv, UNCHANGED <<blocks, states, mainTip>>
    PROVE  IInv'
<1>1. TypeOK'  BY DEF IInv, TypeOK, Stored, Parent, Height
<1>2. TreeIsSound'  BY DEF IInv, TreeIsSound, Stored, Parent, Height
<1>3. TipIsSound'  BY DEF IInv, TipIsSound, MainTipIsHighest, Stored, Parent, Height
<1>4. Replayed'  BY DEF IInv, Replayed, Stored, Parent, StateAt
<1> QED BY <1>1, <1>2, <1>3, <1>4 DEF IInv

----------------------------------------------------------------------------
(* Adding a block.                                                         *)

\* add_block_result keeps the invariant, whatever block it is given.
LEMMA AddBlockIInv ==
    ASSUME IInv, NEW hash \in Hashes, NEW block, AddBlock(hash, block)
    PROVE  IInv'
<1> DEFINE parent == block.previous_hash
           child == ChildState(block, StateAt(parent).ledger)
<1>1. /\ hash \notin Stored
      /\ ExtendsParent(block)
      /\ IsValidChild(block, StateAt(parent).ledger)
  BY DEF AddBlock, Accepts
<1>2. /\ Stored' = Stored \cup {hash}
      /\ blocks'[hash] = block
      /\ \A h \in Stored : blocks'[h] = blocks[h]
  <2>1. blocks' = With(blocks, hash, block) /\ hash \notin DOMAIN blocks
    BY <1>1 DEF AddBlock, Stored
  <2> QED BY <2>1 DEF With, Stored
<1>3. /\ DOMAIN states' = Stored \cup {hash}
      /\ states'[hash] = child
      /\ \A h \in Stored : states'[h] = states[h]
  <2>1. DOMAIN states = Stored
    BY DEF IInv, TypeOK
  <2>2. hash \notin DOMAIN states /\ states' = With(states, hash, child)
    BY <1>1, <2>1 DEF AddBlock, StatesWith
  <2> QED BY <2>1, <2>2 DEF With
<1>4. child.height = block.block_id
  BY DEF ChildState
<1>5. /\ Parent(hash)' = parent
      /\ \A h \in Stored : Parent(h)' = Parent(h)
  BY <1>2 DEF Parent
<1>6. /\ Height(hash)' = block.block_id
      /\ \A h \in Stored : Height(h)' = Height(h)
  BY <1>3, <1>4 DEF Height
<1>7. \/ parent = NoHash /\ IsGenesis(block) /\ \A h \in Stored : Parent(h) # NoHash
      \/ parent \in Stored /\ block.block_id = Height(parent) + 1
  BY <1>1 DEF ExtendsParent
<1>8. NoHash \notin Stored
  BY NoHashAssumption DEF IInv, TypeOK
<1>9. block.block_id \in Nat
  BY <1>7 DEF IsGenesis, IInv, TypeOK
<1>10. TypeOK'
  <2>1. parent \in Hashes \cup {NoHash}
    BY <1>7 DEF IInv, TypeOK
  <2>2. mainTip' \in Hashes \cup {NoHash}
    BY DEF AddBlock, StatesWith, IInv, TypeOK
  <2> QED BY <1>2, <1>3, <1>5, <1>6, <1>9, <2>1, <2>2 DEF IInv, TypeOK
<1>11. TreeIsSound'
  <2>1. ASSUME NEW h \in Stored'
        PROVE  /\ states'[h].height = blocks'[h].block_id
               /\ IF blocks'[h].previous_hash = NoHash
                  THEN states'[h].height = 0
                  ELSE /\ blocks'[h].previous_hash \in Stored'
                       /\ states'[h].height = states'[blocks'[h].previous_hash].height + 1
    <3>1. CASE h = hash
      BY <3>1, <1>2, <1>3, <1>4, <1>7, <1>8 DEF IsGenesis, Height
    <3>2. CASE h \in Stored
      <4>1. /\ states[h].height = blocks[h].block_id
            /\ IF blocks[h].previous_hash = NoHash
               THEN states[h].height = 0
               ELSE /\ blocks[h].previous_hash \in Stored
                    /\ states[h].height = states[blocks[h].previous_hash].height + 1
        BY <3>2 DEF IInv, TreeIsSound, Height, Parent
      <4> QED BY <4>1, <3>2, <1>2, <1>3
    <3> QED BY <3>1, <3>2, <1>2
  <2>2. ASSUME NEW g \in Stored', NEW h \in Stored',
               blocks'[g].previous_hash = NoHash, blocks'[h].previous_hash = NoHash
        PROVE  g = h
    BY <2>2, <1>2, <1>7, <1>8 DEF IInv, TreeIsSound, Parent
  <2> QED BY <2>1, <2>2 DEF TreeIsSound, Stored, Parent, Height
<1>12. TipIsSound'
  <2>1. mainTip' = IF BecomesTip(block) THEN hash ELSE mainTip
    BY DEF AddBlock
  <2>2. CASE mainTip = NoHash
    <3>1. Stored = {} /\ mainTip' = hash
      BY <2>1, <2>2, <1>8 DEF BecomesTip, IInv, TipIsSound, MainTipIsHighest
    <3> QED BY <3>1, <1>2, <1>6, <1>9 DEF TipIsSound, MainTipIsHighest, Height
  <2>3. CASE mainTip # NoHash
    <3>1. mainTip \in Stored /\ \A h \in Stored : Height(h) <= Height(mainTip)
      BY <2>3 DEF IInv, TipIsSound, MainTipIsHighest
    <3>2. \A h \in Stored : Height(h) \in Nat
      BY DEF IInv, TypeOK
    <3>3. CASE block.block_id > Height(mainTip)
      <4>1. mainTip' = hash
        BY <2>1, <3>3 DEF BecomesTip
      <4>2. \A h \in Stored' : Height(h)' <= block.block_id
        BY <3>1, <3>2, <3>3, <1>2, <1>6, <1>9
      <4> QED BY <4>1, <4>2, <1>2, <1>6 DEF TipIsSound, MainTipIsHighest, Height
    <3>4. CASE ~(block.block_id > Height(mainTip))
      <4>1. mainTip' = mainTip
        BY <2>1, <2>3, <3>4 DEF BecomesTip
      <4>2. \A h \in Stored' : Height(h)' <= Height(mainTip)
        BY <3>1, <3>2, <3>4, <1>2, <1>6, <1>9
      <4> QED BY <4>1, <4>2, <3>1, <1>2, <1>6 DEF TipIsSound, MainTipIsHighest, Height
    <3> QED BY <3>3, <3>4
  <2> QED BY <2>2, <2>3
<1>13. Replayed'
  <2>1. \A g \in Stored \cup {NoHash} :
            (IF g = NoHash THEN FreshState ELSE states'[g]) = StateAt(g)
    BY <1>3 DEF StateAt
  <2>2. ASSUME NEW h \in Stored'
        PROVE  LET up    == blocks'[h].previous_hash
                   state == IF up = NoHash THEN FreshState ELSE states'[up]
               IN  /\ up = NoHash => IsGenesis(blocks'[h])
                   /\ IsValidChild(blocks'[h], state.ledger)
                   /\ states'[h] = ChildState(blocks'[h], state.ledger)
    <3>1. CASE h = hash
      <4>1. parent \in Stored \cup {NoHash} /\ (parent = NoHash => IsGenesis(block))
        BY <1>7, <1>8
      <4> QED BY <3>1, <4>1, <2>1, <1>1, <1>2, <1>3
    <3>2. CASE h \in Stored
      <4>1. Parent(h) \in Stored \cup {NoHash}
        BY <3>2 DEF IInv, TreeIsSound
      <4>2. /\ Parent(h) = NoHash => IsGenesis(blocks[h])
            /\ IsValidChild(blocks[h], StateAt(Parent(h)).ledger)
            /\ states[h] = ChildState(blocks[h], StateAt(Parent(h)).ledger)
        BY <3>2 DEF IInv, Replayed
      <4> QED BY <3>2, <4>1, <4>2, <2>1, <1>2, <1>3 DEF Parent
    <3> QED BY <3>1, <3>2, <1>2
  <2>3. states' = [h \in Stored' |-> states'[h]]
    BY <1>1, <1>2 DEF AddBlock, StatesWith, With, IInv, TypeOK
  <2> QED BY <2>2, <2>3 DEF Replayed, Stored, Parent, StateAt
<1> QED BY <1>10, <1>11, <1>12, <1>13 DEF IInv

----------------------------------------------------------------------------
(* verify_chain.                                                           *)

\* What verify_chain computes from the blocks is what the node holds.
LEMMA RecomputedIsStates ==
    ASSUME IInv
    PROVE  Recomputed = states
<1> DEFINE Earlier(f, h) == IF Parent(h) = NoHash THEN FreshState ELSE f[Parent(h)]
           OneFrom(f, h) ==
               IF /\ Earlier(f, h) # NoState
                  /\ Parent(h) = NoHash => IsGenesis(blocks[h])
                  /\ IsValidChild(blocks[h], Earlier(f, h).ledger)
               THEN ChildState(blocks[h], Earlier(f, h).ledger)
               ELSE NoState
<1>1. \A h \in Stored : Earlier(states, h) = StateAt(Parent(h))
  BY DEF StateAt
<1>2. \A h \in Stored : states[h] # NoState
  BY DEF IInv, TypeOK, Height, NoState
<1>3. \A h \in Stored : StateAt(Parent(h)) # NoState
  BY <1>2 DEF IInv, TreeIsSound, StateAt, FreshState, NoState
<1>4. states = [h \in Stored |-> OneFrom(states, h)]
  <2>1. \A h \in Stored : states[h] = OneFrom(states, h)
    BY <1>1, <1>3 DEF IInv, Replayed
  <2> HIDE DEF OneFrom
  <2> QED BY <2>1 DEF IInv, Replayed
<1>5. Recomputed = [h \in Stored |-> OneFrom(Recomputed, h)]
  <2>1. Recomputed = CHOOSE f : f = [h \in Stored |-> OneFrom(f, h)]
    BY DEF Recomputed
  <2> HIDE DEF OneFrom
  <2> QED BY <1>4, <2>1
<1>6. \A h \in Stored : Recomputed[h] = states[h]
  <2> DEFINE Differ == {h \in Stored : Recomputed[h] # states[h]}
  <2>1. SUFFICES ASSUME Differ # {}
                 PROVE  FALSE
    OBVIOUS
  <2>2. \A h \in Stored : Height(h) \in Nat
    BY DEF IInv, TypeOK
  <2>3. PICK least \in {Height(h) : h \in Differ} :
            \A height \in {Height(h) : h \in Differ} : least <= height
    <3>1. {Height(h) : h \in Differ} \in SUBSET Nat /\ {Height(h) : h \in Differ} # {}
      BY <2>1, <2>2
    <3> HIDE DEF Differ
    <3> QED BY <3>1, LeastNatural
  <2>4. PICK h \in Differ : \A other \in Differ : Height(h) <= Height(other)
    BY <2>3
  <2>5. Earlier(Recomputed, h) = Earlier(states, h)
    BY <2>2, <2>4 DEF IInv, TreeIsSound
  <2>6. OneFrom(Recomputed, h) = OneFrom(states, h)
    BY <2>5
  <2>7. h \in Stored
    OBVIOUS
  <2> HIDE DEF OneFrom
  <2>8. Recomputed[h] = states[h]
    BY <1>4, <1>5, <2>6, <2>7
  <2> QED BY <2>4, <2>8
<1> HIDE DEF OneFrom
<1> QED BY <1>5, <1>6 DEF IInv, Replayed

\* A highest block is a leaf, so the tip is the one verify_chain selects.
LEMMA BestTipIsMainTip ==
    ASSUME IInv
    PROVE  BestTips = {mainTip}
<1>1. Recomputed = states
  BY RecomputedIsStates
<1>2. CASE Stored = {}
  BY <1>2 DEF BestTips, BestAmong, IInv, TipIsSound
<1>3. CASE Stored # {}
  <2>1. mainTip \in Stored /\ \A h \in Stored : Height(h) <= Height(mainTip)
    BY <1>3 DEF IInv, TipIsSound, MainTipIsHighest
  <2>2. \A h \in Stored : Height(h) \in Nat
    BY DEF IInv, TypeOK
  <2>3. IsLeaf(mainTip)
    <3>1. SUFFICES ASSUME NEW h \in Stored, Parent(h) = mainTip
                   PROVE  FALSE
      BY DEF IsLeaf
    <3>2. Height(h) = Height(mainTip) + 1
      BY <3>1, <2>1, NoHashAssumption DEF IInv, TypeOK, TreeIsSound
    <3> QED BY <3>2, <2>1, <2>2
  <2>4. mainTip \in HighestLeaves([h \in Stored |-> Recomputed[h].height])
    BY <1>1, <2>1, <2>3 DEF HighestLeaves, Height
  <2> QED BY <1>3, <2>4 DEF BestTips, BestAmong
<1> QED BY <1>2, <1>3

\* There is one genesis block and no invalid block.
LEMMA Verifies ==
    ASSUME IInv
    PROVE  VerifySucceeds
<1>1. \A h \in Stored : Recomputed[h] # NoState
  BY RecomputedIsStates DEF IInv, TypeOK, Height, NoState
<1>2. Cardinality({h \in Stored : Parent(h) = NoHash}) <= 1
  <2>1. CASE {h \in Stored : Parent(h) = NoHash} = {}
    BY <2>1, FS_EmptySet
  <2>2. CASE {h \in Stored : Parent(h) = NoHash} # {}
    <3>1. PICK g \in Stored : {h \in Stored : Parent(h) = NoHash} = {g}
      BY <2>2 DEF IInv, TreeIsSound
    <3>2. Cardinality({g}) = 1
      BY FS_Singleton
    <3> QED BY <3>1, <3>2
  <2> QED BY <2>1, <2>2
<1> QED BY <1>1, <1>2 DEF VerifySucceeds

----------------------------------------------------------------------------
(* The specification.                                                      *)

\* A step adds one acceptable block or keeps the tree, its states and the tip.
LEMMA StepAddsOrKeeps ==
    ASSUME IInv, [Next]_vars
    PROVE  \/ \E hash \in Hashes : \E block : AddBlock(hash, block)
           \/ UNCHANGED <<blocks, states, mainTip>>
<1>1. ASSUME NEW hash \in Hashes, ReceiveBlock(hash)
      PROVE  \E block : AddBlock(hash, block)
  BY <1>1 DEF ReceiveBlock
<1>2. ASSUME NEW tx \in Transactions, AddTransaction(tx)
      PROVE  UNCHANGED <<blocks, states, mainTip>>
  BY <1>2 DEF AddTransaction
<1>3. ASSUME NEW miner \in Miners, StartMining(miner)
      PROVE  UNCHANGED <<blocks, states, mainTip>>
  BY <1>3 DEF StartMining, chainVars
<1>4. ASSUME NEW hash \in Hashes, FinishMining(hash)
      PROVE  \E block : AddBlock(hash, block)
  BY <1>4 DEF FinishMining
<1>5. CASE AbandonMining
  BY <1>5 DEF AbandonMining, chainVars
<1>6. CASE VerifyChain
  BY <1>6, RecomputedIsStates, BestTipIsMainTip DEF VerifyChain
<1>7. CASE UNCHANGED vars
  BY <1>7 DEF vars
<1> QED BY <1>1, <1>2, <1>3, <1>4, <1>5, <1>6, <1>7 DEF Next

LEMMA NextIInv == IInv /\ [Next]_vars => IInv'
BY StepAddsOrKeeps, AddBlockIInv, KeepIInv

\* The inductive invariant holds of every reachable state.
THEOREM IInvHolds == Spec => []IInv
<1> QED BY InitIInv, NextIInv, PTL DEF Spec

\* verify_chain, which recomputes the node's state from its blocks, always
\* succeeds and changes nothing.
THEOREM VerificationChangesNothing == Spec => []VerifyAgrees
<1>1. IInv => VerifyAgrees
  BY RecomputedIsStates, BestTipIsMainTip, Verifies DEF VerifyAgrees
<1> QED BY <1>1, IInvHolds, PTL

----------------------------------------------------------------------------
(* The refinement.                                                         *)

\* Blocks and states, once stored, stay as they are.
LEMMA HistoryStays ==
    ASSUME IInv, [Next]_vars, NEW h \in Stored
    PROVE  h \in Stored' /\ blocks'[h] = blocks[h] /\ states'[h] = states[h]
<1>1. ASSUME NEW hash \in Hashes, NEW block, AddBlock(hash, block)
      PROVE  h \in Stored' /\ blocks'[h] = blocks[h] /\ states'[h] = states[h]
  <2>1. hash \notin Stored /\ DOMAIN states = Stored
    BY <1>1 DEF AddBlock, Accepts, IInv, TypeOK
  <2> QED BY <1>1, <2>1 DEF AddBlock, StatesWith, With, Stored
<1>2. CASE UNCHANGED <<blocks, states, mainTip>>
  BY <1>2 DEF Stored
<1> QED BY <1>1, <1>2, StepAddsOrKeeps

\* The main tip is only ever left for a strictly higher block.
LEMMA TipRises ==
    ASSUME IInv, [Next]_vars, mainTip' # mainTip, mainTip # NoHash
    PROVE  states'[mainTip'].height > states[mainTip].height
<1>1. PICK hash \in Hashes : \E block : AddBlock(hash, block)
  BY StepAddsOrKeeps
<1>2. PICK block : AddBlock(hash, block)
  BY <1>1
<1>3. mainTip' = hash /\ block.block_id > Height(mainTip)
  BY <1>2 DEF AddBlock, BecomesTip
<1>4. states'[hash].height = block.block_id
  BY <1>2 DEF AddBlock, Accepts, StatesWith, With, ChildState, IInv, TypeOK
<1> QED BY <1>3, <1>4 DEF Height

\* What the promise says of a state.
IsPromised == LC!IsTree(Tree) /\ mainTip \in LC!Highest(Tree)

\* The invariant says it, too.
LEMMA InvariantIsPromised == IInv => IsPromised
<1> SUFFICES ASSUME IInv
             PROVE  LC!IsTree(Tree) /\ mainTip \in LC!Highest(Tree)
  BY DEF IsPromised
<1>1. LC!IsTree(Tree)
  BY DEF LC!IsTree, Tree, IInv, TreeIsSound
<1>2. mainTip \in LC!Highest(Tree)
  BY DEF LC!Highest, Tree, IInv, TipIsSound, MainTipIsHighest
<1> QED BY <1>1, <1>2

LEMMA InitRefines == Init => LC!Init
BY DEF Init, LC!Init, Tree, Stored

LEMMA StepRefines ==
    ASSUME IInv, [Next]_vars
    PROVE  [LC!Grow]_<<Tree, mainTip>>
<1>1. IInv'
  BY NextIInv
<1>2. LC!Keeps(Tree, Tree')
  <2>1. ASSUME NEW h \in DOMAIN Tree
        PROVE  h \in DOMAIN Tree' /\ Tree'[h] = Tree[h]
    BY HistoryStays DEF Tree, Parent, Height, Stored
  <2> QED BY <2>1 DEF LC!Keeps
<1>3. IsPromised'
  BY <1>1, InvariantIsPromised, PTL
<1>4. ASSUME mainTip' # mainTip, mainTip # NoHash
      PROVE  Tree'[mainTip'].height > Tree[mainTip].height
  <2>1. states'[mainTip'].height > states[mainTip].height
    BY <1>4, TipRises
  <2>2. mainTip \in Stored /\ mainTip' \in Stored'
    BY <1>1, <1>4, HistoryStays DEF IInv, TipIsSound, MainTipIsHighest
  <2> QED BY <2>1, <2>2 DEF Tree, Height
<1> QED BY <1>2, <1>3, <1>4 DEF LC!Grow, IsPromised

\* The chain keeps the promise of LongestChain, whatever arrives.
THEOREM Refinement == Spec => ImplementsLongestChain
<1> QED BY IInvHolds, InitRefines, StepRefines, PTL DEF Spec, ImplementsLongestChain, LC!Spec

----------------------------------------------------------------------------
(* The transactions of a block, one after the other.                       *)

\* What ApplyInOrder has after n transactions, of f what it had before.
NextApplied(txs, ledger, height, f, n) ==
    IF n = 0
    THEN [ok |-> TRUE, ledger |-> ledger, fees |-> 0]
    ELSE IF f[n - 1].ok /\ CanApply(txs[n], f[n - 1].ledger)
         THEN [ ok     |-> TRUE,
                ledger |-> ApplyTransaction(txs[n], f[n - 1].ledger, height),
                fees   |-> f[n - 1].fees + FeePaid(txs[n], f[n - 1].ledger, height) ]
         ELSE [f[n - 1] EXCEPT !.ok = FALSE]

\* The recursion of ApplyInOrder has a solution.
LEMMA ApplyInOrderSolves ==
    ASSUME NEW txs, NEW ledger, NEW height, Len(txs) \in Nat
    PROVE  \E f : /\ f = [n \in 0 .. Len(txs) |-> NextApplied(txs, ledger, height, f, n)]
                  /\ ApplyInOrder(txs, ledger, height) = f[Len(txs)]
<1> DEFINE Next_(f, n) == NextApplied(txs, ledger, height, f, n)
           Solves(m, f) == f = [n \in 0 .. m |-> Next_(f, n)]
           Unsolved == {m \in Nat : ~\E f : Solves(m, f)}
<1>1. Unsolved = {}
  <2>1. SUFFICES ASSUME Unsolved # {} PROVE FALSE
    OBVIOUS
  <2>2. PICK m \in Unsolved : \A k \in Unsolved : m <= k
    <3> HIDE DEF Unsolved
    <3>1. Unsolved \in SUBSET Nat
      BY DEF Unsolved
    <3> QED BY <2>1, <3>1, LeastNatural
  <2>3. m \in Nat
    OBVIOUS
  <2>4. m # 0
    <3> DEFINE f0 == [n \in 0 .. 0 |-> [ok |-> TRUE, ledger |-> ledger, fees |-> 0]]
    <3>1. \A n \in 0 .. 0 : Next_(f0, n) = [ok |-> TRUE, ledger |-> ledger, fees |-> 0]
      BY DEF NextApplied
    <3> HIDE DEF Next_
    <3>2. Solves(0, f0)
      BY <3>1
    <3> QED BY <3>2
  <2>5. PICK g : Solves(m - 1, g)
    <3>1. m - 1 \in Nat /\ ~(m <= m - 1)
      BY <2>3, <2>4
    <3>2. m - 1 \notin Unsolved
      BY <3>1, <2>2
    <3> QED BY <3>1, <3>2
  <2> DEFINE f == [n \in 0 .. m |-> IF n = m THEN Next_(g, m) ELSE g[n]]
  <2>6. \A n \in 0 .. m : Next_(f, n) = Next_(g, n)
    <3> TAKE n \in 0 .. m
    <3>1. n # 0 => f[n - 1] = g[n - 1]
      BY <2>3
    <3> HIDE DEF f
    <3> QED BY <3>1 DEF NextApplied
  <2>7. \A n \in 0 .. m - 1 : g[n] = Next_(g, n)
    <3> HIDE DEF Next_
    <3> QED BY <2>5
  <2>8. \A n \in 0 .. m : f[n] = Next_(f, n)
    <3> HIDE DEF Next_
    <3> QED BY <2>3, <2>6, <2>7
  <2>9. Solves(m, f)
    <3> HIDE DEF Next_
    <3> QED BY <2>8
  <2> QED BY <2>9
<1>2. PICK f : Solves(Len(txs), f)
  BY <1>1
<1> DEFINE h == CHOOSE f_1 : f_1 = [n \in 0 .. Len(txs) |-> Next_(f_1, n)]
<1>3. ApplyInOrder(txs, ledger, height) = h[Len(txs)]
  BY DEF ApplyInOrder, NextApplied
<1>4. h = [n \in 0 .. Len(txs) |-> Next_(h, n)]
  <2> HIDE DEF Next_
  <2> QED BY <1>2
<1> HIDE DEF h
<1> QED BY <1>3, <1>4

----------------------------------------------------------------------------
(* Chains.                                                                 *)

\* A set of stored blocks has a lowest one, and its parent is not in the set.
LEMMA LowestBlock ==
    ASSUME IInv, NEW Bad \in SUBSET Stored, Bad # {}
    PROVE  \E h \in Bad : Parent(h) \in (Stored \ Bad) \cup {NoHash}
<1>1. \A h \in Stored : Height(h) \in Nat
  BY DEF IInv, TypeOK
<1>2. PICK least \in {Height(h) : h \in Bad} :
          \A height \in {Height(h) : h \in Bad} : least <= height
  <2>1. {Height(h) : h \in Bad} \in SUBSET Nat /\ {Height(h) : h \in Bad} # {}
    BY <1>1
  <2> QED BY <2>1, LeastNatural
<1>3. PICK h \in Bad : \A other \in Bad : Height(h) <= Height(other)
  BY <1>2
<1>4. Parent(h) = NoHash \/ (Parent(h) \in Stored /\ Height(h) = Height(Parent(h)) + 1)
  BY DEF IInv, TreeIsSound
<1> QED BY <1>1, <1>3, <1>4

\* A tree whose blocks, but for the first, have a parent exactly one lower.
IsTree(tree, height) ==
    /\ NoHash \notin DOMAIN tree
    /\ \E bound \in Nat : \A h \in DOMAIN tree : height[h] <= bound
    /\ \A h \in DOMAIN tree :
          /\ height[h] \in Nat
          /\ \/ tree[h].previous_hash = NoHash /\ height[h] = 0
             \/ /\ tree[h].previous_hash \in DOMAIN tree
                /\ height[h] = height[tree[h].previous_hash] + 1

\* Of f, the chain to a block's parent, and the block.
NextChain(tree, f, h) == IF h = NoHash THEN << >> ELSE Append(f[tree[h].previous_hash], h)

LEMMA ChainToSolves ==
    ASSUME NEW tree, NEW height, IsTree(tree, height)
    PROVE  \E f : /\ f = [h \in DOMAIN tree \cup {NoHash} |-> NextChain(tree, f, h)]
                  /\ \A h \in DOMAIN tree \cup {NoHash} : ChainTo(tree, h) = f[h]
<1> DEFINE Upto(m) == {h \in DOMAIN tree : height[h] < m}
           Solves(m, f) == f = [h \in Upto(m) \cup {NoHash} |-> NextChain(tree, f, h)]
           Unsolved == {m \in Nat : ~\E f : Solves(m, f)}
<1>1. /\ NoHash \notin DOMAIN tree
      /\ \A h \in DOMAIN tree :
            /\ height[h] \in Nat
            /\ \/ tree[h].previous_hash = NoHash
               \/ /\ tree[h].previous_hash \in DOMAIN tree
                  /\ height[h] = height[tree[h].previous_hash] + 1
  BY DEF IsTree
<1>2. Unsolved = {}
  <2>1. SUFFICES ASSUME Unsolved # {} PROVE FALSE
    OBVIOUS
  <2>2. PICK m \in Unsolved : \A k \in Unsolved : m <= k
    <3> HIDE DEF Unsolved
    <3>1. Unsolved \in SUBSET Nat
      BY DEF Unsolved
    <3> QED BY <2>1, <3>1, LeastNatural
  <2>3. m \in Nat
    OBVIOUS
  <2>4. m # 0
    <3> DEFINE f0 == [h \in {NoHash} |-> << >>]
    <3>1. \A h \in {NoHash} : NextChain(tree, f0, h) = << >>
      BY DEF NextChain
    <3>2. Upto(0) \cup {NoHash} = {NoHash}
      BY <1>1
    <3> HIDE DEF Upto
    <3>3. Solves(0, f0)
      BY <3>1, <3>2
    <3> QED BY <3>3
  <2>5. PICK g : Solves(m - 1, g)
    <3>1. m - 1 \in Nat /\ ~(m <= m - 1)
      BY <2>3, <2>4
    <3>2. m - 1 \notin Unsolved
      BY <3>1, <2>2
    <3> QED BY <3>1, <3>2
  <2> DEFINE f == [h \in Upto(m) \cup {NoHash} |-> NextChain(tree, g, h)]
  <2>6. \A h \in Upto(m - 1) \cup {NoHash} : g[h] = NextChain(tree, g, h)
    <3> HIDE DEF Upto
    <3> QED BY <2>5
  <2>7. \A h \in Upto(m - 1) \cup {NoHash} : h \in Upto(m) \cup {NoHash}
    BY <2>3, <1>1
  <2>8. \A h \in Upto(m) : tree[h].previous_hash \in Upto(m - 1) \cup {NoHash}
    BY <2>3, <1>1
  <2>9. \A h \in Upto(m) \cup {NoHash} : NextChain(tree, f, h) = NextChain(tree, g, h)
    <3> TAKE h \in Upto(m) \cup {NoHash}
    <3>1. CASE h = NoHash
      BY <3>1 DEF NextChain
    <3>2. CASE h # NoHash
      <4> HIDE DEF Upto
      <4>1. tree[h].previous_hash \in Upto(m - 1) \cup {NoHash}
        BY <2>8, <3>2
      <4>2. f[tree[h].previous_hash] = g[tree[h].previous_hash]
        BY <4>1, <2>6, <2>7
      <4> HIDE DEF f
      <4> QED BY <4>2 DEF NextChain
    <3> QED BY <3>1, <3>2
  <2>10. Solves(m, f)
    <3> HIDE DEF Upto
    <3> QED BY <2>9
  <2> HIDE DEF f
  <2> QED BY <2>10
<1>3. \E f : f = [h \in DOMAIN tree \cup {NoHash} |-> NextChain(tree, f, h)]
  <2>1. PICK bound \in Nat : \A h \in DOMAIN tree : height[h] <= bound
    BY DEF IsTree
  <2>2. bound + 1 \in Nat /\ Upto(bound + 1) = DOMAIN tree
    BY <1>1, <2>1
  <2>3. PICK f : Solves(bound + 1, f)
    <3> HIDE DEF Upto
    <3> QED BY <2>2, <1>2
  <2> HIDE DEF Upto
  <2> QED BY <2>2, <2>3
<1> DEFINE c == CHOOSE f : f = [h \in DOMAIN tree \cup {NoHash} |-> NextChain(tree, f, h)]
<1>4. c = [h \in DOMAIN tree \cup {NoHash} |-> NextChain(tree, c, h)]
  BY <1>3
<1>5. ASSUME NEW h \in DOMAIN tree \cup {NoHash}
      PROVE  ChainTo(tree, h) = c[h]
  BY DEF ChainTo, NextChain
<1> HIDE DEF c
<1> QED BY <1>4, <1>5

\* A set of blocks has a lowest one, and its parent is not in the set.
LEMMA LowestOf ==
    ASSUME NEW tree, NEW height, IsTree(tree, height), NEW Bad \in SUBSET DOMAIN tree, Bad # {}
    PROVE  \E h \in Bad : tree[h].previous_hash \in (DOMAIN tree \ Bad) \cup {NoHash}
<1>1. \A h \in DOMAIN tree : height[h] \in Nat
  BY DEF IsTree
<1>2. PICK least \in {height[h] : h \in Bad} : \A other \in {height[h] : h \in Bad} : least <= other
  <2>1. {height[h] : h \in Bad} \in SUBSET Nat /\ {height[h] : h \in Bad} # {}
    BY <1>1
  <2> QED BY <2>1, LeastNatural
<1>3. PICK h \in Bad : \A other \in Bad : height[h] <= height[other]
  BY <1>2
<1>4. \/ tree[h].previous_hash = NoHash
      \/ tree[h].previous_hash \in DOMAIN tree /\ height[h] = height[tree[h].previous_hash] + 1
  BY DEF IsTree
<1> QED BY <1>1, <1>3, <1>4

\* The chain to a block is the chain to its parent and the block.
LEMMA ChainsGrow ==
    ASSUME NEW tree, NEW height, IsTree(tree, height)
    PROVE  /\ ChainTo(tree, NoHash) = << >>
           /\ \A h \in DOMAIN tree :
                 ChainTo(tree, h) = Append(ChainTo(tree, tree[h].previous_hash), h)
           /\ \A h \in DOMAIN tree \cup {NoHash} : ChainTo(tree, h) \in Seq(DOMAIN tree)
<1>1. /\ NoHash \notin DOMAIN tree
      /\ \A h \in DOMAIN tree : tree[h].previous_hash \in DOMAIN tree \cup {NoHash}
  BY DEF IsTree
<1>2. /\ ChainTo(tree, NoHash) = << >>
      /\ \A h \in DOMAIN tree : ChainTo(tree, h) = Append(ChainTo(tree, tree[h].previous_hash), h)
  <2>1. PICK f : /\ f = [h \in DOMAIN tree \cup {NoHash} |-> NextChain(tree, f, h)]
                 /\ \A h \in DOMAIN tree \cup {NoHash} : ChainTo(tree, h) = f[h]
    BY ChainToSolves
  <2>2. \A h \in DOMAIN tree \cup {NoHash} : f[h] = NextChain(tree, f, h)
    BY <2>1
  <2> QED BY <1>1, <2>1, <2>2 DEF NextChain
<1> DEFINE Bad == {h \in DOMAIN tree : ChainTo(tree, h) \notin Seq(DOMAIN tree)}
<1>3. Bad = {}
  <2>1. SUFFICES ASSUME Bad # {} PROVE FALSE
    OBVIOUS
  <2>2. PICK h \in Bad : tree[h].previous_hash \in (DOMAIN tree \ Bad) \cup {NoHash}
    <3>1. Bad \in SUBSET DOMAIN tree
      OBVIOUS
    <3> HIDE DEF Bad
    <3> QED BY <2>1, <3>1, LowestOf
  <2> DEFINE up == ChainTo(tree, tree[h].previous_hash)
  <2>3. up \in Seq(DOMAIN tree)
    BY <1>2, <2>2
  <2>4. h \in DOMAIN tree /\ ChainTo(tree, h) = Append(up, h)
    BY <1>2
  <2> HIDE DEF up
  <2>5. ChainTo(tree, h) \in Seq(DOMAIN tree)
    BY <2>3, <2>4
  <2> QED BY <2>5
<1>4. ChainTo(tree, NoHash) \in Seq(DOMAIN tree)
  BY <1>2
<1>5. \A h \in DOMAIN tree : ChainTo(tree, h) \in Seq(DOMAIN tree)
  BY <1>3
<1> QED BY <1>2, <1>4, <1>5

\* The blocks of a chain are one higher each, and each the parent of the next.
IsChain(tree, height, c, h) ==
    /\ c \in Seq(DOMAIN tree)
    /\ Len(c) = height[h] + 1 /\ c[Len(c)] = h
    /\ \A i \in 1 .. Len(c) :
          /\ height[c[i]] = i - 1
          /\ tree[c[i]].previous_hash = IF i = 1 THEN NoHash ELSE c[i - 1]

LEMMA ChainShape ==
    ASSUME NEW tree, NEW height, IsTree(tree, height), NEW g \in DOMAIN tree
    PROVE  IsChain(tree, height, ChainTo(tree, g), g)
<1> DEFINE Good(h) == IsChain(tree, height, ChainTo(tree, h), h)
           Bad == {h \in DOMAIN tree : ~Good(h)}
<1>1. Bad = {}
  <2>1. SUFFICES ASSUME Bad # {} PROVE FALSE
    OBVIOUS
  <2>2. PICK h \in Bad : tree[h].previous_hash \in (DOMAIN tree \ Bad) \cup {NoHash}
    <3> HIDE DEF Good
    <3>1. Bad \in SUBSET DOMAIN tree
      OBVIOUS
    <3> HIDE DEF Bad
    <3> QED BY <2>1, <3>1, LowestOf
  <2> DEFINE up == tree[h].previous_hash
             b  == ChainTo(tree, up)
             c  == ChainTo(tree, h)
  <2>3. /\ h \in DOMAIN tree /\ ~Good(h) /\ height[h] \in Nat
        /\ NoHash \notin DOMAIN tree
        /\ \/ up = NoHash /\ height[h] = 0
           \/ up \in DOMAIN tree /\ height[h] = height[up] + 1 /\ height[up] \in Nat
    BY DEF IsTree
  <2>4. /\ ChainTo(tree, NoHash) = << >>
        /\ c = Append(b, h) /\ b \in Seq(DOMAIN tree)
    BY <2>3, ChainsGrow
  <2>5. up # NoHash => IsChain(tree, height, b, up)
    BY <2>2
  <2> HIDE DEF up, b, c
  <2>6. Len(b) = height[h]
    <3>1. CASE up = NoHash
      BY <3>1, <2>3, <2>4 DEF b
    <3>2. CASE up # NoHash
      BY <3>2, <2>3, <2>5 DEF IsChain
    <3> QED BY <3>1, <3>2
  <2>7. /\ c \in Seq(DOMAIN tree) /\ Len(c) = height[h] + 1 /\ c[Len(c)] = h
        /\ \A i \in 1 .. Len(b) : c[i] = b[i]
    BY <2>3, <2>4, <2>6
  <2>8. ASSUME NEW i \in 1 .. Len(c)
        PROVE  /\ height[c[i]] = i - 1
               /\ tree[c[i]].previous_hash = IF i = 1 THEN NoHash ELSE c[i - 1]
    <3>1. CASE i = Len(c)
      <4>1. c[i] = h /\ height[c[i]] = i - 1 /\ tree[c[i]].previous_hash = up
        BY <3>1, <2>3, <2>7 DEF up
      <4>2. CASE up = NoHash
        BY <3>1, <4>1, <4>2, <2>3, <2>7
      <4>3. CASE up # NoHash
        <5>1. Len(b) \in Nat /\ Len(b) # 0 /\ b[Len(b)] = up
          BY <4>3, <2>3, <2>5, <2>6 DEF IsChain
        <5>2. i # 1 /\ i - 1 = Len(b) /\ i - 1 \in 1 .. Len(b)
          BY <3>1, <5>1, <2>6, <2>7
        <5> QED BY <4>1, <5>1, <5>2, <2>7
      <4> QED BY <4>2, <4>3
    <3>2. CASE i # Len(c)
      <4>1. i \in 1 .. Len(b) /\ Len(b) \in Nat
        BY <3>2, <2>3, <2>6, <2>7
      <4>2. up # NoHash
        BY <4>1, <2>3, <2>6
      <4>3. height[b[i]] = i - 1 /\ tree[b[i]].previous_hash = IF i = 1 THEN NoHash ELSE b[i - 1]
        BY <4>1, <4>2, <2>5 DEF IsChain
      <4>4. c[i] = b[i] /\ (i # 1 => c[i - 1] = b[i - 1])
        BY <4>1, <2>7
      <4> QED BY <4>3, <4>4
    <3> QED BY <3>1, <3>2
  <2>9. Good(h)
    BY <2>7, <2>8 DEF IsChain, c
  <2> QED BY <2>3, <2>9
<1> QED BY <1>1

\* A tree that has more blocks has the same chains to those of this one.
LEMMA ChainsStay ==
    ASSUME NEW tree, NEW height, IsTree(tree, height), NEW more, NEW heights,
           IsTree(more, heights), DOMAIN tree \subseteq DOMAIN more,
           \A h \in DOMAIN tree : more[h].previous_hash = tree[h].previous_hash
    PROVE  \A h \in DOMAIN tree \cup {NoHash} : ChainTo(more, h) = ChainTo(tree, h)
<1> DEFINE Bad == {h \in DOMAIN tree : ChainTo(more, h) # ChainTo(tree, h)}
<1>1. /\ ChainTo(tree, NoHash) = << >> /\ ChainTo(more, NoHash) = << >>
      /\ \A h \in DOMAIN tree :
            /\ ChainTo(tree, h) = Append(ChainTo(tree, tree[h].previous_hash), h)
            /\ ChainTo(more, h) = Append(ChainTo(more, tree[h].previous_hash), h)
  <2>1. /\ ChainTo(tree, NoHash) = << >>
        /\ \A h \in DOMAIN tree :
              ChainTo(tree, h) = Append(ChainTo(tree, tree[h].previous_hash), h)
    BY ChainsGrow
  <2>2. /\ ChainTo(more, NoHash) = << >>
        /\ \A h \in DOMAIN more :
              ChainTo(more, h) = Append(ChainTo(more, more[h].previous_hash), h)
    BY ChainsGrow
  <2> QED BY <2>1, <2>2
<1>2. Bad = {}
  <2>1. SUFFICES ASSUME Bad # {} PROVE FALSE
    OBVIOUS
  <2>2. PICK h \in Bad : tree[h].previous_hash \in (DOMAIN tree \ Bad) \cup {NoHash}
    <3>1. Bad \in SUBSET DOMAIN tree
      OBVIOUS
    <3> HIDE DEF Bad
    <3> QED BY <2>1, <3>1, LowestOf
  <2>3. ChainTo(more, tree[h].previous_hash) = ChainTo(tree, tree[h].previous_hash)
    BY <1>1, <2>2
  <2> QED BY <1>1, <2>2, <2>3
<1> QED BY <1>1, <1>2

\* The ancestors of a block: itself and those of its parent.
LEMMA AncestorsGrow ==
    ASSUME NEW tree, NEW height, IsTree(tree, height)
    PROVE  /\ ToSet(ChainTo(tree, NoHash)) = {}
           /\ \A h \in DOMAIN tree :
                 ToSet(ChainTo(tree, h)) = ToSet(ChainTo(tree, tree[h].previous_hash)) \cup {h}
<1>1. /\ ChainTo(tree, NoHash) = << >>
      /\ \A h \in DOMAIN tree :
            ChainTo(tree, h) = Append(ChainTo(tree, tree[h].previous_hash), h)
      /\ \A h \in DOMAIN tree \cup {NoHash} : ChainTo(tree, h) \in Seq(DOMAIN tree)
  BY ChainsGrow
<1>2. ToSet(ChainTo(tree, NoHash)) = {}
  BY <1>1 DEF ToSet
<1>3. ASSUME NEW h \in DOMAIN tree
      PROVE  ToSet(ChainTo(tree, h)) = ToSet(ChainTo(tree, tree[h].previous_hash)) \cup {h}
  <2> DEFINE b == ChainTo(tree, tree[h].previous_hash)
             c == ChainTo(tree, h)
  <2>1. c = Append(b, h) /\ b \in Seq(DOMAIN tree)
    BY <1>1 DEF IsTree
  <2> HIDE DEF b, c
  <2>2. /\ DOMAIN b = 1 .. Len(b) /\ Len(b) \in Nat /\ DOMAIN c = 1 .. Len(b) + 1
        /\ c[Len(b) + 1] = h /\ \A i \in 1 .. Len(b) : c[i] = b[i]
    BY <2>1
  <2>3. ToSet(c) = ToSet(b) \cup {h}
    <3>1. \A x \in ToSet(c) : x \in ToSet(b) \cup {h}
      BY <2>2 DEF ToSet
    <3>2. \A x \in ToSet(b) \cup {h} : x \in ToSet(c)
      BY <2>2 DEF ToSet
    <3> QED BY <3>1, <3>2
  <2> QED BY <2>3 DEF b, c
<1> QED BY <1>2, <1>3

LEMMA AncestorsOfAncestors ==
    ASSUME NEW tree, NEW height, IsTree(tree, height), NEW h \in DOMAIN tree \cup {NoHash},
           NEW a \in ToSet(ChainTo(tree, h))
    PROVE  a \in DOMAIN tree /\ ToSet(ChainTo(tree, a)) \subseteq ToSet(ChainTo(tree, h))
<1> DEFINE Anc(b) == ToSet(ChainTo(tree, b))
           Bad == {b \in DOMAIN tree :
                     ~\A x \in Anc(b) : x \in DOMAIN tree /\ Anc(x) \subseteq Anc(b)}
<1>1. /\ Anc(NoHash) = {}
      /\ \A b \in DOMAIN tree : Anc(b) = Anc(tree[b].previous_hash) \cup {b}
  BY AncestorsGrow
<1> HIDE DEF Anc
<1>2. Bad = {}
  <2>1. SUFFICES ASSUME Bad # {} PROVE FALSE
    OBVIOUS
  <2>2. PICK b \in Bad : tree[b].previous_hash \in (DOMAIN tree \ Bad) \cup {NoHash}
    <3>1. Bad \in SUBSET DOMAIN tree
      OBVIOUS
    <3> HIDE DEF Bad
    <3> QED BY <2>1, <3>1, LowestOf
  <2>3. \A x \in Anc(tree[b].previous_hash) :
            x \in DOMAIN tree /\ Anc(x) \subseteq Anc(tree[b].previous_hash)
    BY <1>1, <2>2
  <2> QED BY <1>1, <2>2, <2>3
<1> QED BY <1>1, <1>2 DEF Anc

HeightOf == [h \in Stored |-> Height(h)]

LEMMA BlocksAreTree ==
    ASSUME IInv
    PROVE  IsTree(blocks, HeightOf)
<1>1. NoHash \notin Stored
  BY NoHashAssumption DEF IInv, TypeOK
<1>2. ASSUME NEW h \in Stored
      PROVE  /\ HeightOf[h] \in Nat
             /\ \/ blocks[h].previous_hash = NoHash /\ HeightOf[h] = 0
                \/ /\ blocks[h].previous_hash \in Stored
                   /\ HeightOf[h] = HeightOf[blocks[h].previous_hash] + 1
  BY DEF IInv, TypeOK, TreeIsSound, HeightOf, Parent
<1>3. \E bound \in Nat : \A h \in Stored : HeightOf[h] <= bound
  <2>1. CASE Stored = {}
    BY <2>1
  <2>2. CASE Stored # {}
    <3>1. mainTip \in Stored /\ \A h \in Stored : Height(h) <= Height(mainTip)
      BY <2>2 DEF IInv, TipIsSound, MainTipIsHighest
    <3>2. Height(mainTip) \in Nat
      BY <3>1 DEF IInv, TypeOK
    <3> QED BY <3>1, <3>2 DEF HeightOf
  <2> QED BY <2>1, <2>2
<1> QED BY <1>1, <1>2, <1>3 DEF IsTree, Stored

\* The chain to a stored block is the chain to its parent and the block.
LEMMA ChainGrows ==
    ASSUME IInv
    PROVE  /\ ChainTo(blocks, NoHash) = << >>
           /\ \A h \in Stored : ChainTo(blocks, h) = Append(ChainTo(blocks, Parent(h)), h)
           /\ \A h \in Stored \cup {NoHash} : ChainTo(blocks, h) \in Seq(Stored)
BY BlocksAreTree, ChainsGrow DEF Stored, Parent

----------------------------------------------------------------------------
(* Sequences.                                                              *)

\* A list, of whatever.
IsSeq(s) == \E S : s \in Seq(S)

LEMMA SeqLength ==
    ASSUME NEW s, IsSeq(s)
    PROVE  Len(s) \in Nat /\ DOMAIN s = 1 .. Len(s)
BY DEF IsSeq

LEMMA EmptyIsSeq == IsSeq(<< >>)
<1>1. << >> \in Seq({})
  OBVIOUS
<1> QED BY <1>1 DEF IsSeq

LEMMA AppendIsSeq ==
    ASSUME NEW s, IsSeq(s), NEW x
    PROVE  /\ IsSeq(Append(s, x))
           /\ Len(Append(s, x)) = Len(s) + 1
           /\ \A i \in 1 .. Len(s) : Append(s, x)[i] = s[i]
           /\ Append(s, x)[Len(s) + 1] = x
<1>1. PICK S : s \in Seq(S)
  BY DEF IsSeq
<1>2. s \in Seq(S \cup {x})
  BY <1>1
<1>3. Append(s, x) \in Seq(S \cup {x})
  BY <1>2
<1> QED BY <1>1, <1>2, <1>3 DEF IsSeq

LEMMA JoinIsSeq ==
    ASSUME NEW s, IsSeq(s), NEW t, IsSeq(t)
    PROVE  IsSeq(s \o t)
<1>1. PICK S : s \in Seq(S)
  BY DEF IsSeq
<1>2. PICK T : t \in Seq(T)
  BY DEF IsSeq
<1>3. s \in Seq(S \cup T) /\ t \in Seq(S \cup T)
  BY <1>1, <1>2
<1>4. s \o t \in Seq(S \cup T)
  BY <1>3
<1> QED BY <1>4 DEF IsSeq

\* What Without has after n transactions, of f what it had before.
NextWithout(txs, known, f, n) ==
    IF n = 0
    THEN << >>
    ELSE IF txs[n] \in known THEN f[n - 1] ELSE Append(f[n - 1], txs[n])

\* The recursion of Without has a solution.
LEMMA WithoutSolves ==
    ASSUME NEW txs, NEW known, Len(txs) \in Nat
    PROVE  \E f : /\ f = [n \in 0 .. Len(txs) |-> NextWithout(txs, known, f, n)]
                  /\ Without(txs, known) = f[Len(txs)]
<1> DEFINE Next_(f, n) == NextWithout(txs, known, f, n)
           Solves(m, f) == f = [n \in 0 .. m |-> Next_(f, n)]
           Unsolved == {m \in Nat : ~\E f : Solves(m, f)}
<1>1. Unsolved = {}
  <2>1. SUFFICES ASSUME Unsolved # {} PROVE FALSE
    OBVIOUS
  <2>2. PICK m \in Unsolved : \A k \in Unsolved : m <= k
    <3> HIDE DEF Unsolved
    <3>1. Unsolved \in SUBSET Nat
      BY DEF Unsolved
    <3> QED BY <2>1, <3>1, LeastNatural
  <2>3. m \in Nat
    OBVIOUS
  <2>4. m # 0
    <3> DEFINE f0 == [n \in 0 .. 0 |-> << >>]
    <3>1. \A n \in 0 .. 0 : Next_(f0, n) = << >>
      BY DEF NextWithout
    <3> HIDE DEF Next_
    <3>2. Solves(0, f0)
      BY <3>1
    <3> QED BY <3>2
  <2>5. PICK g : Solves(m - 1, g)
    <3>1. m - 1 \in Nat /\ ~(m <= m - 1)
      BY <2>3, <2>4
    <3>2. m - 1 \notin Unsolved
      BY <3>1, <2>2
    <3> QED BY <3>1, <3>2
  <2> DEFINE f == [n \in 0 .. m |-> IF n = m THEN Next_(g, m) ELSE g[n]]
  <2>6. \A n \in 0 .. m : Next_(f, n) = Next_(g, n)
    <3> TAKE n \in 0 .. m
    <3>1. n # 0 => f[n - 1] = g[n - 1]
      BY <2>3
    <3> HIDE DEF f
    <3> QED BY <3>1 DEF NextWithout
  <2>7. \A n \in 0 .. m - 1 : g[n] = Next_(g, n)
    <3> HIDE DEF Next_
    <3> QED BY <2>5
  <2>8. \A n \in 0 .. m : f[n] = Next_(f, n)
    <3> HIDE DEF Next_
    <3> QED BY <2>3, <2>6, <2>7
  <2>9. Solves(m, f)
    <3> HIDE DEF Next_
    <3> QED BY <2>8
  <2> QED BY <2>9
<1>2. PICK f : Solves(Len(txs), f)
  BY <1>1
<1> DEFINE h == CHOOSE f_1 : f_1 = [n \in 0 .. Len(txs) |-> Next_(f_1, n)]
<1>3. Without(txs, known) = h[Len(txs)]
  BY DEF Without, NextWithout
<1>4. h = [n \in 0 .. Len(txs) |-> Next_(h, n)]
  <2> HIDE DEF Next_
  <2> QED BY <1>2
<1> HIDE DEF h
<1> QED BY <1>3, <1>4

LEMMA WithoutIsSeq ==
    ASSUME NEW txs, IsSeq(txs), NEW known
    PROVE  IsSeq(Without(txs, known))
<1>1. PICK f : /\ f = [n \in 0 .. Len(txs) |-> NextWithout(txs, known, f, n)]
               /\ Without(txs, known) = f[Len(txs)]
  BY SeqLength, WithoutSolves
<1>2. \A n \in 0 .. Len(txs) : f[n] = NextWithout(txs, known, f, n)
  BY <1>1
<1> DEFINE Bad == {n \in 0 .. Len(txs) : ~IsSeq(f[n])}
<1>3. Bad = {}
  <2>1. SUFFICES ASSUME Bad # {} PROVE FALSE
    OBVIOUS
  <2>2. PICK n \in Bad : \A k \in Bad : n <= k
    <3>1. Bad \in SUBSET Nat
      BY SeqLength
    <3> HIDE DEF Bad
    <3> QED BY <2>1, <3>1, LeastNatural
  <2>3. n \in 0 .. Len(txs) /\ ~IsSeq(f[n]) /\ n \in Nat
    BY SeqLength
  <2>4. f[n] = NextWithout(txs, known, f, n)
    BY <1>2, <2>3
  <2>5. n # 0
    <3>1. n = 0 => f[n] = << >>
      BY <2>4 DEF NextWithout
    <3> QED BY <2>3, <3>1, EmptyIsSeq
  <2>6. IsSeq(f[n - 1])
    <3>1. n - 1 \in 0 .. Len(txs) /\ ~(n <= n - 1)
      BY <2>3, <2>5
    <3> QED BY <2>2, <3>1
  <2>7. f[n] \in {f[n - 1], Append(f[n - 1], txs[n])}
    BY <2>3, <2>4, <2>5 DEF NextWithout
  <2>8. IsSeq(Append(f[n - 1], txs[n]))
    <3> HIDE DEF Bad
    <3> QED BY <2>6, AppendIsSeq
  <2> QED BY <2>3, <2>6, <2>7, <2>8
<1> QED BY <1>1, <1>3, SeqLength

----------------------------------------------------------------------------
(* The transactions kept in the pool apply.                                *)

LEMMA ApplyNothing ==
    ASSUME NEW l, NEW height
    PROVE  ApplyInOrder(<< >>, l, height) = [ok |-> TRUE, ledger |-> l, fees |-> 0]
<1>1. Len(<< >>) = 0
  OBVIOUS
<1>2. PICK f : /\ f = [n \in 0 .. 0 |-> NextApplied(<< >>, l, height, f, n)]
               /\ ApplyInOrder(<< >>, l, height) = f[0]
  BY <1>1, ApplyInOrderSolves
<1>3. f[0] = NextApplied(<< >>, l, height, f, 0)
  BY <1>2
<1>4. f[0] = [ok |-> TRUE, ledger |-> l, fees |-> 0]
  BY <1>3 DEF NextApplied
<1> QED BY <1>2, <1>4

FirstOf(txs, n) == SubSeq(txs, 1, n)

\* The first of several that all apply.
LEMMA ApplyPrefix ==
    ASSUME NEW txs, IsSeq(txs), NEW l, NEW height, ApplyInOrder(txs, l, height).ok,
           NEW n \in 0 .. Len(txs)
    PROVE  /\ Len(FirstOf(txs, n)) = n
           /\ \A i \in 1 .. n : FirstOf(txs, n)[i] = txs[i]
           /\ ApplyInOrder(FirstOf(txs, n), l, height).ok
<1> DEFINE first == FirstOf(txs, n)
<1>1. Len(txs) \in Nat
  BY SeqLength
<1>2. Len(first) = n /\ \A i \in 1 .. n : first[i] = txs[i]
  <2>1. PICK S : txs \in Seq(S)
    BY DEF IsSeq
  <2> QED BY <1>1, <2>1 DEF FirstOf
<1> HIDE DEF first
<1>3. PICK f : /\ \A k \in 0 .. Len(txs) : f[k] = NextApplied(txs, l, height, f, k)
               /\ ApplyInOrder(txs, l, height) = f[Len(txs)]
  <2>1. PICK f : /\ f = [k \in 0 .. Len(txs) |-> NextApplied(txs, l, height, f, k)]
                 /\ ApplyInOrder(txs, l, height) = f[Len(txs)]
    BY <1>1, ApplyInOrderSolves
  <2>2. \A k \in 0 .. Len(txs) : f[k] = NextApplied(txs, l, height, f, k)
    BY <2>1
  <2> QED BY <2>1, <2>2
<1>4. PICK g : /\ \A k \in 0 .. n : g[k] = NextApplied(first, l, height, g, k)
               /\ ApplyInOrder(first, l, height) = g[n]
  <2>1. Len(first) \in Nat
    BY <1>2
  <2>2. PICK g : /\ g = [k \in 0 .. Len(first) |-> NextApplied(first, l, height, g, k)]
                 /\ ApplyInOrder(first, l, height) = g[Len(first)]
    BY ONLY <2>1, ApplyInOrderSolves
  <2>3. \A k \in 0 .. Len(first) : g[k] = NextApplied(first, l, height, g, k)
    BY <2>2
  <2> QED BY <1>2, <2>2, <2>3
<1> DEFINE Same == {k \in 0 .. n : g[k] = f[k]}
           Fine == {k \in 0 .. Len(txs) : f[Len(txs) - k].ok}
<1>5. 0 \in Same
  <2>1. f[0] = NextApplied(txs, l, height, f, 0) /\ g[0] = NextApplied(first, l, height, g, 0)
    BY <1>1, <1>3, <1>4
  <2> QED BY <2>1 DEF NextApplied
<1>6. ASSUME NEW k \in 0 .. n, k # n, k \in Same
      PROVE  k + 1 \in Same
  <2> DEFINE next == k + 1
  <2>1. /\ next \in 0 .. n /\ next \in 0 .. Len(txs) /\ next # 0
        /\ first[next] = txs[next] /\ g[next - 1] = f[next - 1]
    BY <1>1, <1>2, <1>6
  <2> HIDE DEF next
  <2>2. /\ f[next] = NextApplied(txs, l, height, f, next)
        /\ g[next] = NextApplied(first, l, height, g, next)
    BY <1>3, <1>4, <2>1
  <2>3. g[next] = f[next]
    BY ONLY <2>1, <2>2 DEF NextApplied
  <2> QED BY <2>1, <2>3 DEF next
<1>7. g[n] = f[n]
  <2>1. n \in Nat
    OBVIOUS
  <2> HIDE DEF Same
  <2>2. 0 .. n \subseteq Same
    BY <1>5, <1>6, <2>1, HoldsUpTo
  <2> QED BY <2>1, <2>2 DEF Same
<1>8. 0 \in Fine
  BY <1>1, <1>3
<1>9. ASSUME NEW k \in 0 .. Len(txs), k # Len(txs), k \in Fine
      PROVE  k + 1 \in Fine
  <2> DEFINE j == Len(txs) - k
  <2>1. /\ j \in 0 .. Len(txs) /\ j # 0 /\ f[j].ok /\ k + 1 \in 0 .. Len(txs)
        /\ j - 1 = Len(txs) - (k + 1)
    BY <1>1, <1>9
  <2> HIDE DEF j
  <2>2. f[j] = NextApplied(txs, l, height, f, j)
    BY <1>3, <2>1
  <2>3. CASE f[j - 1].ok
    BY <2>1, <2>3
  <2>4. CASE ~f[j - 1].ok
    <3>1. f[j] = [f[j - 1] EXCEPT !.ok = FALSE]
      BY <2>1, <2>2, <2>4 DEF NextApplied
    <3> QED BY <2>1, <3>1
  <2> QED BY <2>3, <2>4
<1>10. f[n].ok
  <2> DEFINE m == Len(txs) - n
  <2>1. m \in 0 .. Len(txs) /\ Len(txs) - m = n
    BY <1>1
  <2> HIDE DEF Fine, m
  <2>2. 0 .. Len(txs) \subseteq Fine
    BY <1>1, <1>8, <1>9, HoldsUpTo
  <2>3. m \in Fine
    BY <2>1, <2>2
  <2> QED BY <2>1, <2>3 DEF Fine
<1> QED BY <1>2, <1>4, <1>7, <1>10 DEF first

\* One more transaction that applies after those before.
LEMMA ApplyOneMore ==
    ASSUME NEW txs, IsSeq(txs), NEW l, NEW height, NEW tx,
           ApplyInOrder(txs, l, height).ok,
           CanApply(tx, ApplyInOrder(txs, l, height).ledger)
    PROVE  LET r == ApplyInOrder(Append(txs, tx), l, height)
           IN  /\ r.ok
               /\ r.ledger = ApplyTransaction(tx, ApplyInOrder(txs, l, height).ledger, height)
<1> DEFINE more == Append(txs, tx)
<1>1. /\ Len(txs) \in Nat
      /\ Len(more) = Len(txs) + 1
      /\ \A i \in 1 .. Len(txs) : more[i] = txs[i]
      /\ more[Len(txs) + 1] = tx
  BY SeqLength, AppendIsSeq
<1> HIDE DEF more
<1>2. PICK f : /\ f = [n \in 0 .. Len(txs) |-> NextApplied(txs, l, height, f, n)]
               /\ ApplyInOrder(txs, l, height) = f[Len(txs)]
  BY <1>1, ApplyInOrderSolves
<1>3. PICK g : /\ g = [n \in 0 .. Len(more) |-> NextApplied(more, l, height, g, n)]
               /\ ApplyInOrder(more, l, height) = g[Len(more)]
  BY <1>1, ApplyInOrderSolves
<1>4. \A n \in 0 .. Len(txs) : f[n] = NextApplied(txs, l, height, f, n)
  BY <1>2
<1>5. \A n \in 0 .. Len(txs) + 1 : g[n] = NextApplied(more, l, height, g, n)
  BY <1>1, <1>3
<1> DEFINE Bad == {n \in 0 .. Len(txs) : f[n] # g[n]}
<1>6. Bad = {}
  <2>1. SUFFICES ASSUME Bad # {} PROVE FALSE
    OBVIOUS
  <2>2. PICK n \in Bad : \A k \in Bad : n <= k
    <3>1. Bad \in SUBSET Nat
      BY <1>1
    <3> HIDE DEF Bad
    <3> QED BY <2>1, <3>1, LeastNatural
  <2>3. n \in 0 .. Len(txs) /\ f[n] # g[n] /\ n \in Nat /\ n \in 0 .. Len(txs) + 1
    BY <1>1
  <2>4. f[n] = NextApplied(txs, l, height, f, n) /\ g[n] = NextApplied(more, l, height, g, n)
    BY <1>4, <1>5, <2>3
  <2>5. n # 0
    <3>1. n = 0 => f[n] = g[n]
      BY <2>4 DEF NextApplied
    <3> QED BY <2>3, <3>1
  <2>6. f[n - 1] = g[n - 1]
    <3>1. n - 1 \in 0 .. Len(txs) /\ ~(n <= n - 1)
      BY <2>3, <2>5
    <3> QED BY <2>2, <3>1
  <2>7. more[n] = txs[n]
    BY <1>1, <2>3, <2>5
  <2>8. NextApplied(txs, l, height, f, n) = NextApplied(more, l, height, g, n)
    BY <2>6, <2>7 DEF NextApplied
  <2> QED BY <2>3, <2>4, <2>8
<1> DEFINE last == Len(txs) + 1
<1>7. /\ last \in 0 .. last /\ last # 0 /\ last - 1 = Len(txs)
      /\ g[last] = NextApplied(more, l, height, g, last)
      /\ more[last] = tx
  BY <1>1, <1>5
<1>8. g[last - 1] = ApplyInOrder(txs, l, height)
  BY <1>1, <1>2, <1>6, <1>7
<1> DEFINE before == ApplyInOrder(txs, l, height)
<1> HIDE DEF last, before
<1>9. g[last] = [ ok     |-> TRUE,
                  ledger |-> ApplyTransaction(tx, before.ledger, height),
                  fees   |-> before.fees + FeePaid(tx, before.ledger, height) ]
  BY <1>7, <1>8 DEF NextApplied, before
<1> QED BY <1>1, <1>3, <1>9 DEF last, before, more

\* What KeepApplicable has after n transactions, of f what it had before.
NextKept(txs, ledger, height, limit, f, n) ==
    IF n = 0
    THEN [kept |-> << >>, rest |-> << >>, ledger |-> ledger]
    ELSE IF Len(f[n - 1].kept) < limit /\ CanApply(txs[n], f[n - 1].ledger)
         THEN [f[n - 1] EXCEPT !.kept = Append(@, txs[n]),
                               !.ledger = ApplyTransaction(txs[n], f[n - 1].ledger, height)]
         ELSE [f[n - 1] EXCEPT !.rest = Append(@, txs[n])]

\* The recursion of KeepApplicable has a solution.
LEMMA KeepApplicableSolves ==
    ASSUME NEW txs, NEW ledger, NEW height, NEW limit, Len(txs) \in Nat
    PROVE  \E f : /\ f = [n \in 0 .. Len(txs) |-> NextKept(txs, ledger, height, limit, f, n)]
                  /\ KeepApplicable(txs, ledger, height, limit) = f[Len(txs)]
<1> DEFINE Next_(f, n) == NextKept(txs, ledger, height, limit, f, n)
           Solves(m, f) == f = [n \in 0 .. m |-> Next_(f, n)]
           Unsolved == {m \in Nat : ~\E f : Solves(m, f)}
<1>1. Unsolved = {}
  <2>1. SUFFICES ASSUME Unsolved # {} PROVE FALSE
    OBVIOUS
  <2>2. PICK m \in Unsolved : \A k \in Unsolved : m <= k
    <3> HIDE DEF Unsolved
    <3>1. Unsolved \in SUBSET Nat
      BY DEF Unsolved
    <3> QED BY <2>1, <3>1, LeastNatural
  <2>3. m \in Nat
    OBVIOUS
  <2>4. m # 0
    <3> DEFINE f0 == [n \in 0 .. 0 |-> [kept |-> << >>, rest |-> << >>, ledger |-> ledger]]
    <3>1. \A n \in 0 .. 0 : Next_(f0, n) = [kept |-> << >>, rest |-> << >>, ledger |-> ledger]
      <4> HIDE DEF f0
      <4> TAKE n \in 0 .. 0
      <4>1. n = 0
        OBVIOUS
      <4> QED BY <4>1 DEF NextKept
    <3> HIDE DEF Next_
    <3>2. Solves(0, f0)
      BY <3>1
    <3> QED BY <3>2
  <2>5. PICK g : Solves(m - 1, g)
    <3>1. m - 1 \in Nat /\ ~(m <= m - 1)
      BY <2>3, <2>4
    <3>2. m - 1 \notin Unsolved
      BY <3>1, <2>2
    <3> QED BY <3>1, <3>2
  <2> DEFINE f == [n \in 0 .. m |-> IF n = m THEN Next_(g, m) ELSE g[n]]
  <2>6. \A n \in 0 .. m : Next_(f, n) = Next_(g, n)
    <3> TAKE n \in 0 .. m
    <3>1. n # 0 => f[n - 1] = g[n - 1]
      BY <2>3
    <3> HIDE DEF f
    <3> QED BY <3>1 DEF NextKept
  <2>7. \A n \in 0 .. m - 1 : g[n] = Next_(g, n)
    <3> HIDE DEF Next_
    <3> QED BY <2>5
  <2>8. \A n \in 0 .. m : f[n] = Next_(f, n)
    <3> HIDE DEF Next_
    <3> QED BY <2>3, <2>6, <2>7
  <2>9. Solves(m, f)
    <3> HIDE DEF Next_
    <3> QED BY <2>8
  <2> QED BY <2>9
<1>2. PICK f : Solves(Len(txs), f)
  BY <1>1
<1> DEFINE h == CHOOSE f_1 : f_1 = [n \in 0 .. Len(txs) |-> Next_(f_1, n)]
<1>3. KeepApplicable(txs, ledger, height, limit) = h[Len(txs)]
  BY DEF KeepApplicable, NextKept
<1>4. h = [n \in 0 .. Len(txs) |-> Next_(h, n)]
  <2> HIDE DEF Next_
  <2> QED BY <1>2
<1> HIDE DEF h
<1> QED BY <1>3, <1>4

\* What is kept applies in its order, and leads to the ledger that is kept with it.
LEMMA KeptApplies ==
    ASSUME NEW txs, IsSeq(txs), NEW l, NEW height, NEW limit
    PROVE  LET r == KeepApplicable(txs, l, height, limit)
           IN  /\ DOMAIN r = {"kept", "rest", "ledger"}
               /\ IsSeq(r.kept) /\ IsSeq(r.rest)
               /\ ApplyInOrder(r.kept, l, height).ok
               /\ ApplyInOrder(r.kept, l, height).ledger = r.ledger
<1>1. PICK f : /\ f = [n \in 0 .. Len(txs) |-> NextKept(txs, l, height, limit, f, n)]
               /\ KeepApplicable(txs, l, height, limit) = f[Len(txs)]
  BY SeqLength, KeepApplicableSolves
<1>2. \A n \in 0 .. Len(txs) : f[n] = NextKept(txs, l, height, limit, f, n)
  BY <1>1
<1> DEFINE Sound(r) == /\ DOMAIN r = {"kept", "rest", "ledger"}
                       /\ IsSeq(r.kept) /\ IsSeq(r.rest)
                       /\ ApplyInOrder(r.kept, l, height).ok
                       /\ ApplyInOrder(r.kept, l, height).ledger = r.ledger
           Bad == {n \in 0 .. Len(txs) : ~Sound(f[n])}
<1>3. Bad = {}
  <2>1. SUFFICES ASSUME Bad # {} PROVE FALSE
    OBVIOUS
  <2>2. PICK n \in Bad : \A k \in Bad : n <= k
    <3> HIDE DEF Sound
    <3>1. Bad \in SUBSET Nat
      BY SeqLength
    <3> HIDE DEF Bad
    <3> QED BY <2>1, <3>1, LeastNatural
  <2>3. n \in 0 .. Len(txs) /\ ~Sound(f[n]) /\ n \in Nat
    <3> HIDE DEF Sound
    <3> QED BY SeqLength
  <2>4. f[n] = NextKept(txs, l, height, limit, f, n)
    BY <1>2, <2>3
  <2>5. n # 0
    <3>1. ASSUME n = 0 PROVE Sound(f[n])
      <4>1. f[n] = [kept |-> << >>, rest |-> << >>, ledger |-> l]
        BY <2>4, <3>1 DEF NextKept
      <4>2. /\ DOMAIN f[n] = {"kept", "rest", "ledger"}
            /\ f[n].kept = << >> /\ f[n].rest = << >> /\ f[n].ledger = l
        BY <4>1
      <4> QED BY <4>2, EmptyIsSeq, ApplyNothing
    <3> QED BY <2>3, <3>1
  <2> DEFINE r == f[n - 1]
             tx == txs[n]
  <2>6. Sound(r)
    <3>1. n - 1 \in 0 .. Len(txs) /\ ~(n <= n - 1)
      BY <2>3, <2>5
    <3> HIDE DEF Sound
    <3> QED BY <2>2, <3>1
  <2>7. CASE Len(r.kept) < limit /\ CanApply(tx, r.ledger)
    <3> DEFINE next == ApplyTransaction(tx, r.ledger, height)
    <3>1. f[n] = [r EXCEPT !.kept = Append(@, tx), !.ledger = next]
      BY <2>4, <2>5, <2>7 DEF NextKept
    <3>2. /\ IsSeq(Append(r.kept, tx))
          /\ ApplyInOrder(Append(r.kept, tx), l, height).ok
          /\ ApplyInOrder(Append(r.kept, tx), l, height).ledger = next
      <4>1. IsSeq(r.kept) /\ ApplyInOrder(r.kept, l, height).ok
        BY <2>6
      <4>2. CanApply(tx, ApplyInOrder(r.kept, l, height).ledger)
        BY <2>6, <2>7
      <4>3. ApplyInOrder(r.kept, l, height).ledger = r.ledger
        BY <2>6
      <4> HIDE DEF r, tx, Sound
      <4> QED BY <4>1, <4>2, <4>3, AppendIsSeq, ApplyOneMore
    <3>3. /\ DOMAIN f[n] = {"kept", "rest", "ledger"}
          /\ f[n].kept = Append(r.kept, tx) /\ f[n].rest = r.rest /\ f[n].ledger = next
      <4>1. DOMAIN r = {"kept", "rest", "ledger"}
        BY <2>6
      <4> HIDE DEF r, tx, next
      <4> QED BY <3>1, <4>1
    <3> QED BY <2>3, <2>6, <3>2, <3>3
  <2>8. CASE ~(Len(r.kept) < limit /\ CanApply(tx, r.ledger))
    <3>1. f[n] = [r EXCEPT !.rest = Append(@, tx)]
      BY <2>4, <2>5, <2>8 DEF NextKept
    <3>2. IsSeq(Append(r.rest, tx))
      <4>1. IsSeq(r.rest)
        BY <2>6
      <4> HIDE DEF r, tx
      <4> QED BY <4>1, AppendIsSeq
    <3>3. /\ DOMAIN f[n] = {"kept", "rest", "ledger"}
          /\ f[n].kept = r.kept /\ f[n].rest = Append(r.rest, tx) /\ f[n].ledger = r.ledger
      <4>1. DOMAIN r = {"kept", "rest", "ledger"}
        BY <2>6
      <4> HIDE DEF r, tx
      <4> QED BY <3>1, <4>1
    <3> QED BY <2>3, <2>6, <3>2, <3>3
  <2> QED BY <2>7, <2>8
<1> HIDE DEF Sound
<1>4. Sound(f[Len(txs)])
  BY <1>3, SeqLength
<1> QED BY <1>1, <1>4 DEF Sound

----------------------------------------------------------------------------
(* The transactions of a branch, and those selected for a block, are lists. *)

\* What FlattenSeq has after n sequences, of f what it had before.
NextFlat(seqs, f, n) == IF n = 1 THEN seqs[n] ELSE f[n - 1] \o seqs[n]

\* The recursion of FlattenSeq has a solution.
LEMMA FlattenSeqSolves ==
    ASSUME NEW seqs, Len(seqs) \in Nat \ {0}
    PROVE  \E f : /\ f = [n \in 1 .. Len(seqs) |-> NextFlat(seqs, f, n)]
                  /\ FlattenSeq(seqs) = f[Len(seqs)]
<1> DEFINE Next_(f, n) == NextFlat(seqs, f, n)
           Solves(m, f) == f = [n \in 1 .. m |-> Next_(f, n)]
           Unsolved == {m \in Nat : ~\E f : Solves(m, f)}
<1>1. Unsolved = {}
  <2>1. SUFFICES ASSUME Unsolved # {} PROVE FALSE
    OBVIOUS
  <2>2. PICK m \in Unsolved : \A k \in Unsolved : m <= k
    <3> HIDE DEF Unsolved
    <3>1. Unsolved \in SUBSET Nat
      BY DEF Unsolved
    <3> QED BY <2>1, <3>1, LeastNatural
  <2>3. m \in Nat
    OBVIOUS
  <2>4. m # 0
    <3>1. Solves(0, << >>)
      <4>1. << >> = [n \in 1 .. 0 |-> Next_(<< >>, n)]
        <5> HIDE DEF Next_
        <5> QED OBVIOUS
      <4> QED BY <4>1
    <3> HIDE DEF Solves
    <3> QED BY <3>1
  <2>5. PICK g : Solves(m - 1, g)
    <3>1. m - 1 \in Nat /\ ~(m <= m - 1)
      BY <2>3, <2>4
    <3>2. m - 1 \notin Unsolved
      BY <3>1, <2>2
    <3> QED BY <3>1, <3>2
  <2> DEFINE f == [n \in 1 .. m |-> IF n = m THEN Next_(g, m) ELSE g[n]]
  <2>6. \A n \in 1 .. m : Next_(f, n) = Next_(g, n)
    <3> TAKE n \in 1 .. m
    <3>1. n # 1 => f[n - 1] = g[n - 1]
      BY <2>3
    <3> HIDE DEF f
    <3> QED BY <3>1 DEF NextFlat
  <2>7. \A n \in 1 .. m - 1 : g[n] = Next_(g, n)
    <3> HIDE DEF Next_
    <3> QED BY <2>5
  <2>8. \A n \in 1 .. m : f[n] = Next_(f, n)
    <3> HIDE DEF Next_
    <3> QED BY <2>3, <2>6, <2>7
  <2>9. Solves(m, f)
    <3> HIDE DEF Next_
    <3> QED BY <2>8
  <2> QED BY <2>9
<1>2. PICK f : Solves(Len(seqs), f)
  BY <1>1
<1> DEFINE h == CHOOSE f_1 : f_1 = [n \in 1 .. Len(seqs) |-> Next_(f_1, n)]
<1>3. FlattenSeq(seqs) = h[Len(seqs)]
  BY DEF FlattenSeq, NextFlat
<1>4. h = [n \in 1 .. Len(seqs) |-> Next_(h, n)]
  <2> HIDE DEF Next_
  <2> QED BY <1>2
<1> HIDE DEF h
<1> QED BY <1>3, <1>4

LEMMA FlattenIsSeq ==
    ASSUME NEW seqs, IsSeq(seqs), \A i \in DOMAIN seqs : IsSeq(seqs[i])
    PROVE  IsSeq(FlattenSeq(seqs))
<1>1. Len(seqs) \in Nat /\ DOMAIN seqs = 1 .. Len(seqs)
  BY SeqLength
<1>2. CASE Len(seqs) = 0
  BY <1>2 DEF FlattenSeq
<1>3. CASE Len(seqs) # 0
  <2>1. PICK f : /\ f = [n \in 1 .. Len(seqs) |-> NextFlat(seqs, f, n)]
                 /\ FlattenSeq(seqs) = f[Len(seqs)]
    BY <1>1, <1>3, FlattenSeqSolves
  <2>2. \A n \in 1 .. Len(seqs) : f[n] = NextFlat(seqs, f, n)
    BY <2>1
  <2> DEFINE Bad == {n \in 1 .. Len(seqs) : ~IsSeq(f[n])}
  <2>3. Bad = {}
    <3>1. SUFFICES ASSUME Bad # {} PROVE FALSE
      OBVIOUS
    <3>2. PICK n \in Bad : \A k \in Bad : n <= k
      <4>1. Bad \in SUBSET Nat
        BY <1>1
      <4> HIDE DEF Bad
      <4> QED BY <3>1, <4>1, LeastNatural
    <3>3. n \in 1 .. Len(seqs) /\ ~IsSeq(f[n]) /\ n \in Nat /\ IsSeq(seqs[n])
      BY <1>1
    <3>4. f[n] = NextFlat(seqs, f, n)
      BY <2>2, <3>3
    <3>5. n # 1
      BY <3>3, <3>4 DEF NextFlat
    <3>6. IsSeq(f[n - 1])
      <4>1. n - 1 \in 1 .. Len(seqs) /\ ~(n <= n - 1)
        BY <3>3, <3>5
      <4> QED BY <3>2, <4>1
    <3>7. IsSeq(f[n - 1] \o seqs[n])
      <4> HIDE DEF Bad
      <4> QED BY <3>3, <3>6, JoinIsSeq
    <3> QED BY <3>3, <3>4, <3>5, <3>7 DEF NextFlat
  <2>4. Len(seqs) \in 1 .. Len(seqs)
    BY <1>1, <1>3
  <2>5. IsSeq(f[Len(seqs)])
    BY <2>3, <2>4
  <2> QED BY <2>1, <2>5
<1> QED BY <1>2, <1>3

LEMMA GreatestOf ==
    ASSUME NEW n \in Nat, NEW S \in SUBSET (1 .. n), S # {}
    PROVE  Max(S) \in S /\ \A j \in S : Max(S) >= j
<1> DEFINE T == {n - i : i \in S}
<1>1. T \in SUBSET Nat /\ T # {}
  <2>1. \A i \in S : n - i \in Nat
    OBVIOUS
  <2> QED BY <2>1
<1>2. PICK m \in T : \A k \in T : m <= k
  <2> HIDE DEF T
  <2> QED BY <1>1, LeastNatural
<1>3. PICK i \in S : m = n - i
  BY <1>2
<1>4. \A j \in S : i >= j
  <2> TAKE j \in S
  <2>1. n - i <= n - j
    BY <1>2, <1>3
  <2> QED BY <2>1
<1> QED BY <1>4 DEF Max

\* The common ancestor of two tips is stored; of a tip and itself it is that tip.
LEMMA AncestorIsStored ==
    ASSUME NEW tree, NEW height, IsTree(tree, height),
           NEW g \in DOMAIN tree \cup {NoHash}, NEW s \in DOMAIN tree \cup {NoHash}
    PROVE  /\ CommonAncestor(tree, g, s) \in DOMAIN tree \cup {NoHash}
           /\ g = s => CommonAncestor(tree, g, s) = g
<1> DEFINE stop == CommonAncestor(tree, g, s)
           chain == ChainTo(tree, g)
           other == ChainTo(tree, s)
           common == {i \in DOMAIN chain \cap DOMAIN other : chain[i] = other[i]}
<1>1. /\ Len(chain) \in Nat /\ DOMAIN chain = 1 .. Len(chain)
      /\ \A i \in DOMAIN chain : chain[i] \in DOMAIN tree
  <2>1. chain \in Seq(DOMAIN tree)
    BY ChainsGrow
  <2> HIDE DEF chain
  <2> QED BY <2>1
<1>2. stop = IF common = {} THEN NoHash ELSE chain[Max(common)]
  BY DEF CommonAncestor
<1>3. common \in SUBSET (1 .. Len(chain))
  BY <1>1
<1>4. g = s => common = 1 .. Len(chain)
  BY <1>1
<1>5. /\ g = NoHash => Len(chain) = 0
      /\ g # NoHash => Len(chain) # 0 /\ chain[Len(chain)] = g
  <2>1. CASE g = NoHash
    <3>1. chain = << >>
      BY <2>1, ChainsGrow
    <3> HIDE DEF chain
    <3> QED BY <2>1, <3>1
  <2>2. CASE g # NoHash
    <3>1. IsChain(tree, height, chain, g) /\ height[g] \in Nat
      BY <2>2, ChainShape DEF IsTree
    <3> HIDE DEF chain
    <3> QED BY <2>2, <3>1 DEF IsChain
  <2> QED BY <2>1, <2>2
<1> HIDE DEF common, chain, stop, other
<1>6. stop \in DOMAIN tree \cup {NoHash}
  <2>1. CASE common = {}
    BY <1>2, <2>1
  <2>2. CASE common # {}
    <3>1. Max(common) \in common
      BY <1>1, <1>3, <2>2, GreatestOf
    <3> QED BY <1>1, <1>2, <1>3, <2>2, <3>1
  <2> QED BY <2>1, <2>2
<1>7. ASSUME g = s PROVE stop = g
  <2>1. common = 1 .. Len(chain)
    BY <1>4, <1>7
  <2>2. CASE g = NoHash
    BY <1>2, <1>5, <2>1, <2>2
  <2>3. CASE g # NoHash
    <3>1. Len(chain) \in common /\ common # {}
      BY <1>1, <1>5, <2>1, <2>3
    <3>2. Max(common) = Len(chain)
      <4>1. Max(common) \in common /\ \A j \in common : Max(common) >= j
        BY <1>1, <1>3, <3>1, GreatestOf
      <4> QED BY <1>1, <2>1, <3>1, <4>1
    <3> QED BY <1>2, <1>5, <2>3, <3>1, <3>2
  <2> QED BY <2>2, <2>3
<1> QED BY <1>6, <1>7 DEF stop

\* The bodies of the blocks of a branch.
AreBodies(bodies, tree, g, stop) ==
    LET c    == ChainTo(tree, g)
        from == Len(ChainTo(tree, stop)) + 1
    IN  /\ IsSeq(bodies) /\ \A i \in DOMAIN bodies : IsSeq(bodies[i])
        /\ BranchTransactions(tree, g, stop) = FlattenSeq(bodies)
        /\ {bodies[i] : i \in DOMAIN bodies} = {tree[c[i]].transactions : i \in from .. Len(c)}

LEMMA BranchBodies ==
    ASSUME NEW tree, NEW height, IsTree(tree, height),
           \A h \in DOMAIN tree : IsSeq(tree[h].transactions),
           NEW g \in DOMAIN tree \cup {NoHash}, NEW stop \in DOMAIN tree \cup {NoHash}
    PROVE  \E bodies : AreBodies(bodies, tree, g, stop)
<1> DEFINE chain == ChainTo(tree, g)
           from == Len(ChainTo(tree, stop)) + 1
           above == SubSeq(chain, from, Len(chain))
           bodies == [i \in DOMAIN above |-> tree[above[i]].transactions]
<1>1. chain \in Seq(DOMAIN tree) /\ Len(chain) \in Nat
  <2>1. chain \in Seq(DOMAIN tree)
    BY ChainsGrow
  <2> HIDE DEF chain
  <2> QED BY <2>1
<1>2. from \in Nat /\ from >= 1
  <2>1. ChainTo(tree, stop) \in Seq(DOMAIN tree)
    BY ChainsGrow
  <2> QED BY <2>1
<1> DEFINE size == IF from <= Len(chain) THEN Len(chain) - from + 1 ELSE 0
<1>3. /\ above \in Seq(DOMAIN tree) /\ size \in Nat /\ DOMAIN above = 1 .. size
      /\ \A i \in 1 .. size : above[i] = chain[from + i - 1]
  <2> HIDE DEF chain, from
  <2> QED BY <1>1, <1>2
<1>4. BranchTransactions(tree, g, stop) = FlattenSeq(bodies)
  BY DEF BranchTransactions
<1>5. /\ \A i \in 1 .. size : from + i - 1 \in from .. Len(chain)
      /\ \A j \in from .. Len(chain) : j - from + 1 \in 1 .. size /\ from + (j - from + 1) - 1 = j
  <2> HIDE DEF chain, from
  <2> QED BY <1>1, <1>2
<1>6. \A i \in DOMAIN above : above[i] \in DOMAIN tree
  <2> HIDE DEF above
  <2> QED BY <1>3
<1> HIDE DEF above, chain, from, size
<1>7. DOMAIN bodies = 1 .. size /\ \A i \in 1 .. size : bodies[i] = tree[above[i]].transactions
  BY <1>3
<1>8. IsSeq(bodies)
  <2> DEFINE S == {tree[above[i]].transactions : i \in DOMAIN above}
  <2>1. bodies \in [1 .. size -> S]
    BY <1>3
  <2> HIDE DEF S, bodies
  <2>2. bodies \in Seq(S)
    BY <1>3, <2>1
  <2> QED BY <2>2 DEF IsSeq
<1>9. \A i \in DOMAIN bodies : IsSeq(bodies[i])
  BY <1>3, <1>6, <1>7
<1> HIDE DEF bodies
<1>10. {bodies[i] : i \in DOMAIN bodies} = {tree[chain[i]].transactions : i \in from .. Len(chain)}
  <2>1. \A i \in DOMAIN bodies :
            bodies[i] \in {tree[chain[j]].transactions : j \in from .. Len(chain)}
    BY <1>3, <1>5, <1>7
  <2>2. ASSUME NEW j \in from .. Len(chain)
        PROVE  tree[chain[j]].transactions \in {bodies[i] : i \in DOMAIN bodies}
    <3> DEFINE i == j - from + 1
    <3>1. i \in 1 .. size /\ from + i - 1 = j
      BY <1>5
    <3> HIDE DEF i
    <3>2. bodies[i] = tree[chain[j]].transactions
      BY <1>3, <1>7, <3>1
    <3> QED BY <1>7, <3>1, <3>2
  <2> QED BY <2>1, <2>2
<1>11. AreBodies(bodies, tree, g, stop)
  BY <1>4, <1>8, <1>9, <1>10 DEF AreBodies, chain, from
<1> QED BY <1>11

\* The transactions that return to the pool, whatever tips they return between.
LEMMA ReturnedIsSeq ==
    ASSUME NEW tree, NEW height, IsTree(tree, height),
           \A h \in DOMAIN tree : IsSeq(tree[h].transactions),
           NEW g \in DOMAIN tree \cup {NoHash}, NEW s \in DOMAIN tree \cup {NoHash}
    PROVE  IsSeq(BranchTransactions(tree, g, CommonAncestor(tree, g, s)))
<1> DEFINE stop == CommonAncestor(tree, g, s)
<1>1. stop \in DOMAIN tree \cup {NoHash}
  BY AncestorIsStored
<1> HIDE DEF stop
<1>2. PICK bodies : AreBodies(bodies, tree, g, stop)
  BY <1>1, BranchBodies
<1> QED BY <1>2, FlattenIsSeq DEF AreBodies, stop

BodiesAreSeqs == \A h \in Stored : IsSeq(blocks[h].transactions)

ReturnedAreSeqs ==
    \A g, s \in Stored \cup {NoHash} :
        IsSeq(BranchTransactions(blocks, g, CommonAncestor(blocks, g, s)))

LEMMA BranchesAreSeqs == IInv /\ BodiesAreSeqs => ReturnedAreSeqs
BY BlocksAreTree, ReturnedIsSeq DEF BodiesAreSeqs, ReturnedAreSeqs, Stored

\* What SelectedTransactions has after n rounds, of f what it had before.
NextRound(txs, state, f, n) ==
    IF n = 0
    THEN [kept |-> << >>, rest |-> ByFee(txs), ledger |-> state.ledger]
    ELSE [KeepApplicable(f[n - 1].rest, f[n - 1].ledger, state.height + 1,
                         MaxBlockTransactions - 1 - Len(f[n - 1].kept))
          EXCEPT !.kept = f[n - 1].kept \o @]

\* The recursion of SelectedTransactions has a solution.
LEMMA SelectedTransactionsSolves ==
    ASSUME NEW txs, NEW state, Len(txs) \in Nat
    PROVE  \E f : /\ f = [n \in 0 .. Len(txs) |-> NextRound(txs, state, f, n)]
                  /\ SelectedTransactions(txs, state) = f[Len(txs)].kept
<1> DEFINE Next_(f, n) == NextRound(txs, state, f, n)
           Solves(m, f) == f = [n \in 0 .. m |-> Next_(f, n)]
           Unsolved == {m \in Nat : ~\E f : Solves(m, f)}
<1>1. Unsolved = {}
  <2>1. SUFFICES ASSUME Unsolved # {} PROVE FALSE
    OBVIOUS
  <2>2. PICK m \in Unsolved : \A k \in Unsolved : m <= k
    <3> HIDE DEF Unsolved
    <3>1. Unsolved \in SUBSET Nat
      BY DEF Unsolved
    <3> QED BY <2>1, <3>1, LeastNatural
  <2>3. m \in Nat
    OBVIOUS
  <2>4. m # 0
    <3> DEFINE zero == [kept |-> << >>, rest |-> ByFee(txs), ledger |-> state.ledger]
               f0 == [n \in 0 .. 0 |-> zero]
    <3>1. \A n \in 0 .. 0 : Next_(f0, n) = zero
      <4> HIDE DEF f0
      <4> TAKE n \in 0 .. 0
      <4>1. n = 0
        OBVIOUS
      <4> QED BY <4>1 DEF NextRound
    <3> HIDE DEF Next_
    <3>2. Solves(0, f0)
      BY <3>1
    <3> QED BY <3>2
  <2>5. PICK g : Solves(m - 1, g)
    <3>1. m - 1 \in Nat /\ ~(m <= m - 1)
      BY <2>3, <2>4
    <3>2. m - 1 \notin Unsolved
      BY <3>1, <2>2
    <3> QED BY <3>1, <3>2
  <2> DEFINE f == [n \in 0 .. m |-> IF n = m THEN Next_(g, m) ELSE g[n]]
  <2>6. \A n \in 0 .. m : Next_(f, n) = Next_(g, n)
    <3> TAKE n \in 0 .. m
    <3>1. n # 0 => f[n - 1] = g[n - 1]
      BY <2>3
    <3> HIDE DEF f
    <3> QED BY <3>1 DEF NextRound
  <2>7. \A n \in 0 .. m - 1 : g[n] = Next_(g, n)
    <3> HIDE DEF Next_
    <3> QED BY <2>5
  <2>8. \A n \in 0 .. m : f[n] = Next_(f, n)
    <3> HIDE DEF Next_
    <3> QED BY <2>3, <2>6, <2>7
  <2>9. Solves(m, f)
    <3> HIDE DEF Next_
    <3> QED BY <2>8
  <2> QED BY <2>9
<1>2. PICK f : Solves(Len(txs), f)
  BY <1>1
<1> DEFINE h == CHOOSE f_1 : f_1 = [n \in 0 .. Len(txs) |-> Next_(f_1, n)]
<1>3. SelectedTransactions(txs, state) = h[Len(txs)].kept
  BY DEF SelectedTransactions, NextRound
<1>4. h = [n \in 0 .. Len(txs) |-> Next_(h, n)]
  <2> HIDE DEF Next_
  <2> QED BY <1>2
<1> HIDE DEF h
<1> QED BY <1>3, <1>4

LEMMA ByFeeIsSeq ==
    ASSUME NEW txs, IsSeq(txs)
    PROVE  IsSeq(ByFee(txs))
<1>1. Len(txs) \in Nat /\ DOMAIN txs = 1 .. Len(txs)
  BY SeqLength
<1>2. PICK order : ByFee(txs) = [i \in DOMAIN txs |-> txs[order[i]]]
  <2> DEFINE order == [n \in DOMAIN txs |->
                          CHOOSE i \in DOMAIN txs : Cardinality(Ahead(txs, i)) = n - 1]
  <2>1. ByFee(txs) = [i \in DOMAIN txs |-> txs[order[i]]]
    BY DEF ByFee
  <2> QED BY <2>1
<1> DEFINE S == {txs[order[i]] : i \in DOMAIN txs}
<1>3. ByFee(txs) \in [1 .. Len(txs) -> S]
  BY <1>1, <1>2
<1> HIDE DEF S
<1>4. ByFee(txs) \in Seq(S)
  BY <1>1, <1>3
<1> QED BY <1>4 DEF IsSeq

LEMMA SelectedIsSeq ==
    ASSUME NEW txs, IsSeq(txs), NEW state
    PROVE  IsSeq(SelectedTransactions(txs, state))
<1>1. PICK f : /\ f = [n \in 0 .. Len(txs) |-> NextRound(txs, state, f, n)]
               /\ SelectedTransactions(txs, state) = f[Len(txs)].kept
  BY SeqLength, SelectedTransactionsSolves
<1>2. \A n \in 0 .. Len(txs) : f[n] = NextRound(txs, state, f, n)
  BY <1>1
<1> DEFINE Sound(n) == IsSeq(f[n].kept) /\ IsSeq(f[n].rest)
           Bad == {n \in 0 .. Len(txs) : ~Sound(n)}
<1>3. Bad = {}
  <2>1. SUFFICES ASSUME Bad # {} PROVE FALSE
    OBVIOUS
  <2>2. PICK n \in Bad : \A k \in Bad : n <= k
    <3> HIDE DEF Sound
    <3>1. Bad \in SUBSET Nat
      BY SeqLength
    <3> HIDE DEF Bad
    <3> QED BY <2>1, <3>1, LeastNatural
  <2>3. n \in 0 .. Len(txs) /\ ~Sound(n) /\ n \in Nat
    <3> HIDE DEF Sound
    <3> QED BY SeqLength
  <2>4. f[n] = NextRound(txs, state, f, n)
    BY <1>2, <2>3
  <2>5. n # 0
    <3>1. ASSUME n = 0 PROVE Sound(n)
      <4>1. f[n] = [kept |-> << >>, rest |-> ByFee(txs), ledger |-> state.ledger]
        BY <2>4, <3>1 DEF NextRound
      <4>2. f[n].kept = << >> /\ f[n].rest = ByFee(txs)
        BY <4>1
      <4> QED BY <4>2, EmptyIsSeq, ByFeeIsSeq
    <3> QED BY <2>3, <3>1
  <2>6. Sound(n - 1)
    <3>1. n - 1 \in 0 .. Len(txs) /\ ~(n <= n - 1)
      BY <2>3, <2>5
    <3> HIDE DEF Sound
    <3> QED BY <2>2, <3>1
  <2> DEFINE limit == MaxBlockTransactions - 1 - Len(f[n - 1].kept)
             r == KeepApplicable(f[n - 1].rest, f[n - 1].ledger, state.height + 1, limit)
  <2>7. f[n] = [r EXCEPT !.kept = f[n - 1].kept \o @]
    BY <2>4, <2>5 DEF NextRound
  <2>8. DOMAIN r = {"kept", "rest", "ledger"} /\ IsSeq(r.kept) /\ IsSeq(r.rest)
    <3>1. IsSeq(f[n - 1].rest)
      BY <2>6
    <3> HIDE DEF limit, Sound, Bad
    <3> QED BY <3>1, KeptApplies
  <2> HIDE DEF r
  <2>9. f[n].kept = f[n - 1].kept \o r.kept /\ f[n].rest = r.rest
    BY <2>7, <2>8
  <2>10. IsSeq(f[n - 1].kept \o r.kept)
    BY <2>6, <2>8, JoinIsSeq
  <2> QED BY <2>3, <2>8, <2>9, <2>10
<1> HIDE DEF Sound
<1>4. Sound(Len(txs))
  BY <1>3, SeqLength
<1> QED BY <1>1, <1>4 DEF Sound

----------------------------------------------------------------------------
(* Which of the pool a block takes.                                        *)

LEMMA ToSetAppend ==
    ASSUME NEW s, IsSeq(s), NEW x
    PROVE  ToSet(Append(s, x)) = ToSet(s) \cup {x}
<1>1. Len(s) \in Nat /\ DOMAIN s = 1 .. Len(s)
  BY SeqLength
<1>2. /\ DOMAIN Append(s, x) = 1 .. Len(s) + 1
      /\ \A i \in 1 .. Len(s) : Append(s, x)[i] = s[i]
      /\ Append(s, x)[Len(s) + 1] = x
  BY AppendIsSeq, SeqLength
<1> DEFINE t == Append(s, x)
<1> HIDE DEF t
<1>3. DOMAIN t = 1 .. Len(s) + 1 /\ t[Len(s) + 1] = x /\ \A i \in 1 .. Len(s) : t[i] = s[i]
  BY <1>2 DEF t
<1>4. ToSet(t) = {t[i] : i \in 1 .. Len(s) + 1} /\ ToSet(s) = {s[i] : i \in 1 .. Len(s)}
  BY <1>1, <1>3 DEF ToSet
<1>5. \A i \in 1 .. Len(s) : i \in 1 .. Len(s) + 1
  BY <1>1
<1>6. Len(s) + 1 \in 1 .. Len(s) + 1
  BY <1>1
<1>7. ToSet(s) \cup {x} \subseteq ToSet(t)
  BY <1>3, <1>4, <1>5, <1>6
<1>8. ASSUME NEW i \in 1 .. Len(s) + 1 PROVE t[i] \in ToSet(s) \cup {x}
  <2>1. i \in 1 .. Len(s) \/ i = Len(s) + 1
    BY <1>1
  <2> QED BY <1>3, <1>4, <2>1
<1>9. ToSet(t) \subseteq ToSet(s) \cup {x}
  BY <1>4, <1>8
<1> QED BY <1>7, <1>9 DEF t

LEMMA JoinSize ==
    ASSUME NEW s, IsSeq(s), NEW t, IsSeq(t)
    PROVE  /\ Len(s \o t) = Len(s) + Len(t)
           /\ \A i \in 1 .. Len(s) : (s \o t)[i] = s[i]
           /\ \A i \in 1 .. Len(t) : (s \o t)[Len(s) + i] = t[i]
           /\ ToSet(s \o t) = ToSet(s) \cup ToSet(t)
<1>1. /\ Len(s) \in Nat /\ DOMAIN s = 1 .. Len(s)
      /\ Len(t) \in Nat /\ DOMAIN t = 1 .. Len(t)
  BY SeqLength
<1>2. PICK S : s \in Seq(S) /\ t \in Seq(S)
  <2>1. PICK A : s \in Seq(A)
    BY DEF IsSeq
  <2>2. PICK B : t \in Seq(B)
    BY DEF IsSeq
  <2>3. s \in Seq(A \cup B) /\ t \in Seq(A \cup B)
    BY <2>1, <2>2
  <2> QED BY <2>3
<1> DEFINE u == s \o t
<1>3. /\ Len(u) = Len(s) + Len(t)
      /\ DOMAIN u = 1 .. Len(s) + Len(t)
      /\ \A i \in 1 .. Len(s) + Len(t) : u[i] = IF i <= Len(s) THEN s[i] ELSE t[i - Len(s)]
  BY <1>2
<1> HIDE DEF u
<1>4. \A i \in 1 .. Len(s) : i \in 1 .. Len(s) + Len(t) /\ u[i] = s[i]
  BY <1>1, <1>3
<1>5. ASSUME NEW i \in 1 .. Len(t)
      PROVE  Len(s) + i \in 1 .. Len(s) + Len(t) /\ u[Len(s) + i] = t[i]
  <2>1. Len(s) + i \in 1 .. Len(s) + Len(t) /\ ~(Len(s) + i <= Len(s)) /\ (Len(s) + i) - Len(s) = i
    BY <1>1
  <2> QED BY <1>3, <2>1
<1>6. /\ ToSet(u) = {u[i] : i \in 1 .. Len(s) + Len(t)}
      /\ ToSet(s) = {s[i] : i \in 1 .. Len(s)} /\ ToSet(t) = {t[i] : i \in 1 .. Len(t)}
  BY <1>1, <1>3 DEF ToSet
<1>7. ToSet(s) \cup ToSet(t) \subseteq ToSet(u)
  BY <1>4, <1>5, <1>6
<1>8. ASSUME NEW i \in 1 .. Len(s) + Len(t) PROVE u[i] \in ToSet(s) \cup ToSet(t)
  <2>1. i \in 1 .. Len(s) \/ (~(i <= Len(s)) /\ i - Len(s) \in 1 .. Len(t))
    BY <1>1
  <2>2. CASE i \in 1 .. Len(s)
    BY <1>4, <1>6, <2>2
  <2>3. CASE ~(i <= Len(s)) /\ i - Len(s) \in 1 .. Len(t)
    BY <1>3, <1>6, <2>3
  <2> QED BY <2>1, <2>2, <2>3
<1>9. ToSet(u) \subseteq ToSet(s) \cup ToSet(t)
  BY <1>6, <1>8
<1> QED BY <1>3, <1>4, <1>5, <1>7, <1>9 DEF u

LEMMA EmptyToSet ==
    /\ ToSet(<< >>) = {} /\ Len(<< >>) = 0
    /\ \A s : IsSeq(s) /\ Len(s) = 0 => ToSet(s) = {}
<1>1. ASSUME NEW s, IsSeq(s), Len(s) = 0 PROVE ToSet(s) = {}
  <2>1. DOMAIN s = {}
    BY <1>1, SeqLength
  <2> QED BY <2>1 DEF ToSet
<1>2. Len(<< >>) = 0
  OBVIOUS
<1> QED BY <1>1, <1>2, EmptyIsSeq

\* What is kept of txs and what is left are txs; if there was room, nothing
\* was kept only where nothing applies.
Splits(r, txs, l, limit) ==
    /\ Len(r.kept) \in Nat /\ Len(r.rest) \in Nat
    /\ Len(r.kept) + Len(r.rest) = Len(txs)
    /\ Len(r.kept) <= limit
    /\ ToSet(txs) = ToSet(r.kept) \cup ToSet(r.rest)
    /\ Len(r.kept) = 0 => r.ledger = l
    /\ Len(r.kept) = 0 /\ limit # 0 => \A tx \in ToSet(txs) : ~CanApply(tx, l)
    /\ Len(r.kept) # 0 => \E tx \in ToSet(txs) : CanApply(tx, l)

LEMMA NextIndex ==
    ASSUME NEW len \in Nat, NEW n \in 0 .. len, n # len
    PROVE  n \in Nat /\ n + 1 \in 0 .. len /\ n + 1 # 0 /\ (n + 1) - 1 = n
OBVIOUS

LEMMA KeptSplits ==
    ASSUME NEW txs, IsSeq(txs), NEW l, NEW height, NEW limit, limit \in Nat
    PROVE  Splits(KeepApplicable(txs, l, height, limit), txs, l, limit)
<1>0. Len(txs) \in Nat
  BY SeqLength
<1>1. PICK f : /\ f = [n \in 0 .. Len(txs) |-> NextKept(txs, l, height, limit, f, n)]
               /\ KeepApplicable(txs, l, height, limit) = f[Len(txs)]
  <2>1. ASSUME NEW lim
        PROVE  \E f : /\ f = [n \in 0 .. Len(txs) |-> NextKept(txs, l, height, lim, f, n)]
                      /\ KeepApplicable(txs, l, height, lim) = f[Len(txs)]
    BY <1>0, KeepApplicableSolves
  <2> QED BY <2>1, Zenon
<1>2. \A n \in 0 .. Len(txs) : f[n] = NextKept(txs, l, height, limit, f, n)
  BY <1>1
<1> DEFINE Parts(r, n, given) ==
             /\ DOMAIN r = {"kept", "rest", "ledger"}
             /\ IsSeq(r.kept) /\ IsSeq(r.rest)
             /\ Len(r.kept) \in Nat /\ Len(r.rest) \in Nat
             /\ Len(r.kept) + Len(r.rest) = n
             /\ Len(r.kept) <= limit
             /\ given = ToSet(r.kept) \cup ToSet(r.rest)
             /\ Len(r.kept) = 0 => r.ledger = l
             /\ Len(r.kept) = 0 /\ limit # 0 => \A tx \in given : ~CanApply(tx, l)
             /\ Len(r.kept) # 0 => \E tx \in given : CanApply(tx, l)
           Given(n) == {txs[i] : i \in 1 .. n}
           Good == {n \in 0 .. Len(txs) : Parts(f[n], n, Given(n))}
<1>3. Len(txs) \in Nat /\ DOMAIN txs = 1 .. Len(txs)
  BY SeqLength
<1>4. 0 \in Good
  <2>1. f[0] = [kept |-> << >>, rest |-> << >>, ledger |-> l]
    <3>1. 0 \in 0 .. Len(txs)
      BY <1>3
    <3>2. f[0] = NextKept(txs, l, height, limit, f, 0)
      BY <1>2, <3>1
    <3> QED BY <3>2 DEF NextKept
  <2> DEFINE r == f[0]
  <2>2. DOMAIN r = {"kept", "rest", "ledger"} /\ r.kept = << >> /\ r.rest = << >> /\ r.ledger = l
    BY <2>1
  <2>3. Given(0) = {}
    OBVIOUS
  <2> HIDE DEF r, Given
  <2>4. Parts(r, 0, Given(0))
    BY <2>2, <2>3, EmptyIsSeq, EmptyToSet
  <2>5. 0 \in 0 .. Len(txs)
    BY <1>3
  <2> HIDE DEF Parts
  <2> QED BY <2>4, <2>5 DEF r
<1>5. ASSUME NEW n \in 0 .. Len(txs), n # Len(txs), n \in Good PROVE n + 1 \in Good
  <2> DEFINE r == f[n]
             v == f[n + 1]
             tx == txs[n + 1]
             old == Given(n)
             new == Given(n + 1)
  <2>1. n \in Nat /\ n + 1 \in 0 .. Len(txs) /\ n + 1 # 0 /\ (n + 1) - 1 = n
    <3> HIDE DEF Parts, Given, Good
    <3>1. n \in 0 .. Len(txs) /\ n # Len(txs) /\ Len(txs) \in Nat
      BY <1>3, <1>5
    <3> QED BY ONLY <3>1, NextIndex
  <2>2. Parts(r, n, old)
    BY <1>5
  <2>3. v = NextKept(txs, l, height, limit, f, n + 1)
    BY <1>2, <2>1
  <2>4. new = old \cup {tx}
    <3>1. \A i : i \in 1 .. n + 1 <=> i \in 1 .. n \/ i = n + 1
      BY <2>1
    <3> QED BY <3>1
  <2>5. v = IF Len(r.kept) < limit /\ CanApply(tx, r.ledger)
            THEN [r EXCEPT !.kept = Append(@, tx),
                           !.ledger = ApplyTransaction(tx, r.ledger, height)]
            ELSE [r EXCEPT !.rest = Append(@, tx)]
    BY <2>1, <2>3 DEF NextKept
  <2> HIDE DEF r, v, tx, old, new, Given
  <2>6. CASE Len(r.kept) < limit /\ CanApply(tx, r.ledger)
    <3>1. v = [r EXCEPT !.kept = Append(@, tx), !.ledger = ApplyTransaction(tx, r.ledger, height)]
      BY <2>5, <2>6
    <3>2. DOMAIN v = {"kept", "rest", "ledger"} /\ v.kept = Append(r.kept, tx) /\ v.rest = r.rest
      BY <2>2, <3>1
    <3>3. /\ IsSeq(v.kept) /\ Len(v.kept) = Len(r.kept) + 1
          /\ ToSet(v.kept) = ToSet(r.kept) \cup {tx}
      BY <2>2, <3>2, AppendIsSeq, ToSetAppend
    <3>4. \E t \in new : CanApply(t, l)
      <4>1. CASE Len(r.kept) = 0
        BY <2>2, <2>4, <2>6, <4>1
      <4>2. CASE Len(r.kept) # 0
        BY <2>2, <2>4, <4>2
      <4> QED BY <4>1, <4>2
    <3>5. /\ Len(v.kept) \in Nat /\ Len(v.rest) \in Nat
          /\ Len(v.kept) + Len(v.rest) = n + 1
          /\ Len(v.kept) <= limit /\ Len(v.kept) # 0
      BY <2>1, <2>2, <2>6, <3>2, <3>3
    <3>6. new = ToSet(v.kept) \cup ToSet(v.rest)
      BY <2>2, <2>4, <3>2, <3>3
    <3>7. Parts(v, n + 1, new)
      BY <2>2, <3>2, <3>3, <3>4, <3>5, <3>6
    <3> QED BY <2>1, <3>7 DEF v, new
  <2>7. CASE ~(Len(r.kept) < limit /\ CanApply(tx, r.ledger))
    <3>1. v = [r EXCEPT !.rest = Append(@, tx)]
      BY <2>5, <2>7
    <3>2. /\ DOMAIN v = {"kept", "rest", "ledger"}
          /\ v.kept = r.kept /\ v.rest = Append(r.rest, tx) /\ v.ledger = r.ledger
      BY <2>2, <3>1
    <3>3. /\ IsSeq(v.rest) /\ Len(v.rest) = Len(r.rest) + 1
          /\ ToSet(v.rest) = ToSet(r.rest) \cup {tx}
      BY <2>2, <3>2, AppendIsSeq, ToSetAppend
    <3>4. Len(r.kept) = 0 /\ limit # 0 => \A t \in new : ~CanApply(t, l)
      BY <2>2, <2>4, <2>7
    <3>5. Len(r.kept) # 0 => \E t \in new : CanApply(t, l)
      BY <2>2, <2>4
    <3>6. /\ Len(v.kept) \in Nat /\ Len(v.rest) \in Nat
          /\ Len(v.kept) + Len(v.rest) = n + 1 /\ Len(v.kept) <= limit
      BY <2>1, <2>2, <3>2, <3>3
    <3>7. new = ToSet(v.kept) \cup ToSet(v.rest)
      BY <2>2, <2>4, <3>2, <3>3
    <3>8. Parts(v, n + 1, new)
      BY <2>2, <3>2, <3>3, <3>4, <3>5, <3>6, <3>7
    <3> QED BY <2>1, <3>8 DEF v, new
  <2> QED BY <2>6, <2>7
<1>6. Len(txs) \in Good
  <2> HIDE DEF Good
  <2>1. 0 .. Len(txs) \subseteq Good
    BY <1>3, <1>4, <1>5, HoldsUpTo
  <2> QED BY <1>3, <2>1
<1>7. Parts(f[Len(txs)], Len(txs), Given(Len(txs)))
  BY <1>6
<1>8. ToSet(txs) = Given(Len(txs))
  BY <1>3 DEF ToSet
<1> HIDE DEF Given
<1> QED BY <1>1, <1>7, <1>8 DEF Splits

\* Two lists one after the other.
LEMMA ApplyJoined ==
    ASSUME NEW a, IsSeq(a), NEW b, IsSeq(b), NEW l, NEW height,
           ApplyInOrder(a, l, height).ok,
           NEW m, m = ApplyInOrder(a, l, height).ledger, ApplyInOrder(b, m, height).ok
    PROVE  /\ ApplyInOrder(a \o b, l, height).ok
           /\ ApplyInOrder(a \o b, l, height).ledger = ApplyInOrder(b, m, height).ledger
           /\ ApplyInOrder(a, l, height).fees = 0
                => ApplyInOrder(a \o b, l, height).fees = ApplyInOrder(b, m, height).fees
<1> DEFINE c == a \o b
<1>1. /\ Len(a) \in Nat /\ Len(b) \in Nat /\ Len(c) = Len(a) + Len(b)
      /\ \A i \in 1 .. Len(a) : c[i] = a[i]
      /\ \A i \in 1 .. Len(b) : c[Len(a) + i] = b[i]
  BY SeqLength, JoinSize
<1> HIDE DEF c
<1>2. PICK fa : /\ fa = [n \in 0 .. Len(a) |-> NextApplied(a, l, height, fa, n)]
                /\ ApplyInOrder(a, l, height) = fa[Len(a)]
  BY <1>1, ApplyInOrderSolves
<1>3. PICK fb : /\ fb = [n \in 0 .. Len(b) |-> NextApplied(b, m, height, fb, n)]
                /\ ApplyInOrder(b, m, height) = fb[Len(b)]
  BY <1>1, ApplyInOrderSolves
<1>4. Len(c) \in Nat
  BY <1>1
<1>5. PICK fc : /\ fc = [n \in 0 .. Len(c) |-> NextApplied(c, l, height, fc, n)]
                /\ ApplyInOrder(c, l, height) = fc[Len(c)]
  BY <1>4, ApplyInOrderSolves
<1>6. /\ \A n \in 0 .. Len(a) : fa[n] = NextApplied(a, l, height, fa, n)
      /\ \A n \in 0 .. Len(b) : fb[n] = NextApplied(b, m, height, fb, n)
      /\ \A n \in 0 .. Len(c) : fc[n] = NextApplied(c, l, height, fc, n)
  BY <1>2, <1>3, <1>5
<1> DEFINE Same == {n \in 0 .. Len(a) : fc[n] = fa[n]}
<1>7. 0 .. Len(a) \subseteq Same
  <2>1. 0 \in Same
    <3>1. 0 \in 0 .. Len(a) /\ 0 \in 0 .. Len(c)
      BY <1>1
    <3>2. fc[0] = NextApplied(c, l, height, fc, 0) /\ fa[0] = NextApplied(a, l, height, fa, 0)
      BY <1>6, <3>1
    <3> QED BY <3>1, <3>2 DEF NextApplied
  <2>2. ASSUME NEW n \in 0 .. Len(a), n # Len(a), n \in Same PROVE n + 1 \in Same
    <3>1. /\ n + 1 \in 0 .. Len(a) /\ n + 1 \in 0 .. Len(c) /\ n + 1 \in 1 .. Len(a)
          /\ n + 1 # 0 /\ (n + 1) - 1 = n
      BY <1>1, <2>2
    <3>2. /\ fc[n + 1] = NextApplied(c, l, height, fc, n + 1)
          /\ fa[n + 1] = NextApplied(a, l, height, fa, n + 1)
      BY <1>6, <3>1
    <3>3. c[n + 1] = a[n + 1] /\ fc[n] = fa[n]
      BY <1>1, <2>2, <3>1
    <3> DEFINE k == n + 1
    <3>4. k # 0 /\ k - 1 = n /\ k \in 0 .. Len(a)
      BY <3>1
    <3>5. fc[k] = NextApplied(c, l, height, fc, k) /\ fa[k] = NextApplied(a, l, height, fa, k)
      BY <3>2
    <3>6. c[k] = a[k] /\ fc[n] = fa[n]
      BY <3>3
    <3> HIDE DEF k
    <3>7. NextApplied(c, l, height, fc, k) = NextApplied(a, l, height, fa, k)
      BY <3>4, <3>6 DEF NextApplied
    <3>8. fc[k] = fa[k]
      BY <3>5, <3>7
    <3> QED BY <3>4, <3>8 DEF k
  <2> HIDE DEF Same
  <2> QED BY <1>1, <2>1, <2>2, HoldsUpTo
<1>8. fc[Len(a)].ok /\ fc[Len(a)].ledger = m /\ fc[Len(a)].fees = fa[Len(a)].fees
  <2>1. Len(a) \in Same
    BY <1>1, <1>7
  <2> QED BY <1>2, <2>1
<1> DEFINE free == fa[Len(a)].fees = 0
           Follow == {n \in 0 .. Len(b) :
                       /\ "ok" \in DOMAIN fb[n]
                       /\ fb[n].ok => /\ fc[Len(a) + n].ok
                                      /\ fc[Len(a) + n].ledger = fb[n].ledger
                                      /\ free => fc[Len(a) + n].fees = fb[n].fees}
<1> HIDE DEF free
<1>9. 0 .. Len(b) \subseteq Follow
  <2>1. 0 \in Follow
    <3>1. fb[0] = NextApplied(b, m, height, fb, 0) /\ Len(a) + 0 = Len(a)
      BY <1>1, <1>6
    <3>2. fb[0].ledger = m /\ "ok" \in DOMAIN fb[0] /\ fb[0].fees = 0
      BY <3>1 DEF NextApplied
    <3> QED BY <1>1, <1>8, <3>1, <3>2 DEF free
  <2>2. ASSUME NEW n \in 0 .. Len(b), n # Len(b), n \in Follow PROVE n + 1 \in Follow
    <3> DEFINE k == Len(a) + n
    <3>1. /\ n + 1 \in 0 .. Len(b) /\ n + 1 \in 1 .. Len(b) /\ n + 1 # 0 /\ (n + 1) - 1 = n
          /\ k + 1 \in 0 .. Len(c) /\ k + 1 # 0 /\ (k + 1) - 1 = k /\ Len(a) + (n + 1) = k + 1
      <4>1. Len(a) \in Nat /\ Len(b) \in Nat /\ Len(c) = Len(a) + Len(b)
        BY <1>1
      <4> HIDE DEF Follow
      <4> QED BY ONLY <4>1, <2>2, n \in 0 .. Len(b)
    <3>2. c[Len(a) + (n + 1)] = b[n + 1]
      BY <1>1, <3>1
    <3>3. c[k + 1] = b[n + 1]
      BY <3>1, <3>2
    <3> HIDE DEF k
    <3>4. /\ fb[n + 1] = NextApplied(b, m, height, fb, n + 1)
          /\ fc[k + 1] = NextApplied(c, l, height, fc, k + 1)
      BY <1>6, <3>1
    <3> DEFINE p == fb[n]
               q == fc[k]
               tx == b[n + 1]
    <3>5. p.ok => q.ok /\ q.ledger = p.ledger /\ (free => q.fees = p.fees)
      BY <2>2 DEF k
    <3>6. fb[n + 1] = IF p.ok /\ CanApply(tx, p.ledger)
                      THEN [ ok     |-> TRUE,
                             ledger |-> ApplyTransaction(tx, p.ledger, height),
                             fees   |-> p.fees + FeePaid(tx, p.ledger, height) ]
                      ELSE [p EXCEPT !.ok = FALSE]
      BY <3>1, <3>4 DEF NextApplied
    <3>7. fc[k + 1] = IF q.ok /\ CanApply(tx, q.ledger)
                      THEN [ ok     |-> TRUE,
                             ledger |-> ApplyTransaction(tx, q.ledger, height),
                             fees   |-> q.fees + FeePaid(tx, q.ledger, height) ]
                      ELSE [q EXCEPT !.ok = FALSE]
      BY <3>1, <3>3, <3>4 DEF NextApplied
    <3>8. "ok" \in DOMAIN p
      BY <2>2
    <3> HIDE DEF p, q, tx
    <3>9. CASE p.ok /\ CanApply(tx, p.ledger)
      <4>1. /\ fb[n + 1].ledger = ApplyTransaction(tx, p.ledger, height)
            /\ "ok" \in DOMAIN fb[n + 1]
            /\ fc[k + 1].ok /\ fc[k + 1].ledger = ApplyTransaction(tx, q.ledger, height)
            /\ fb[n + 1].fees = p.fees + FeePaid(tx, p.ledger, height)
            /\ fc[k + 1].fees = q.fees + FeePaid(tx, q.ledger, height)
        BY <3>5, <3>6, <3>7, <3>9
      <4> QED BY <3>1, <3>5, <3>9, <4>1
    <3>10. CASE ~(p.ok /\ CanApply(tx, p.ledger))
      <4>1. ~fb[n + 1].ok /\ "ok" \in DOMAIN fb[n + 1]
        BY <3>6, <3>8, <3>10
      <4> QED BY <3>1, <4>1
    <3> QED BY <3>9, <3>10
  <2> HIDE DEF Follow
  <2> QED BY <1>1, <2>1, <2>2, HoldsUpTo
<1>10. fb[Len(b)].ok => /\ fc[Len(a) + Len(b)].ok
                        /\ fc[Len(a) + Len(b)].ledger = fb[Len(b)].ledger
                        /\ free => fc[Len(a) + Len(b)].fees = fb[Len(b)].fees
  BY <1>1, <1>9
<1> QED BY <1>1, <1>2, <1>3, <1>5, <1>10 DEF c, free

\* Transactions whose fees are numbers, as they are once they apply.
HaveFees(txs) == \A i \in DOMAIN txs : txs[i].fee \in Int

LEMMA IntervalSize ==
    ASSUME NEW n \in Nat
    PROVE  /\ IsFiniteSet(1 .. n) /\ Cardinality(1 .. n) = n
           /\ IsFiniteSet(0 .. n - 1) /\ Cardinality(0 .. n - 1) = n
<1>1. 1 \in Int /\ 0 \in Int /\ n \in Int /\ n - 1 \in Int
  OBVIOUS
<1>2. IsFiniteSet(1 .. n) /\ Cardinality(1 .. n) = IF 1 > n THEN 0 ELSE n - 1 + 1
  BY <1>1, FS_Interval
<1>3. IsFiniteSet(0 .. n - 1) /\ Cardinality(0 .. n - 1) = IF 0 > n - 1 THEN 0 ELSE n - 1 - 0 + 1
  BY <1>1, FS_Interval
<1> QED BY <1>2, <1>3

\* Going by fee is a total order of the places: each has a rank of its own.
LEMMA RanksDiffer ==
    ASSUME NEW txs, IsSeq(txs), HaveFees(txs)
    PROVE  /\ \A i \in DOMAIN txs : Cardinality(Ahead(txs, i)) \in 0 .. Len(txs) - 1
           /\ \A i, j \in DOMAIN txs :
                 Cardinality(Ahead(txs, i)) = Cardinality(Ahead(txs, j)) => i = j
<1> DEFINE n == Len(txs)
<1>1. n \in Nat /\ DOMAIN txs = 1 .. n
  BY SeqLength
<1>2. IsFiniteSet(1 .. n) /\ Cardinality(1 .. n) = n
  BY <1>1, IntervalSize
<1>3. ASSUME NEW i \in DOMAIN txs
      PROVE  /\ IsFiniteSet(Ahead(txs, i)) /\ Cardinality(Ahead(txs, i)) \in Nat
             /\ Cardinality(Ahead(txs, i)) <= n - 1
  <2>1. Ahead(txs, i) \in SUBSET ((1 .. n) \ {i})
    BY <1>1, <1>3 DEF Ahead, HaveFees
  <2>2. IsFiniteSet((1 .. n) \ {i}) /\ Cardinality((1 .. n) \ {i}) = n - 1
    <3>1. \A S : IsFiniteSet(S) /\ i \in S =>
                  IsFiniteSet(S \ {i}) /\ Cardinality(S \ {i}) = Cardinality(S) - 1
      BY FS_RemoveElement
    <3>2. i \in 1 .. n
      BY <1>1, <1>3
    <3>3. IsFiniteSet((1 .. n) \ {i}) /\ Cardinality((1 .. n) \ {i}) = Cardinality(1 .. n) - 1
      BY ONLY <1>2, <3>1, <3>2, Zenon
    <3> QED BY <1>2, <3>3
  <2> QED BY <2>1, <2>2, FS_Subset, FS_CardinalityType
<1>4. ASSUME NEW i \in DOMAIN txs, NEW j \in DOMAIN txs, i \in Ahead(txs, j)
      PROVE  Cardinality(Ahead(txs, i)) < Cardinality(Ahead(txs, j))
  <2>1. i \notin Ahead(txs, i) /\ Ahead(txs, i) \subseteq Ahead(txs, j)
    BY <1>1, <1>4 DEF Ahead, HaveFees
  <2>2. Ahead(txs, i) \in SUBSET (Ahead(txs, j) \ {i})
    BY <2>1
  <2>3. IsFiniteSet(Ahead(txs, j)) /\ Cardinality(Ahead(txs, j)) \in Nat
        /\ Cardinality(Ahead(txs, i)) \in Nat
    BY <1>3
  <2>4. /\ IsFiniteSet(Ahead(txs, j) \ {i})
        /\ Cardinality(Ahead(txs, j) \ {i}) = Cardinality(Ahead(txs, j)) - 1
    <3>1. \A S : IsFiniteSet(S) /\ i \in S =>
                  IsFiniteSet(S \ {i}) /\ Cardinality(S \ {i}) = Cardinality(S) - 1
      BY FS_RemoveElement
    <3> QED BY ONLY <1>4, <2>3, <3>1, Zenon
  <2>5. Cardinality(Ahead(txs, i)) <= Cardinality(Ahead(txs, j) \ {i})
    BY <2>2, <2>4, FS_Subset
  <2> QED BY <2>3, <2>4, <2>5
<1>5. ASSUME NEW i \in DOMAIN txs, NEW j \in DOMAIN txs, i # j
      PROVE  i \in Ahead(txs, j) \/ j \in Ahead(txs, i)
  BY <1>1, <1>5 DEF Ahead, HaveFees
<1>6. ASSUME NEW i \in DOMAIN txs, NEW j \in DOMAIN txs, i # j
      PROVE  Cardinality(Ahead(txs, i)) # Cardinality(Ahead(txs, j))
  <2>1. Cardinality(Ahead(txs, i)) \in Nat /\ Cardinality(Ahead(txs, j)) \in Nat
    BY <1>3
  <2>2. CASE i \in Ahead(txs, j)
    BY <2>1, <2>2, <1>4
  <2>3. CASE j \in Ahead(txs, i)
    BY <2>1, <2>3, <1>4
  <2> QED BY <1>5, <1>6, <2>2, <2>3
<1> QED BY <1>1, <1>3, <1>6

\* The transactions by fee are those that were given, no more and no fewer.
LEMMA ByFeeIsPermutation ==
    ASSUME NEW txs, IsSeq(txs), HaveFees(txs)
    PROVE  Len(ByFee(txs)) = Len(txs) /\ ToSet(ByFee(txs)) = ToSet(txs)
<1> DEFINE n == Len(txs)
           at(k) == CHOOSE i \in DOMAIN txs : Cardinality(Ahead(txs, i)) = k - 1
           rank == [i \in 1 .. n |-> Cardinality(Ahead(txs, i))]
<1>1. n \in Nat /\ DOMAIN txs = 1 .. n
  BY SeqLength
<1>2. /\ \A i \in 1 .. n : rank[i] \in 0 .. n - 1
      /\ \A i, j \in 1 .. n : rank[i] = rank[j] => i = j
  BY <1>1, RanksDiffer
<1>3. /\ DOMAIN ByFee(txs) = 1 .. n
      /\ \A k \in 1 .. n : ByFee(txs)[k] = txs[at(k)]
  BY <1>1 DEF ByFee
<1>4. Len(ByFee(txs)) = n
  <2>1. IsSeq(ByFee(txs))
    BY ByFeeIsSeq
  <2>2. Len(ByFee(txs)) \in Nat /\ DOMAIN ByFee(txs) = 1 .. Len(ByFee(txs))
    BY <2>1, SeqLength
  <2> QED BY <1>1, <1>3, <2>2
<1>5. rank \in Surjection(1 .. n, 0 .. n - 1)
  <2>1. rank \in [1 .. n -> 0 .. n - 1]
    BY <1>2
  <2>2. rank \in Injection(1 .. n, 0 .. n - 1)
    <3> HIDE DEF rank
    <3> QED BY <1>2, <2>1 DEF Injection, IsInjective
  <2>3. /\ IsFiniteSet(0 .. n - 1) /\ Cardinality(0 .. n - 1) = n
        /\ Cardinality(1 .. n) = n
    BY <1>1, IntervalSize
  <2> HIDE DEF rank, n
  <2> QED BY <2>2, <2>3, FS_Injection
<1>6. ASSUME NEW k \in 1 .. n
      PROVE  at(k) \in 1 .. n
  <2>1. k - 1 \in 0 .. n - 1
    BY <1>1
  <2>2. \E i \in 1 .. n : rank[i] = k - 1
    <3> HIDE DEF rank
    <3> QED BY <1>5, <2>1 DEF Surjection
  <2>3. \E i \in DOMAIN txs : Cardinality(Ahead(txs, i)) = k - 1
    BY <2>2, <1>1
  <2> QED BY <2>3, <1>1
<1>7. ASSUME NEW i \in 1 .. n
      PROVE  rank[i] + 1 \in 1 .. n /\ at(rank[i] + 1) = i
  <2> DEFINE k == rank[i] + 1
  <2>1. k \in 1 .. n /\ k - 1 = rank[i]
    BY <1>1, <1>2
  <2>2. i \in DOMAIN txs /\ Cardinality(Ahead(txs, i)) = k - 1
    BY <1>1, <2>1
  <2> HIDE DEF k
  <2>3. at(k) \in DOMAIN txs /\ Cardinality(Ahead(txs, at(k))) = k - 1
    BY <2>2
  <2> HIDE DEF at
  <2>4. rank[at(k)] = rank[i]
    BY <1>1, <2>1, <2>3
  <2>5. at(k) = i
    <3> HIDE DEF rank
    <3> QED BY <1>1, <1>2, <2>3, <2>4
  <2> QED BY <2>1, <2>5 DEF k
<1> HIDE DEF at, rank
<1>8. ToSet(txs) = {txs[i] : i \in 1 .. n} /\ ToSet(ByFee(txs)) = {ByFee(txs)[k] : k \in 1 .. n}
  BY <1>1, <1>3 DEF ToSet
<1>9. \A k \in 1 .. n : ByFee(txs)[k] \in ToSet(txs)
  BY <1>3, <1>6, <1>8
<1>10. \A i \in 1 .. n : txs[i] \in ToSet(ByFee(txs))
  BY <1>3, <1>7, <1>8
<1> QED BY <1>4, <1>8, <1>9, <1>10

\* What applies in its order applied to some ledger, one by one.
LEMMA AppliedCould ==
    ASSUME NEW txs, IsSeq(txs), NEW l, NEW height, ApplyInOrder(txs, l, height).ok
    PROVE  \A i \in DOMAIN txs : \E m : CanApply(txs[i], m)
<1>1. Len(txs) \in Nat /\ DOMAIN txs = 1 .. Len(txs)
  BY SeqLength
<1>2. PICK f : /\ f = [n \in 0 .. Len(txs) |-> NextApplied(txs, l, height, f, n)]
               /\ ApplyInOrder(txs, l, height) = f[Len(txs)]
  BY <1>1, ApplyInOrderSolves
<1>3. \A n \in 0 .. Len(txs) : f[n] = NextApplied(txs, l, height, f, n)
  BY <1>2
<1> DEFINE Good == {n \in 0 .. Len(txs) :
                     /\ "ok" \in DOMAIN f[n]
                     /\ f[n].ok => \A i \in 1 .. n : \E m : CanApply(txs[i], m)}
<1>4. 0 \in Good
  <2>1. 0 \in 0 .. Len(txs)
    BY <1>1
  <2>2. f[0] = NextApplied(txs, l, height, f, 0)
    BY <1>3, <2>1
  <2>3. "ok" \in DOMAIN f[0]
    BY <2>2 DEF NextApplied
  <2> QED BY <2>1, <2>3
<1>5. ASSUME NEW n \in 0 .. Len(txs), n # Len(txs), n \in Good PROVE n + 1 \in Good
  <2> DEFINE k == n + 1
  <2>1. k \in 0 .. Len(txs) /\ k # 0 /\ k - 1 = n /\ \A i \in 1 .. k : i \in 1 .. n \/ i = k
    BY <1>1, <1>5
  <2> HIDE DEF k
  <2>2. f[k] = NextApplied(txs, l, height, f, k)
    BY <1>3, <2>1
  <2> DEFINE p == f[n]
             tx == txs[k]
  <2>3. "ok" \in DOMAIN p /\ (p.ok => \A i \in 1 .. n : \E m : CanApply(txs[i], m))
    BY <1>5
  <2>4. f[k] = IF p.ok /\ CanApply(tx, p.ledger)
               THEN [ ok     |-> TRUE,
                      ledger |-> ApplyTransaction(tx, p.ledger, height),
                      fees   |-> p.fees + FeePaid(tx, p.ledger, height) ]
               ELSE [p EXCEPT !.ok = FALSE]
    BY <2>1, <2>2 DEF NextApplied
  <2> HIDE DEF p
  <2>5. CASE p.ok /\ CanApply(tx, p.ledger)
    <3>1. "ok" \in DOMAIN f[k]
      BY <2>4, <2>5
    <3>2. \A i \in 1 .. k : \E m : CanApply(txs[i], m)
      BY <2>1, <2>3, <2>5
    <3>3. k \in Good
      BY <2>1, <3>1, <3>2
    <3> QED BY <3>3 DEF k
  <2>6. CASE ~(p.ok /\ CanApply(tx, p.ledger))
    <3>1. "ok" \in DOMAIN f[k] /\ ~f[k].ok
      BY <2>3, <2>4, <2>6
    <3>2. k \in Good
      BY <2>1, <3>1
    <3> QED BY <3>2 DEF k
  <2> QED BY <2>5, <2>6
<1>6. Len(txs) \in Good
  <2> HIDE DEF Good
  <2>1. 0 .. Len(txs) \subseteq Good
    BY <1>1, <1>4, <1>5, HoldsUpTo
  <2> QED BY <1>1, <2>1
<1> QED BY <1>1, <1>2, <1>6

LEMMA AppliedHaveFees ==
    ASSUME NEW txs, IsSeq(txs), NEW l, NEW height, ApplyInOrder(txs, l, height).ok
    PROVE  HaveFees(txs)
<1>1. \A i \in DOMAIN txs : \E m : CanApply(txs[i], m)
  BY AppliedCould
<1>2. ASSUME NEW tx, NEW m, CanApply(tx, m) PROVE tx.fee \in Int
  BY <1>2 DEF CanApply
<1> QED BY <1>1, <1>2 DEF HaveFees

\* What is selected applies in its order, is in the pool and leaves nothing
\* out that still applies, unless the block is full: every round that adds
\* nothing is the last that could.
LEMMA SelectedParts ==
    ASSUME NEW txs, IsSeq(txs), HaveFees(txs), NEW state
    PROVE  LET selected == SelectedTransactions(txs, state)
               after    == ApplyInOrder(selected, state.ledger, state.height + 1)
           IN  /\ IsSeq(selected) /\ after.ok
               /\ Len(selected) \in 0 .. MaxBlockTransactions - 1
               /\ ToSet(selected) \subseteq ToSet(txs)
               /\ \/ Len(selected) = MaxBlockTransactions - 1
                  \/ \A tx \in ToSet(txs) \ ToSet(selected) : ~CanApply(tx, after.ledger)
<1> DEFINE N == Len(txs)
           limit == MaxBlockTransactions - 1
           l == state.ledger
           height == state.height + 1
<1>1. N \in Nat /\ limit \in Nat
  BY SeqLength, BlockSizeAssumption
<1>2. PICK f : /\ f = [n \in 0 .. N |-> NextRound(txs, state, f, n)]
               /\ SelectedTransactions(txs, state) = f[N].kept
  BY <1>1, SelectedTransactionsSolves
<1>3. \A n \in 0 .. N : f[n] = NextRound(txs, state, f, n)
  BY <1>2
<1>4. limit = MaxBlockTransactions - 1
  OBVIOUS
<1> HIDE DEF limit, l, height
<1> DEFINE Round(r, n) ==
             /\ IsSeq(r.kept) /\ IsSeq(r.rest)
             /\ Len(r.kept) \in Nat /\ Len(r.rest) \in Nat
             /\ Len(r.kept) + Len(r.rest) = N /\ Len(r.kept) <= limit
             /\ ApplyInOrder(r.kept, l, height).ok
             /\ ApplyInOrder(r.kept, l, height).ledger = r.ledger
             /\ ToSet(txs) = ToSet(r.kept) \cup ToSet(r.rest)
             /\ \/ Len(r.kept) = limit
                \/ \A tx \in ToSet(r.rest) : ~CanApply(tx, r.ledger)
                \/ Len(r.kept) >= n
           Good == {n \in 0 .. N : Round(f[n], n)}
<1>5. 0 \in Good
  <2>1. 0 \in 0 .. N
    BY <1>1
  <2>2. f[0] = NextRound(txs, state, f, 0)
    BY <1>3, <2>1
  <2>3. f[0] = [kept |-> << >>, rest |-> ByFee(txs), ledger |-> l]
    BY <2>2 DEF NextRound, l
  <2> DEFINE r == f[0]
  <2>4. r.kept = << >> /\ r.rest = ByFee(txs) /\ r.ledger = l
    BY <2>3
  <2>5. IsSeq(ByFee(txs)) /\ Len(ByFee(txs)) = N /\ ToSet(ByFee(txs)) = ToSet(txs)
    BY ByFeeIsSeq, ByFeeIsPermutation
  <2> HIDE DEF r
  <2>6. ApplyInOrder(<< >>, l, height).ok /\ ApplyInOrder(<< >>, l, height).ledger = l
    BY ApplyNothing
  <2> HIDE DEF N
  <2>7. Round(r, 0)
    BY <1>1, <2>4, <2>5, <2>6, EmptyIsSeq, EmptyToSet
  <2> HIDE DEF Round
  <2> QED BY <2>1, <2>7 DEF r
<1>6. ASSUME NEW n \in 0 .. N, n # N, n \in Good PROVE n + 1 \in Good
  <2> DEFINE k == n + 1
             p == f[n]
             room == limit - Len(p.kept)
             next == KeepApplicable(p.rest, p.ledger, height, room)
             v == f[k]
  <2>1. n \in Nat /\ k \in 0 .. N /\ k # 0 /\ k - 1 = n
    BY <1>1, <1>6
  <2>2. Round(p, n)
    BY <1>6
  <2>3. v = [next EXCEPT !.kept = p.kept \o @]
    <3>1. f[k] = NextRound(txs, state, f, k)
      BY <1>3, <2>1
    <3> HIDE DEF k
    <3> QED BY <2>1, <3>1, <1>4 DEF NextRound, height
  <2>4. room \in Nat
    BY <1>1, <2>2
  <2> HIDE DEF room, next, p
  <2>5. /\ DOMAIN next = {"kept", "rest", "ledger"}
        /\ IsSeq(next.kept) /\ IsSeq(next.rest)
        /\ ApplyInOrder(next.kept, p.ledger, height).ok
        /\ ApplyInOrder(next.kept, p.ledger, height).ledger = next.ledger
    BY <2>2, KeptApplies DEF next
  <2>6. /\ Len(next.kept) \in Nat /\ Len(next.rest) \in Nat
        /\ Len(next.kept) + Len(next.rest) = Len(p.rest)
        /\ Len(next.kept) <= room
        /\ ToSet(p.rest) = ToSet(next.kept) \cup ToSet(next.rest)
        /\ Len(next.kept) = 0 => next.ledger = p.ledger
        /\ Len(next.kept) = 0 /\ room # 0 => \A tx \in ToSet(p.rest) : ~CanApply(tx, p.ledger)
        /\ Len(next.kept) # 0 => \E tx \in ToSet(p.rest) : CanApply(tx, p.ledger)
    <3>1. IsSeq(p.rest)
      BY <2>2
    <3> DEFINE rest == p.rest
               m == p.ledger
    <3>2. IsSeq(rest) /\ room \in Nat /\ next = KeepApplicable(rest, m, height, room)
      BY <2>4, <3>1 DEF next
    <3> HIDE DEF rest, m
    <3>3. Splits(next, rest, m, room)
      BY <3>2, KeptSplits
    <3> QED BY <3>3 DEF rest, m, Splits
  <2> DEFINE w == f[k]
  <2> HIDE DEF v
  <2>7. v.kept = p.kept \o next.kept /\ v.rest = next.rest /\ v.ledger = next.ledger
    BY <2>3, <2>5
  <2> HIDE DEF k, N, limit
  <2>8. IsSeq(v.kept) /\ Len(v.kept) = Len(p.kept) + Len(next.kept)
        /\ ToSet(v.kept) = ToSet(p.kept) \cup ToSet(next.kept)
    BY <2>2, <2>5, <2>7, JoinIsSeq, JoinSize
  <2>9. /\ ApplyInOrder(v.kept, l, height).ok
        /\ ApplyInOrder(v.kept, l, height).ledger = v.ledger
    BY <2>2, <2>5, <2>7, ApplyJoined
  <2>10. room = limit - Len(p.kept)
    BY DEF room
  <2>11. /\ Len(v.kept) \in Nat /\ Len(v.rest) \in Nat
         /\ Len(v.kept) + Len(v.rest) = N /\ Len(v.kept) <= limit
    <3> DEFINE pk == Len(p.kept)
               pr == Len(p.rest)
               nk == Len(next.kept)
               nr == Len(next.rest)
    <3>1. /\ pk \in Nat /\ pr \in Nat /\ pk + pr = N /\ pk <= limit
          /\ nk \in Nat /\ nr \in Nat /\ nk + nr = pr /\ nk <= limit - pk
          /\ N \in Nat /\ limit \in Nat
      BY <1>1, <2>2, <2>6, <2>10
    <3>2. Len(v.kept) = pk + nk /\ Len(v.rest) = nr
      BY <2>7, <2>8
    <3> HIDE DEF pk, pr, nk, nr
    <3> QED BY <3>1, <3>2
  <2>12. ToSet(txs) = ToSet(v.kept) \cup ToSet(v.rest)
    BY <2>2, <2>6, <2>7, <2>8
  <2>13. \/ Len(v.kept) = limit
         \/ \A tx \in ToSet(v.rest) : ~CanApply(tx, v.ledger)
         \/ Len(v.kept) >= k
    <3>1. CASE Len(next.kept) = 0 /\ room = 0
      BY <1>1, <2>2, <2>8, <2>10, <3>1
    <3>2. CASE Len(next.kept) = 0 /\ room # 0
      <4>1. \A tx \in ToSet(p.rest) : ~CanApply(tx, p.ledger)
        BY <2>6, <3>2
      <4>2. ToSet(next.rest) \subseteq ToSet(p.rest) /\ next.ledger = p.ledger
        BY <2>6, <3>2
      <4> QED BY <2>7, <4>1, <4>2
    <3>3. CASE Len(next.kept) # 0
      <4>1. \E tx \in ToSet(p.rest) : CanApply(tx, p.ledger)
        BY <2>6, <3>3
      <4>2. Len(p.kept) = limit \/ Len(p.kept) >= n
        BY <2>2, <4>1
      <4>3. k = n + 1
        BY DEF k
      <4> DEFINE pk == Len(p.kept)
                 nk == Len(next.kept)
      <4>4. /\ pk \in Nat /\ nk \in Nat /\ nk # 0 /\ Len(v.kept) = pk + nk /\ n \in Nat
            /\ nk <= limit - pk /\ limit \in Nat /\ (pk = limit \/ pk >= n)
        BY <1>1, <2>1, <2>2, <2>6, <2>8, <2>10, <3>3, <4>2
      <4> HIDE DEF pk, nk
      <4> QED BY <4>3, <4>4
    <3> QED BY <3>1, <3>2, <3>3
  <2>14. Round(v, k)
    BY <2>2, <2>5, <2>7, <2>8, <2>9, <2>11, <2>12, <2>13
  <2> HIDE DEF Round
  <2> QED BY <2>1, <2>14 DEF v, k
<1>7. N \in Good
  <2> HIDE DEF Good, N
  <2>1. 0 .. N \subseteq Good
    BY <1>1, <1>5, <1>6, HoldsUpTo
  <2> QED BY <1>1, <2>1
<1> DEFINE r == f[N]
<1>8. Round(r, N)
  BY <1>7
<1> HIDE DEF r
<1>9. Len(r.kept) >= N => ToSet(r.rest) = {}
  <2>1. /\ Len(r.kept) \in Nat /\ Len(r.rest) \in Nat
        /\ Len(r.kept) + Len(r.rest) = N /\ IsSeq(r.rest)
    BY <1>8
  <2> HIDE DEF N, Round
  <2>2. Len(r.kept) >= N => Len(r.rest) = 0
    <3> DEFINE a == Len(r.kept)
               b == Len(r.rest)
    <3>1. a \in Nat /\ b \in Nat /\ a + b = N /\ N \in Nat
      BY <1>1, <2>1
    <3> HIDE DEF a, b
    <3>2. a >= N => b = 0
      BY <3>1
    <3> QED BY <3>2 DEF a, b
  <2> QED BY <2>1, <2>2, EmptyToSet
<1>10. \/ Len(r.kept) = limit
       \/ \A tx \in ToSet(r.rest) : ~CanApply(tx, r.ledger)
  BY <1>8, <1>9
<1>11. SelectedTransactions(txs, state) = r.kept
  BY <1>2 DEF r
<1> HIDE DEF N
<1>12. \A tx \in ToSet(txs) \ ToSet(r.kept) : tx \in ToSet(r.rest)
  BY <1>8
<1>13. Len(r.kept) \in 0 .. limit
  BY <1>1, <1>8
<1> QED BY <1>8, <1>10, <1>11, <1>12, <1>13 DEF l, height, limit

----------------------------------------------------------------------------
(* What reconciliation takes and leaves.                                   *)

\* Two lists of the same elements in the same order.
LEMMA SameSeq ==
    ASSUME NEW s, IsSeq(s), NEW t, IsSeq(t), Len(s) = Len(t), \A i \in 1 .. Len(s) : s[i] = t[i]
    PROVE  s = t
<1>1. PICK A, B : s \in Seq(A) /\ t \in Seq(B)
  BY DEF IsSeq
<1>2. s \in Seq(A \cup B) /\ t \in Seq(A \cup B)
  BY <1>1
<1>3. /\ s \in [1 .. Len(s) -> A \cup B] /\ t \in [1 .. Len(t) -> A \cup B]
  BY <1>2
<1> QED BY <1>3

\* What stays of a list when some are taken out; all of it when none are.
LEMMA WithoutKeeps ==
    ASSUME NEW txs, IsSeq(txs), NEW known
    PROVE  /\ ToSet(Without(txs, known)) \subseteq ToSet(txs) \ known
           /\ known = {} => Without(txs, known) = txs
<1> DEFINE last == Len(txs)
<1>1. last \in Nat /\ DOMAIN txs = 1 .. last
  BY SeqLength
<1>2. PICK f : /\ f = [n \in 0 .. last |-> NextWithout(txs, known, f, n)]
               /\ Without(txs, known) = f[last]
  BY <1>1, WithoutSolves
<1>3. \A n \in 0 .. last : f[n] = NextWithout(txs, known, f, n)
  BY <1>2
<1>4. \A i \in 1 .. last : txs[i] \in ToSet(txs)
  BY <1>1 DEF ToSet
<1> DEFINE Kept(s, n) == /\ IsSeq(s) /\ ToSet(s) \subseteq ToSet(txs) \ known
                         /\ known = {} => Len(s) = n /\ \A i \in 1 .. n : s[i] = txs[i]
           Held == {n \in 0 .. last : Kept(f[n], n)}
<1>5. last = Len(txs)
  OBVIOUS
<1> HIDE DEF last
<1>6. 0 \in Held
  <2>1. f[0] = << >>
    BY <1>1, <1>3 DEF NextWithout
  <2>2. Kept(<< >>, 0)
    BY EmptyIsSeq, EmptyToSet
  <2> HIDE DEF Kept
  <2> QED BY <1>1, <2>1, <2>2
<1>7. ASSUME NEW n \in 0 .. last, n # last, n \in Held
      PROVE  n + 1 \in Held
  <2> DEFINE k == n + 1
             p == f[n]
             tx == txs[k]
  <2>1. k \in 0 .. last /\ k \in 1 .. last /\ k # 0 /\ k - 1 = n /\ n \in Nat
    BY <1>1, <1>7
  <2>2. f[k] = IF tx \in known THEN p ELSE Append(p, tx)
    BY <1>3, <2>1 DEF NextWithout
  <2>3. Kept(p, n) /\ tx \in ToSet(txs)
    BY <1>4, <1>7, <2>1
  <2> HIDE DEF p, tx
  <2>4. CASE tx \in known
    <3>1. f[k] = p /\ known # {}
      BY <2>2, <2>4
    <3>2. Kept(f[k], k)
      BY <2>3, <3>1
    <3> HIDE DEF Kept
    <3> QED BY <2>1, <3>2
  <2>5. CASE tx \notin known
    <3> DEFINE s == Append(p, tx)
    <3>1. /\ IsSeq(s) /\ Len(s) = Len(p) + 1
          /\ \A i \in 1 .. Len(p) : s[i] = p[i]
          /\ s[Len(p) + 1] = tx
          /\ ToSet(s) = ToSet(p) \cup {tx}
      BY <2>3, AppendIsSeq, ToSetAppend
    <3> HIDE DEF s
    <3>2. ToSet(s) \subseteq ToSet(txs) \ known
      BY <2>3, <2>5, <3>1
    <3>3. ASSUME known = {}
          PROVE  Len(s) = k /\ \A i \in 1 .. k : s[i] = txs[i]
      <4>1. Len(p) = n /\ \A i \in 1 .. n : p[i] = txs[i]
        BY <2>3, <3>3
      <4>2. ASSUME NEW i \in 1 .. k PROVE s[i] = txs[i]
        <5>1. i \in 1 .. n \/ i = k
          BY <2>1
        <5> QED BY <3>1, <4>1, <5>1 DEF tx
      <4> QED BY <3>1, <4>1, <4>2
    <3>4. Kept(s, k)
      BY <3>1, <3>2, <3>3
    <3>5. f[k] = s
      BY <2>2, <2>5 DEF s
    <3> HIDE DEF Kept
    <3> QED BY <2>1, <3>4, <3>5
  <2> QED BY <2>4, <2>5
<1>8. Kept(f[last], last)
  <2> HIDE DEF Held
  <2>1. 0 .. last \subseteq Held
    BY <1>1, <1>6, <1>7, HoldsUpTo
  <2>2. last \in Held
    BY <1>1, <2>1
  <2> HIDE DEF Kept
  <2> QED BY <2>2 DEF Held
<1> DEFINE r == f[last]
<1>9. Kept(r, last)
  BY <1>8
<1> HIDE DEF r
<1>10. known = {} => r = txs
  BY <1>5, <1>9, SameSeq
<1> QED BY <1>2, <1>9, <1>10 DEF r

\* The elements of a list of lists.
LEMMA FlattenToSet ==
    ASSUME NEW seqs, IsSeq(seqs), \A i \in DOMAIN seqs : IsSeq(seqs[i])
    PROVE  ToSet(FlattenSeq(seqs)) = UNION {ToSet(seqs[i]) : i \in DOMAIN seqs}
<1> DEFINE last == Len(seqs)
           Of(n) == UNION {ToSet(seqs[i]) : i \in 1 .. n}
<1>1. last \in Nat /\ DOMAIN seqs = 1 .. last
  BY SeqLength
<1>2. CASE last = 0
  <2>1. FlattenSeq(seqs) = << >>
    BY <1>2 DEF FlattenSeq
  <2>2. DOMAIN seqs = {}
    BY <1>1, <1>2
  <2> QED BY <2>1, <2>2, EmptyToSet
<1>3. CASE last # 0
  <2>1. PICK f : /\ f = [n \in 1 .. last |-> NextFlat(seqs, f, n)]
                 /\ FlattenSeq(seqs) = f[last]
    BY <1>1, <1>3, FlattenSeqSolves
  <2>2. \A n \in 1 .. last : f[n] = NextFlat(seqs, f, n)
    BY <2>1
  <2> HIDE DEF last
  <2> DEFINE Flat(s, n) == IsSeq(s) /\ ToSet(s) = Of(n)
             Held == {n \in 0 .. last : n # 0 => Flat(f[n], n)}
  <2>3. 0 \in Held
    BY <1>1
  <2>4. ASSUME NEW n \in 0 .. last, n # last, n \in Held
        PROVE  n + 1 \in Held
    <3> DEFINE k == n + 1
    <3>1. k \in 0 .. last /\ k \in 1 .. last /\ k # 0 /\ k - 1 = n /\ n \in Nat
      BY <1>1, <2>4
    <3>2. f[k] = IF k = 1 THEN seqs[k] ELSE f[n] \o seqs[k]
      BY <2>2, <3>1 DEF NextFlat
    <3>3. IsSeq(seqs[k])
      BY <1>1, <3>1
    <3>4. Of(k) = Of(n) \cup ToSet(seqs[k])
      <4>1. \A i \in 1 .. k : i \in 1 .. n \/ i = k
        BY <3>1
      <4>2. \A i \in 1 .. n : i \in 1 .. k
        BY <3>1
      <4>3. k \in 1 .. k
        BY <3>1
      <4> HIDE DEF k
      <4> QED BY <4>1, <4>2, <4>3
    <3>5. CASE n = 0
      <4>1. f[k] = seqs[k]
        BY <3>1, <3>2, <3>5
      <4>2. Of(n) = {}
        BY <3>5
      <4>3. Flat(f[k], k)
        BY <3>3, <3>4, <4>1, <4>2
      <4> HIDE DEF Flat
      <4> QED BY <3>1, <4>3
    <3>6. CASE n # 0
      <4>0. k # 1
        BY <3>1, <3>6
      <4>1. f[k] = f[n] \o seqs[k]
        BY ONLY <3>2, <4>0
      <4>2. Flat(f[n], n)
        BY <2>4, <3>6
      <4> DEFINE s == f[n]
                 t == seqs[k]
      <4>3. IsSeq(s) /\ IsSeq(t) /\ f[k] = s \o t
        BY <3>3, <4>1, <4>2
      <4> HIDE DEF s, t
      <4>4. IsSeq(s \o t) /\ ToSet(s \o t) = ToSet(s) \cup ToSet(t)
        BY <4>3, JoinIsSeq, JoinSize
      <4>5. Flat(f[k], k)
        BY <3>4, <4>2, <4>3, <4>4 DEF s, t
      <4> HIDE DEF Flat
      <4> QED BY <3>1, <4>5
    <3> QED BY <3>5, <3>6
  <2>5. last \in Held
    <3> HIDE DEF Held
    <3>1. 0 .. last \subseteq Held
      BY <1>1, <2>3, <2>4, HoldsUpTo
    <3> QED BY <1>1, <3>1
  <2>6. ToSet(f[last]) = Of(last)
    BY <1>3, <2>5
  <2> QED BY <1>1, <2>1, <2>6 DEF last
<1> QED BY <1>2, <1>3

\* Transactions that all apply in their order are all kept.
LEMMA AllAreKept ==
    ASSUME NEW txs, IsSeq(txs), NEW l, NEW height, ApplyInOrder(txs, l, height).ok
    PROVE  ToSet(KeepApplicable(txs, l, height, Len(txs)).kept) = ToSet(txs)
<1> DEFINE last == Len(txs)
<1>1. last \in Nat /\ DOMAIN txs = 1 .. last
  BY SeqLength
<1>2. PICK f : /\ f = [n \in 0 .. last |-> NextKept(txs, l, height, last, f, n)]
               /\ KeepApplicable(txs, l, height, last) = f[last]
  <2>1. ASSUME NEW lim
        PROVE  \E f : /\ f = [n \in 0 .. Len(txs) |-> NextKept(txs, l, height, lim, f, n)]
                      /\ KeepApplicable(txs, l, height, lim) = f[Len(txs)]
    BY <1>1, KeepApplicableSolves
  <2> QED BY <2>1, Zenon
<1>3. PICK g : /\ g = [n \in 0 .. last |-> NextApplied(txs, l, height, g, n)]
               /\ ApplyInOrder(txs, l, height) = g[last]
  BY <1>1, ApplyInOrderSolves
<1>4. \A n \in 0 .. last : /\ f[n] = NextKept(txs, l, height, last, f, n)
                           /\ g[n] = NextApplied(txs, l, height, g, n)
  BY <1>2, <1>3
<1>5. last = Len(txs)
  OBVIOUS
<1> HIDE DEF last
<1> DEFINE Kept(r, a, n) ==
             /\ DOMAIN r = {"kept", "rest", "ledger"} /\ DOMAIN a = {"ok", "ledger", "fees"}
             /\ a.ok \in BOOLEAN
             /\ a.ok => /\ IsSeq(r.kept) /\ Len(r.kept) = n /\ r.rest = << >>
                        /\ r.ledger = a.ledger
           Held == {n \in 0 .. last : Kept(f[n], g[n], n)}
<1>6. 0 \in Held
  <2>0. /\ f[0] = NextKept(txs, l, height, last, f, 0)
        /\ g[0] = NextApplied(txs, l, height, g, 0)
    BY <1>1, <1>4
  <2>1. /\ f[0] = [kept |-> << >>, rest |-> << >>, ledger |-> l]
        /\ g[0] = [ok |-> TRUE, ledger |-> l, fees |-> 0]
    BY <2>0 DEF NextKept, NextApplied
  <2>2. Kept(f[0], g[0], 0)
    BY <2>1, EmptyIsSeq, EmptyToSet
  <2> HIDE DEF Kept
  <2> QED BY <1>1, <2>2
<1>7. ASSUME NEW n \in 0 .. last, n # last, n \in Held
      PROVE  n + 1 \in Held
  <2> DEFINE k == n + 1
             p == f[n]
             a == g[n]
             tx == txs[k]
  <2>1. k \in 0 .. last /\ k # 0 /\ k - 1 = n /\ n \in Nat /\ n < last
    BY <1>1, <1>7
  <2>2. /\ f[k] = IF Len(p.kept) < last /\ CanApply(tx, p.ledger)
                  THEN [p EXCEPT !.kept = Append(@, tx),
                                 !.ledger = ApplyTransaction(tx, p.ledger, height)]
                  ELSE [p EXCEPT !.rest = Append(@, tx)]
        /\ g[k] = IF a.ok /\ CanApply(tx, a.ledger)
                  THEN [ ok     |-> TRUE,
                         ledger |-> ApplyTransaction(tx, a.ledger, height),
                         fees   |-> a.fees + FeePaid(tx, a.ledger, height) ]
                  ELSE [a EXCEPT !.ok = FALSE]
    BY <1>4, <2>1 DEF NextKept, NextApplied
  <2>3. Kept(p, a, n)
    BY <1>7
  <2> HIDE DEF p, a, tx
  <2>4. CASE a.ok /\ CanApply(tx, a.ledger)
    <3> DEFINE s == Append(p.kept, tx)
               next == ApplyTransaction(tx, p.ledger, height)
    <3>1. /\ IsSeq(p.kept) /\ Len(p.kept) = n /\ p.rest = << >> /\ p.ledger = a.ledger
      BY <2>3, <2>4
    <3>2. IsSeq(s) /\ Len(s) = k
      BY <3>1, AppendIsSeq
    <3>3. f[k] = [p EXCEPT !.kept = s, !.ledger = next]
      BY <2>1, <2>2, <2>4, <3>1
    <3>4. DOMAIN g[k] = {"ok", "ledger", "fees"} /\ g[k].ok = TRUE /\ g[k].ledger = next
      BY <2>2, <2>4, <3>1
    <3> HIDE DEF s, next
    <3>5. /\ DOMAIN f[k] = {"kept", "rest", "ledger"}
          /\ f[k].kept = s /\ f[k].rest = << >> /\ f[k].ledger = next
      BY <2>3, <3>1, <3>3
    <3>6. Kept(f[k], g[k], k)
      BY <3>2, <3>4, <3>5
    <3> HIDE DEF Kept
    <3> QED BY <2>1, <3>6
  <2>5. CASE ~(a.ok /\ CanApply(tx, a.ledger))
    <3>1. DOMAIN g[k] = {"ok", "ledger", "fees"} /\ g[k].ok = FALSE
      BY <2>2, <2>3, <2>5
    <3>2. DOMAIN f[k] = {"kept", "rest", "ledger"}
      BY <2>2, <2>3
    <3>3. Kept(f[k], g[k], k)
      BY <3>1, <3>2
    <3> HIDE DEF Kept
    <3> QED BY <2>1, <3>3
  <2> QED BY <2>4, <2>5
<1>8. Kept(f[last], g[last], last)
  <2> HIDE DEF Held
  <2>1. 0 .. last \subseteq Held
    BY <1>1, <1>6, <1>7, HoldsUpTo
  <2>2. last \in Held
    BY <1>1, <2>1
  <2> HIDE DEF Kept
  <2> QED BY <2>2 DEF Held
<1>9. f[last].rest = << >>
  BY <1>3, <1>8
<1> DEFINE r == f[last]
<1>10. Splits(KeepApplicable(txs, l, height, last), txs, l, last)
  BY <1>1, KeptSplits
<1>11. KeepApplicable(txs, l, height, last) = r
  BY <1>2
<1>12. r.rest = << >>
  BY <1>9
<1> HIDE DEF r
<1>13. ToSet(txs) = ToSet(r.kept) \cup ToSet(r.rest)
  BY <1>10, <1>11 DEF Splits
<1> QED BY <1>5, <1>11, <1>12, <1>13, EmptyToSet

\* The transactions of a branch are those of its blocks.
BodiesFrom(tree, c, from) == UNION {ToSet(tree[c[i]].transactions) : i \in from .. Len(c)}

LEMMA BranchElements ==
    ASSUME NEW tree, NEW height, IsTree(tree, height),
           \A h \in DOMAIN tree : IsSeq(tree[h].transactions),
           NEW g \in DOMAIN tree \cup {NoHash}, NEW stop \in DOMAIN tree \cup {NoHash}
    PROVE  /\ IsSeq(BranchTransactions(tree, g, stop))
           /\ ToSet(BranchTransactions(tree, g, stop))
                 = BodiesFrom(tree, ChainTo(tree, g), Len(ChainTo(tree, stop)) + 1)
<1> DEFINE chain == ChainTo(tree, g)
           from == Len(ChainTo(tree, stop)) + 1
<1>0. PICK bodies : AreBodies(bodies, tree, g, stop)
  BY BranchBodies
<1>1. /\ IsSeq(bodies) /\ \A i \in DOMAIN bodies : IsSeq(bodies[i])
      /\ BranchTransactions(tree, g, stop) = FlattenSeq(bodies)
      /\ {bodies[i] : i \in DOMAIN bodies}
            = {tree[chain[i]].transactions : i \in from .. Len(chain)}
  BY <1>0 DEF AreBodies
<1> HIDE DEF chain, from
<1>2. /\ IsSeq(FlattenSeq(bodies))
      /\ ToSet(FlattenSeq(bodies)) = UNION {ToSet(bodies[i]) : i \in DOMAIN bodies}
  BY <1>1, FlattenIsSeq, FlattenToSet
<1> DEFINE B == {bodies[i] : i \in DOMAIN bodies}
<1>3. UNION {ToSet(bodies[i]) : i \in DOMAIN bodies} = UNION {ToSet(body) : body \in B}
  OBVIOUS
<1>4. UNION {ToSet(body) : body \in B}
          = UNION {ToSet(tree[chain[i]].transactions) : i \in from .. Len(chain)}
  <2>1. B = {tree[chain[i]].transactions : i \in from .. Len(chain)}
    BY <1>1
  <2> HIDE DEF B
  <2> QED BY <2>1
<1> HIDE DEF B
<1> QED BY <1>1, <1>2, <1>3, <1>4 DEF BodiesFrom, chain, from

\* A branch is a part of the whole chain, and none of it is above its head.
LEMMA BranchOfChain ==
    ASSUME NEW tree, NEW height, IsTree(tree, height),
           \A h \in DOMAIN tree : IsSeq(tree[h].transactions),
           NEW g \in DOMAIN tree \cup {NoHash}, NEW stop \in DOMAIN tree \cup {NoHash}
    PROVE  /\ ToSet(BranchTransactions(tree, g, stop))
                 \subseteq ToSet(BranchTransactions(tree, g, NoHash))
           /\ ToSet(BranchTransactions(tree, g, NoHash))
                 = UNION {ToSet(tree[h].transactions) : h \in ToSet(ChainTo(tree, g))}
           /\ ToSet(BranchTransactions(tree, g, g)) = {}
<1> DEFINE chain == ChainTo(tree, g)
           down  == ChainTo(tree, stop)
<1>1. /\ chain \in Seq(DOMAIN tree) /\ Len(chain) \in Nat /\ DOMAIN chain = 1 .. Len(chain)
      /\ Len(down) \in Nat
  <2>1. chain \in Seq(DOMAIN tree) /\ down \in Seq(DOMAIN tree)
    BY ChainsGrow
  <2> HIDE DEF chain, down
  <2> QED BY <2>1
<1>2. /\ ToSet(BranchTransactions(tree, g, stop)) = BodiesFrom(tree, chain, Len(down) + 1)
      /\ ToSet(BranchTransactions(tree, g, g)) = BodiesFrom(tree, chain, Len(chain) + 1)
  BY BranchElements
<1>3. ToSet(BranchTransactions(tree, g, NoHash)) = BodiesFrom(tree, chain, 1)
  <2>1. ChainTo(tree, NoHash) = << >>
    BY ChainsGrow
  <2>2. Len(ChainTo(tree, NoHash)) + 1 = 1
    BY <2>1
  <2> QED BY <2>2, BranchElements
<1> HIDE DEF chain, down
<1>4. BodiesFrom(tree, chain, Len(down) + 1) \subseteq BodiesFrom(tree, chain, 1)
  <2>1. \A i \in Len(down) + 1 .. Len(chain) : i \in 1 .. Len(chain)
    BY <1>1
  <2> QED BY <2>1 DEF BodiesFrom
<1>5. BodiesFrom(tree, chain, Len(chain) + 1) = {}
  <2>1. Len(chain) + 1 .. Len(chain) = {}
    BY <1>1
  <2> QED BY <2>1 DEF BodiesFrom
<1>6. BodiesFrom(tree, chain, 1) = UNION {ToSet(tree[h].transactions) : h \in ToSet(chain)}
  <2>1. ToSet(chain) = {chain[i] : i \in 1 .. Len(chain)}
    BY <1>1 DEF ToSet
  <2> QED BY <2>1 DEF BodiesFrom
<1> QED BY <1>2, <1>3, <1>4, <1>5, <1>6 DEF chain

\* What the pool holds once it is reconciled was in it, or on the branch that
\* was left.
LEMMA ReconciledComesFrom ==
    ASSUME NEW tree, NEW height, IsTree(tree, height),
           \A h \in DOMAIN tree : IsSeq(tree[h].transactions),
           NEW previous \in DOMAIN tree \cup {NoHash}, NEW head \in DOMAIN tree \cup {NoHash},
           NEW canonical, NEW txs, IsSeq(txs)
    PROVE  ToSet(Reconciled(tree, canonical, previous, head, txs))
               \subseteq ToSet(txs) \cup {tx \in ToSet(BranchTransactions(tree, previous, NoHash)) :
                                             ~IsReward(tx)}
<1> DEFINE ancestor   == CommonAncestor(tree, previous, head)
           current    == ToSet(BranchTransactions(tree, head, ancestor))
           returned   == BranchTransactions(tree, previous, ancestor)
           rewards    == {tx \in ToSet(returned) : IsReward(tx)}
           all        == returned \o txs
           candidates == Without(all, current \cup rewards)
           r          == KeepApplicable(candidates, canonical.ledger, canonical.height + 1,
                                        Len(candidates))
<1>1. Reconciled(tree, canonical, previous, head, txs) = r.kept
  BY DEF Reconciled
<1>2. ancestor \in DOMAIN tree \cup {NoHash}
  BY AncestorIsStored
<1> HIDE DEF ancestor
<1>3. /\ IsSeq(returned)
      /\ ToSet(returned) \subseteq ToSet(BranchTransactions(tree, previous, NoHash))
  BY <1>2, BranchElements, BranchOfChain
<1> HIDE DEF current, returned
<1>4. IsSeq(all) /\ ToSet(all) = ToSet(returned) \cup ToSet(txs)
  BY <1>3, JoinIsSeq, JoinSize
<1> HIDE DEF all
<1> DEFINE known == current \cup rewards
<1>5. rewards \subseteq known
  OBVIOUS
<1>6. IsSeq(candidates) /\ ToSet(candidates) \subseteq ToSet(all) \ known
  <2> HIDE DEF known
  <2>1. candidates = Without(all, known)
    BY DEF known
  <2> HIDE DEF candidates
  <2> QED BY <1>4, <2>1, WithoutIsSeq, WithoutKeeps
<1> HIDE DEF known, candidates
<1>7. ToSet(r.kept) \subseteq ToSet(candidates)
  <2> DEFINE size == Len(candidates)
             l == canonical.ledger
             up == canonical.height + 1
  <2>1. size \in Nat
    BY <1>6, SeqLength
  <2>2. size = Len(candidates)
    OBVIOUS
  <2> HIDE DEF size, l, up
  <2>3. Splits(KeepApplicable(candidates, l, up, size), candidates, l, size)
    BY <1>6, <2>1, KeptSplits
  <2> QED BY <2>2, <2>3 DEF Splits, l, up
<1> HIDE DEF r
<1> QED BY <1>1, <1>3, <1>4, <1>5, <1>6, <1>7

\* A tip that stays leaves a pool that applies as it was.
LEMMA ReconciledStays ==
    ASSUME NEW tree, NEW height, IsTree(tree, height),
           \A h \in DOMAIN tree : IsSeq(tree[h].transactions),
           NEW head \in DOMAIN tree \cup {NoHash},
           NEW canonical, NEW txs, IsSeq(txs), PoolOn(txs, canonical).ok
    PROVE  ToSet(Reconciled(tree, canonical, head, head, txs)) = ToSet(txs)
<1> DEFINE ancestor   == CommonAncestor(tree, head, head)
           branch     == BranchTransactions(tree, head, head)
           known      == ToSet(branch) \cup {tx \in ToSet(branch) : IsReward(tx)}
           candidates == Without(branch \o txs, known)
<1>1. ancestor = head
  BY AncestorIsStored
<1>2. Reconciled(tree, canonical, head, head, txs)
          = KeepApplicable(candidates, canonical.ledger, canonical.height + 1,
                           Len(candidates)).kept
  BY <1>1 DEF Reconciled
<1>3. IsSeq(branch) /\ ToSet(branch) = {}
  BY BranchElements, BranchOfChain
<1> HIDE DEF branch
<1>4. branch \o txs = txs
  <2>1. Len(branch) = 0
    <3>1. Len(branch) \in Nat /\ DOMAIN branch = 1 .. Len(branch)
      BY <1>3, SeqLength
    <3>2. ASSUME Len(branch) # 0 PROVE FALSE
      <4>1. 1 \in DOMAIN branch
        BY <3>1, <3>2
      <4> QED BY <1>3, <4>1 DEF ToSet
    <3> QED BY <3>2
  <2> DEFINE s == branch \o txs
  <2>2. IsSeq(s) /\ Len(s) = Len(branch) + Len(txs)
        /\ \A i \in 1 .. Len(txs) : s[Len(branch) + i] = txs[i]
    BY <1>3, JoinIsSeq, JoinSize
  <2> HIDE DEF s
  <2>3. Len(txs) \in Nat
    BY SeqLength
  <2>4. Len(s) = Len(txs) /\ \A i \in 1 .. Len(txs) : s[i] = txs[i]
    BY <2>1, <2>2, <2>3
  <2> QED BY <2>2, <2>4, SameSeq DEF s
<1>5. known = {}
  BY <1>3
<1> HIDE DEF known
<1>6. candidates = txs
  BY <1>4, <1>5, WithoutKeeps
<1> HIDE DEF candidates
<1>7. ApplyInOrder(txs, canonical.ledger, canonical.height + 1).ok
  BY DEF PoolOn
<1> DEFINE l == canonical.ledger
           up == canonical.height + 1
<1> HIDE DEF l, up
<1>8. ToSet(KeepApplicable(txs, l, up, Len(txs)).kept) = ToSet(txs)
  BY <1>7, AllAreKept DEF l, up
<1> QED BY <1>2, <1>6, <1>8 DEF l, up

----------------------------------------------------------------------------
(* The pool.                                                               *)

ListsAreSeqs ==
    /\ IsSeq(pending)
    /\ BodiesAreSeqs
    /\ candidate # NoBlock => IsSeq(candidate.transactions)

PoolInv == ListsAreSeqs /\ PoolApplies

LEMMA InitPool == Init => PoolInv
<1> SUFFICES ASSUME Init PROVE PoolInv
  OBVIOUS
<1>1. IsSeq(pending) /\ BodiesAreSeqs /\ candidate = NoBlock
  BY EmptyIsSeq DEF Init, BodiesAreSeqs, Stored
<1>2. PoolApplies
  BY ApplyNothing DEF Init, PoolApplies, PendingOn, PoolOn
<1> QED BY <1>1, <1>2 DEF PoolInv, ListsAreSeqs

\* Whatever the pool was, once it is reconciled it applies to the tip.
LEMMA ReconciledIsApplicable ==
    ASSUME NEW tree, NEW canonical, NEW previous, NEW head, NEW txs, IsSeq(txs),
           IsSeq(BranchTransactions(tree, previous, CommonAncestor(tree, previous, head)))
    PROVE  LET kept == Reconciled(tree, canonical, previous, head, txs)
           IN  IsSeq(kept) /\ PoolOn(kept, canonical).ok
<1> DEFINE ancestor   == CommonAncestor(tree, previous, head)
           current    == ToSet(BranchTransactions(tree, head, ancestor))
           returned   == BranchTransactions(tree, previous, ancestor)
           rewards    == {tx \in ToSet(returned) : IsReward(tx)}
           candidates == Without(returned \o txs, current \cup rewards)
           r          == KeepApplicable(candidates, canonical.ledger, canonical.height + 1,
                                        Len(candidates))
<1>1. Reconciled(tree, canonical, previous, head, txs) = r.kept
  BY DEF Reconciled
<1> HIDE DEF returned
<1>2. IsSeq(returned \o txs)
  BY JoinIsSeq DEF returned
<1>3. IsSeq(candidates)
  <2> HIDE DEF current, rewards
  <2> QED BY <1>2, WithoutIsSeq
<1> HIDE DEF candidates
<1>4. IsSeq(r.kept) /\ ApplyInOrder(r.kept, canonical.ledger, canonical.height + 1).ok
  BY <1>3, KeptApplies
<1> HIDE DEF r
<1> QED BY <1>1, <1>4 DEF PoolOn

LEMMA ReconciledApplies ==
    ASSUME ReturnedAreSeqs', mainTip \in (Stored \cup {NoHash})',
           mainTip' \in (Stored \cup {NoHash})', IsSeq(pending), ReconcilePending
    PROVE  IsSeq(pending') /\ PoolApplies'
<1> DEFINE state == StateAt(mainTip)'
<1>1. IsSeq(BranchTransactions(blocks', mainTip, CommonAncestor(blocks', mainTip, mainTip')))
  BY DEF ReturnedAreSeqs
<1>2. pending' = Reconciled(blocks', state, mainTip, mainTip', pending)
  BY DEF ReconcilePending
<1>3. PoolApplies' <=> PoolOn(pending', state).ok
  BY DEF PoolApplies, PendingOn
<1> HIDE DEF state
<1> QED BY <1>1, <1>2, <1>3, ReconciledIsApplicable

LEMMA AddBlockPool ==
    ASSUME IInv, ListsAreSeqs, NEW hash \in Hashes, NEW block, AddBlock(hash, block),
           IsSeq(block.transactions)
    PROVE  IsSeq(pending') /\ BodiesAreSeqs' /\ PoolApplies'
<1>1. IInv'
  BY AddBlockIInv
<1>2. /\ Stored' = Stored \cup {hash}
      /\ blocks'[hash] = block
      /\ \A h \in Stored : blocks'[h] = blocks[h]
  <2>1. blocks' = With(blocks, hash, block) /\ hash \notin DOMAIN blocks
    BY DEF AddBlock, Accepts, Stored
  <2> QED BY <2>1 DEF With, Stored
<1>3. BodiesAreSeqs'
  BY <1>2 DEF BodiesAreSeqs, ListsAreSeqs, Stored
<1>4. ReturnedAreSeqs'
  BY <1>1, <1>3, BranchesAreSeqs, PTL
<1>5. mainTip \in (Stored \cup {NoHash})' /\ mainTip' \in (Stored \cup {NoHash})'
  <2>1. mainTip \in Stored \cup {NoHash}
    BY DEF IInv, TipIsSound, MainTipIsHighest
  <2>2. mainTip' \in Stored' \cup {NoHash}
    BY <1>1 DEF IInv, TipIsSound, MainTipIsHighest
  <2> QED BY <2>1, <2>2, <1>2
<1>6. IsSeq(pending) /\ ReconcilePending
  BY DEF ListsAreSeqs, AddBlock
<1> QED BY <1>3, <1>4, <1>5, <1>6, ReconciledApplies

LEMMA NextPool ==
    ASSUME IInv, PoolInv, [Next]_vars
    PROVE  PoolInv'
<1> USE DEF PoolInv
<1>1. ASSUME UNCHANGED <<blocks, states, mainTip, pending>>
      PROVE  IsSeq(pending') /\ BodiesAreSeqs' /\ PoolApplies'
  BY <1>1 DEF ListsAreSeqs, BodiesAreSeqs, PoolApplies, PendingOn, PoolOn, StateAt, Stored
<1>2. ASSUME NEW hash \in Hashes, ReceiveBlock(hash)
      PROVE  PoolInv'
  <2>1. PICK parent \in Stored \cup {NoHash}, body \in PeerBodies \cup {<< >>},
             id \in 0 .. MaxHeight :
            \E work \in {-1, RequiredBits(id)} :
                AddBlock(hash, [ block_id |-> id, previous_hash |-> parent,
                                 transactions |-> body, work |-> work ])
    BY <1>2 DEF ReceiveBlock
  <2>2. PICK work \in {-1, RequiredBits(id)} :
            AddBlock(hash, [ block_id |-> id, previous_hash |-> parent,
                             transactions |-> body, work |-> work ])
    BY <2>1
  <2> DEFINE block == [ block_id |-> id, previous_hash |-> parent,
                        transactions |-> body, work |-> work ]
  <2>3. IsSeq(block.transactions)
    BY BodiesAssumption, EmptyIsSeq DEF IsSeq
  <2> HIDE DEF block
  <2>4. AddBlock(hash, block)
    BY <2>2 DEF block
  <2>5. IsSeq(pending') /\ BodiesAreSeqs' /\ PoolApplies'
    BY <2>3, <2>4, AddBlockPool
  <2> QED BY <1>2, <2>5 DEF ReceiveBlock, ListsAreSeqs
<1>3. ASSUME NEW tx \in Transactions, AddTransaction(tx)
      PROVE  PoolInv'
  <2> DEFINE l == StateAt(mainTip).ledger
             height == StateAt(mainTip).height + 1
  <2>1. /\ IsSeq(pending)
        /\ ApplyInOrder(pending, l, height).ok
        /\ CanApply(tx, ApplyInOrder(pending, l, height).ledger)
        /\ pending' = Append(pending, tx)
        /\ UNCHANGED <<blocks, states, mainTip, candidate>>
    BY <1>3 DEF AddTransaction, PendingOn, PoolOn, ListsAreSeqs
  <2>2. StateAt(mainTip)' = StateAt(mainTip)
    BY <2>1 DEF StateAt
  <2> HIDE DEF l, height
  <2>3. IsSeq(pending') /\ ApplyInOrder(pending', l, height).ok
    BY <2>1, AppendIsSeq, ApplyOneMore
  <2>4. PoolApplies'
    BY <2>2, <2>3 DEF PoolApplies, PendingOn, PoolOn, l, height
  <2> QED BY <2>1, <2>3, <2>4 DEF ListsAreSeqs, BodiesAreSeqs, Stored
<1>4. ASSUME NEW miner \in Miners, StartMining(miner)
      PROVE  PoolInv'
  <2>1. /\ UNCHANGED <<blocks, states, mainTip, pending>>
        /\ candidate' = MinedBlock(miner, mainTip)
    BY <1>4 DEF StartMining, chainVars
  <2> DEFINE selected == SelectedTransactions(pending, StateAt(mainTip))
  <2>2. IsSeq(selected)
    BY SelectedIsSeq DEF ListsAreSeqs
  <2>3. PICK reward : MinedBlock(miner, mainTip).transactions = <<reward>> \o selected
    BY DEF MinedBlock, BlockOf
  <2> HIDE DEF selected
  <2>4. IsSeq(<<reward>>)
    <3>1. <<reward>> \in Seq({reward})
      OBVIOUS
    <3> QED BY <3>1 DEF IsSeq
  <2>5. IsSeq(candidate'.transactions)
    BY <2>1, <2>2, <2>3, <2>4, JoinIsSeq
  <2> QED BY <1>1, <2>1, <2>5 DEF ListsAreSeqs
<1>5. ASSUME NEW hash \in Hashes, FinishMining(hash)
      PROVE  PoolInv'
  <2>1. /\ AddBlock(hash, candidate) /\ IsSeq(candidate.transactions)
        /\ candidate' = NoBlock
    BY <1>5 DEF FinishMining, ListsAreSeqs
  <2>2. IsSeq(pending') /\ BodiesAreSeqs' /\ PoolApplies'
    BY <2>1, AddBlockPool
  <2> QED BY <2>1, <2>2 DEF ListsAreSeqs
<1>6. CASE AbandonMining
  BY <1>1, <1>6 DEF AbandonMining, chainVars, ListsAreSeqs
<1>7. CASE VerifyChain
  <2>1. UNCHANGED <<blocks, states, mainTip, candidate>> /\ ReconcilePending
    BY <1>7, RecomputedIsStates, BestTipIsMainTip DEF VerifyChain
  <2>2. IInv' /\ BodiesAreSeqs'
    BY <2>1, KeepIInv DEF ListsAreSeqs, BodiesAreSeqs, Stored
  <2>3. ReturnedAreSeqs'
    BY <2>2, BranchesAreSeqs, PTL
  <2>4. mainTip \in (Stored \cup {NoHash})' /\ mainTip' \in (Stored \cup {NoHash})'
    BY <2>1 DEF IInv, TipIsSound, MainTipIsHighest, Stored
  <2>5. IsSeq(pending') /\ PoolApplies'
    BY <2>1, <2>3, <2>4, ReconciledApplies DEF ListsAreSeqs
  <2> QED BY <2>1, <2>2, <2>5 DEF ListsAreSeqs
<1>8. CASE UNCHANGED vars
  BY <1>1, <1>8 DEF vars, ListsAreSeqs
<1> QED BY <1>2, <1>3, <1>4, <1>5, <1>6, <1>7, <1>8 DEF Next

LEMMA PoolInvHolds == Spec => []PoolInv
<1>1. IInv /\ PoolInv /\ [Next]_vars => PoolInv'
  BY NextPool
<1> QED BY <1>1, InitPool, IInvHolds, PTL DEF Spec

\* The pool always applies to the main tip in its order, whatever branches
\* arrive and leave, so that add_transaction and get_next_nonce never raise.
THEOREM PoolAlwaysApplies == Spec => []PoolApplies
<1>1. PoolInv => PoolApplies
  BY DEF PoolInv
<1> QED BY <1>1, PoolInvHolds, PTL

\* A block that is mined from the pool leaves nothing out that would still
\* apply after it, unless it is full, whatever the fees and whoever waits for
\* whom: the rounds of _select_transactions_for_block stop neither too early
\* nor at a transaction that only has to wait for a cheaper one.
THEOREM SelectionsAreMaximal == Spec => []SelectionIsMaximal
<1>1. PoolInv => SelectionIsMaximal
  <2> SUFFICES ASSUME PoolInv PROVE SelectionIsMaximal
    OBVIOUS
  <2> DEFINE state == StateAt(mainTip)
  <2>1. IsSeq(pending) /\ ApplyInOrder(pending, state.ledger, state.height + 1).ok
    BY DEF PoolInv, ListsAreSeqs, PoolApplies, PendingOn, PoolOn
  <2> HIDE DEF state
  <2>2. HaveFees(pending)
    BY <2>1, AppliedHaveFees
  <2> DEFINE selected == SelectedTransactions(pending, state)
             after == ApplyInOrder(selected, state.ledger, state.height + 1)
  <2>3. \/ Len(selected) = MaxBlockTransactions - 1
        \/ \A tx \in ToSet(pending) \ ToSet(selected) : ~CanApply(tx, after.ledger)
    BY <2>1, <2>2, SelectedParts
  <2>4. \A i \in DOMAIN pending : pending[i] \in ToSet(pending)
    BY DEF ToSet
  <2> HIDE DEF after, selected
  <2>5. LeavesNothingOut(selected, after)
    BY <2>3, <2>4 DEF LeavesNothingOut
  <2> QED BY <2>5 DEF SelectionIsMaximal, state, selected, after
<1> QED BY <1>1, PoolInvHolds, PTL

----------------------------------------------------------------------------
(* One transaction.                                                        *)

LedgerFields ==
    {"balances", "nonces", "commitments", "reveals", "authorizations", "contracts", "storage",
     "receipts"}

IsLedger(l) ==
    /\ DOMAIN l = LedgerFields
    /\ l.nonces \in [Wallets -> Nat]

\* Reveals open the commitments their senders made.
Opened(l) ==
    \A key \in DOMAIN l.reveals :
        /\ key \in DOMAIN l.commitments
        /\ l.commitments[key] = CommitmentHash(key[1], key[2], l.reveals[key])

\* The entries of a dictionary are in the other one too.
Includes(new, old) == \A key \in DOMAIN old : key \in DOMAIN new /\ new[key] = old[key]

\* What no transaction may undo.
Follows(new, old) ==
    /\ IsLedger(new)
    /\ Opened(old) => Opened(new)
    /\ Includes(new.commitments, old.commitments)
    /\ Includes(new.reveals, old.reveals)
    /\ Includes(new.contracts, old.contracts)
    /\ \A w \in Wallets : old.nonces[w] <= new.nonces[w]

LEMMA FollowsItself ==
    ASSUME NEW l, IsLedger(l)
    PROVE  Follows(l, l)
BY DEF Follows, Includes, IsLedger

LEMMA FollowsOn ==
    ASSUME NEW a, NEW b, NEW c, IsLedger(a), Follows(b, a), Follows(c, b)
    PROVE  Follows(c, a)
<1>1. /\ Includes(c.commitments, a.commitments)
      /\ Includes(c.reveals, a.reveals)
      /\ Includes(c.contracts, a.contracts)
  BY DEF Follows, Includes
<1>2. \A w \in Wallets : a.nonces[w] <= c.nonces[w]
  BY DEF Follows, IsLedger
<1> QED BY <1>1, <1>2 DEF Follows

\* The nonce moves on, records stay.
LEMMA ChargedFollows ==
    ASSUME NEW l, IsLedger(l), NEW tx, tx.sender \in Wallets, NEW paid
    PROVE  LET m == Charged(tx, l, paid)
           IN  /\ IsLedger(m)
               /\ m.nonces = [l.nonces EXCEPT ![tx.sender] = @ + 1]
               /\ \A field \in LedgerFields \ {"nonces", "balances"} : m[field] = l[field]
<1> DEFINE m == Charged(tx, l, paid)
<1>1. /\ DOMAIN m = LedgerFields
      /\ m.nonces = [l.nonces EXCEPT ![tx.sender] = @ + 1]
      /\ \A field \in LedgerFields \ {"nonces", "balances"} : m[field] = l[field]
  BY DEF Charged, IsLedger, LedgerFields
<1>2. m.nonces \in [Wallets -> Nat]
  BY <1>1 DEF IsLedger
<1> QED BY <1>1, <1>2 DEF IsLedger

\* Apart from one field, what is left is what was charged.
SameBut(new, old, fields) ==
    /\ DOMAIN new = LedgerFields
    /\ \A field \in LedgerFields \ fields : new[field] = old[field]

\* A transaction moves its sender's nonce on by one, a reward none.
NoncesAfter(tx, l) ==
    IF IsReward(tx) THEN l.nonces ELSE [l.nonces EXCEPT ![tx.sender] = @ + 1]

\* A ledger that differs from one it follows in what no record is kept in.
LEMMA SameFollows ==
    ASSUME NEW l, IsLedger(l), NEW tx, IsReward(tx) \/ tx.sender \in Wallets,
           NEW m, SameBut(m, l, {"nonces", "balances", "authorizations", "storage", "receipts"}),
           m.nonces = NoncesAfter(tx, l)
    PROVE  Follows(m, l)
<1>1. m.nonces \in [Wallets -> Nat] /\ \A w \in Wallets : l.nonces[w] <= m.nonces[w]
  BY DEF NoncesAfter, IsLedger
<1>2. m.commitments = l.commitments /\ m.reveals = l.reveals /\ m.contracts = l.contracts
  BY DEF SameBut, LedgerFields
<1> QED BY <1>1, <1>2 DEF Follows, IsLedger, Includes, Opened, SameBut

\* A ledger that has one record more.
LEMMA AddedFollows ==
    ASSUME NEW l, IsLedger(l), NEW tx, IsReward(tx) \/ tx.sender \in Wallets, NEW m,
           SameBut(m, l, {"nonces", "balances", "commitments", "reveals", "contracts"}),
           m.nonces = NoncesAfter(tx, l),
           Includes(m.commitments, l.commitments), Includes(m.reveals, l.reveals),
           Includes(m.contracts, l.contracts),
           (Opened(l) /\ m.reveals # l.reveals) => Opened(m)
    PROVE  Follows(m, l)
<1>1. m.nonces \in [Wallets -> Nat] /\ \A w \in Wallets : l.nonces[w] <= m.nonces[w]
  BY DEF NoncesAfter, IsLedger
<1>2. Opened(l) => Opened(m)
  BY DEF Opened, Includes
<1> QED BY <1>1, <1>2 DEF Follows, IsLedger, SameBut

LEMMA ApplyFollows ==
    ASSUME NEW l, IsLedger(l), NEW tx, CanApply(tx, l), NEW height
    PROVE  /\ Follows(ApplyTransaction(tx, l, height), l)
           /\ ApplyTransaction(tx, l, height).nonces = NoncesAfter(tx, l)
<1> DEFINE m == ApplyTransaction(tx, l, height)
           c == Charged(tx, l, tx.fee + tx.amount)
           key == <<tx.sender, tx.data.request>>
<1>1. CASE IsReward(tx)
  <2>1. m = [l EXCEPT !.balances[tx.receiver] = @ + tx.amount]
    BY <1>1 DEF ApplyTransaction, IsReward
  <2>2. SameBut(m, l, {"balances"})
    BY <2>1 DEF SameBut, IsLedger, LedgerFields
  <2>3. m.nonces = NoncesAfter(tx, l)
    BY <2>2, <1>1 DEF SameBut, LedgerFields, NoncesAfter
  <2> QED BY <1>1, <2>2, <2>3, SameFollows DEF SameBut
<1>2. ASSUME ~IsReward(tx)
      PROVE  tx.sender \in Wallets
  BY <1>2 DEF CanApply
<1>3. ASSUME ~IsReward(tx)
      PROVE  /\ SameBut(c, l, {"nonces", "balances"})
             /\ c.nonces = NoncesAfter(tx, l)
  BY <1>2, <1>3, ChargedFollows DEF SameBut, IsLedger, NoncesAfter
<1>4. CASE TransferApplies(tx)
  <2>1. tx.kind = "transfer" /\ ~IsReward(tx)
    BY <1>4 DEF TransferApplies, IsReward
  <2>2. m = [c EXCEPT !.balances[tx.receiver] = @ + tx.amount]
    BY <2>1 DEF ApplyTransaction
  <2>3. SameBut(m, c, {"balances"})
    BY <1>3, <2>1, <2>2 DEF SameBut, LedgerFields
  <2>4. SameBut(m, l, {"nonces", "balances"}) /\ m.nonces = NoncesAfter(tx, l)
    BY <1>3, <2>1, <2>3 DEF SameBut, LedgerFields
  <2> QED BY <1>2, <2>1, <2>4, SameFollows DEF SameBut
<1>5. CASE AuthorizeApplies(tx, l)
  <2>1. tx.kind = "authorize" /\ ~IsReward(tx)
    BY <1>5 DEF AuthorizeApplies, IsReward
  <2> DEFINE entry == [ wallet |-> tx.sender, contract |-> tx.receiver,
                        code_hash |-> Lower(tx.data.code_hash),
                        request |-> tx.data.request,
                        from |-> tx.data.from, until |-> tx.data.until ]
  <2>2. m = [c EXCEPT !.authorizations = Append(@, entry)]
    BY <2>1 DEF ApplyTransaction
  <2> HIDE DEF entry
  <2>3. SameBut(m, c, {"authorizations"})
    BY <1>3, <2>1, <2>2 DEF SameBut, LedgerFields
  <2>4. /\ SameBut(m, l, {"nonces", "balances", "authorizations"})
        /\ m.nonces = NoncesAfter(tx, l)
    BY <1>3, <2>1, <2>3 DEF SameBut, LedgerFields
  <2> QED BY <1>2, <2>1, <2>4, SameFollows DEF SameBut
<1>6. CASE CommitApplies(tx, l)
  <2>1. tx.kind = "commit" /\ ~IsReward(tx) /\ key \notin DOMAIN l.commitments
    BY <1>6 DEF CommitApplies, IsReward
  <2>2. m = [c EXCEPT !.commitments = With(@, key, tx.data.hash)]
    BY <2>1 DEF ApplyTransaction
  <2>3. /\ SameBut(m, c, {"commitments"})
        /\ m.commitments = With(l.commitments, key, tx.data.hash)
    BY <1>3, <2>1, <2>2 DEF SameBut, LedgerFields
  <2>4. /\ SameBut(m, l, {"nonces", "balances", "commitments"})
        /\ m.nonces = NoncesAfter(tx, l)
    BY <1>3, <2>1, <2>3 DEF SameBut, LedgerFields
  <2>5. Includes(m.commitments, l.commitments)
    <3> HIDE DEF m, key
    <3> QED BY <2>1, <2>3 DEF With, Includes
  <2> QED BY <1>2, <2>1, <2>4, <2>5, AddedFollows DEF SameBut, LedgerFields, Includes
<1>7. CASE RevealApplies(tx, l)
  <2>1. /\ tx.kind = "reveal" /\ ~IsReward(tx)
        /\ key \notin DOMAIN l.reveals
        /\ key \in DOMAIN l.commitments
        /\ l.commitments[key] = CommitmentHash(tx.sender, tx.data.request, tx.data.seed)
    BY <1>7 DEF RevealApplies, IsReward
  <2>2. m = [c EXCEPT !.reveals = With(@, key, tx.data.seed)]
    BY <2>1 DEF ApplyTransaction
  <2>3. /\ SameBut(m, c, {"reveals"})
        /\ m.reveals = With(l.reveals, key, tx.data.seed)
    BY <1>3, <2>1, <2>2 DEF SameBut, LedgerFields
  <2>4. /\ SameBut(m, l, {"nonces", "balances", "reveals"})
        /\ m.nonces = NoncesAfter(tx, l)
    BY <1>3, <2>1, <2>3 DEF SameBut, LedgerFields
  <2>5. /\ Includes(m.reveals, l.reveals)
        /\ DOMAIN m.reveals = DOMAIN l.reveals \cup {key}
        /\ m.reveals[key] = tx.data.seed
    <3> HIDE DEF m, key
    <3> QED BY <2>1, <2>3 DEF With, Includes
  <2>6. m.commitments = l.commitments
    BY <2>4 DEF SameBut, LedgerFields
  <2>7. Opened(l) => Opened(m)
    BY <2>1, <2>5, <2>6 DEF Opened, Includes
  <2> QED BY <1>2, <2>1, <2>4, <2>5, <2>7, AddedFollows DEF SameBut, LedgerFields, Includes
<1>8. CASE DeployApplies(tx, l)
  <2>1. tx.kind = "deploy" /\ ~IsReward(tx) /\ tx.receiver \notin DOMAIN l.contracts
    BY <1>8 DEF DeployApplies, IsDeployed, IsReward
  <2> DEFINE entry == [code |-> tx.data.code, code_hash |-> tx.data.code_hash]
  <2>2. m = [c EXCEPT !.contracts = With(@, tx.receiver, entry)]
    BY <2>1 DEF ApplyTransaction
  <2> HIDE DEF entry
  <2>3. /\ SameBut(m, c, {"contracts"})
        /\ m.contracts = With(l.contracts, tx.receiver, entry)
    BY <1>3, <2>1, <2>2 DEF SameBut, LedgerFields
  <2>4. /\ SameBut(m, l, {"nonces", "balances", "contracts"})
        /\ m.nonces = NoncesAfter(tx, l)
    BY <1>3, <2>1, <2>3 DEF SameBut, LedgerFields
  <2>5. Includes(m.contracts, l.contracts)
    <3> HIDE DEF m, key
    <3> QED BY <2>1, <2>3 DEF With, Includes
  <2> QED BY <1>2, <2>1, <2>4, <2>5, AddedFollows DEF SameBut, LedgerFields, Includes
<1>9. CASE ExecuteApplies(tx, l)
  <2>1. tx.kind = "execute" /\ ~IsReward(tx)
    BY <1>9 DEF ExecuteApplies, IsReward
  <2> DEFINE run == Execution(tx, l, height)
             s == Settled(tx, l, run)
  <2>2. m = IF KeepsRun(run) THEN Completed(tx, s, run) ELSE s
    BY <2>1 DEF ApplyTransaction, AfterRun
  <2> HIDE DEF run
  <2>3. SameBut(s, l, {"nonces", "balances", "receipts"}) /\ s.nonces = NoncesAfter(tx, l)
    <3> DEFINE d == Charged(tx, l, FeeOfRun(tx, run))
    <3>1. /\ SameBut(d, l, {"nonces", "balances"})
          /\ d.nonces = NoncesAfter(tx, l)
      BY <1>2, <2>1, ChargedFollows DEF SameBut, IsLedger, NoncesAfter
    <3>2. SameBut(s, d, {"receipts"})
      BY <3>1 DEF Settled, SameBut, LedgerFields
    <3> HIDE DEF d, s
    <3> QED BY <3>1, <3>2 DEF SameBut, LedgerFields
  <2>4. SameBut(Completed(tx, s, run), s, {"balances", "storage"})
    <3> HIDE DEF s
    <3> QED BY <2>3 DEF Completed, SameBut, LedgerFields
  <2> HIDE DEF s
  <2>5. /\ SameBut(m, l, {"nonces", "balances", "receipts", "storage"})
        /\ m.nonces = NoncesAfter(tx, l)
    BY <2>2, <2>3, <2>4 DEF SameBut, LedgerFields
  <2> QED BY <1>2, <2>1, <2>5, SameFollows DEF SameBut
<1> QED BY <1>1, <1>4, <1>5, <1>6, <1>7, <1>8, <1>9 DEF CanApply

----------------------------------------------------------------------------
(* The transactions of a block, one after the other.                       *)

\* A transaction of which the ledger shows that it was made.
Spent(tx, l) ==
    ~IsReward(tx) =>
        tx.sender \in Wallets /\ tx.nonce \in Nat /\ tx.nonce + 1 <= l.nonces[tx.sender]

\* A transaction of which it shows that it was not.
Unspent(tx, l) ==
    ~IsReward(tx) =>
        tx.sender \in Wallets /\ tx.nonce \in Nat /\ l.nonces[tx.sender] <= tx.nonce

\* When all of them apply, the ledger moves on, and each of them is one that
\* had not been made before and has been after.
LEMMA ApplyInOrderFollows ==
    ASSUME NEW txs, Len(txs) \in Nat, NEW l, IsLedger(l), NEW height,
           ApplyInOrder(txs, l, height).ok
    PROVE  /\ Follows(ApplyInOrder(txs, l, height).ledger, l)
           /\ \A i \in 1 .. Len(txs) :
                  /\ Unspent(txs[i], l)
                  /\ Spent(txs[i], ApplyInOrder(txs, l, height).ledger)
           /\ \A i, j \in 1 .. Len(txs) : i # j /\ ~IsReward(txs[i]) => txs[i] # txs[j]
<1>1. PICK f : /\ f = [n \in 0 .. Len(txs) |-> NextApplied(txs, l, height, f, n)]
               /\ ApplyInOrder(txs, l, height) = f[Len(txs)]
  BY ApplyInOrderSolves
<1>2. \A n \in 0 .. Len(txs) : f[n] = NextApplied(txs, l, height, f, n)
  BY <1>1
<1>3. f[0].ok /\ f[0].ledger = l
  <2>1. f[0] = NextApplied(txs, l, height, f, 0)
    BY <1>2
  <2>2. f[0] = [ok |-> TRUE, ledger |-> l, fees |-> 0]
    BY <2>1 DEF NextApplied
  <2> QED BY <2>2
<1>4. ASSUME NEW n \in 1 .. Len(txs), f[n].ok
      PROVE  /\ f[n - 1].ok
             /\ CanApply(txs[n], f[n - 1].ledger)
             /\ f[n].ledger = ApplyTransaction(txs[n], f[n - 1].ledger, height)
  <2>1. f[n] = NextApplied(txs, l, height, f, n) /\ n # 0
    BY <1>2
  <2>2. CASE f[n - 1].ok /\ CanApply(txs[n], f[n - 1].ledger)
    BY <2>1, <2>2 DEF NextApplied
  <2>3. CASE ~(f[n - 1].ok /\ CanApply(txs[n], f[n - 1].ledger))
    <3>1. f[n] = [f[n - 1] EXCEPT !.ok = FALSE]
      BY <2>1, <2>3 DEF NextApplied
    <3> QED BY <3>1, <1>4
  <2> QED BY <2>2, <2>3
<1> DEFINE Good(n) ==
        f[n].ok =>
            /\ Follows(f[n].ledger, l)
            /\ \A i \in 1 .. n : Unspent(txs[i], l) /\ Spent(txs[i], f[n].ledger)
            /\ \A i, j \in 1 .. n : i # j /\ ~IsReward(txs[i]) => txs[i] # txs[j]
           Bad == {n \in 0 .. Len(txs) : ~Good(n)}
<1>5. Bad = {}
  <2>1. SUFFICES ASSUME Bad # {} PROVE FALSE
    OBVIOUS
  <2>2. PICK n \in Bad : \A k \in Bad : n <= k
    <3> HIDE DEF Good
    <3>1. Bad \in SUBSET Nat
      OBVIOUS
    <3> HIDE DEF Bad
    <3> QED BY <2>1, <3>1, LeastNatural
  <2>3. n \in 0 .. Len(txs) /\ ~Good(n)
    <3> HIDE DEF Good
    <3> QED OBVIOUS
  <2>4. n # 0
    BY <2>3, <1>3, FollowsItself
  <2>5. n \in 1 .. Len(txs) /\ n - 1 \in 0 .. Len(txs) /\ ~(n <= n - 1)
    BY <2>3, <2>4
  <2>6. Good(n - 1)
    <3> HIDE DEF Good
    <3> QED BY <2>2, <2>5
  <2>7. /\ f[n].ok /\ f[n - 1].ok
        /\ CanApply(txs[n], f[n - 1].ledger)
        /\ f[n].ledger = ApplyTransaction(txs[n], f[n - 1].ledger, height)
    BY <1>4, <2>3, <2>5
  <2> DEFINE before == f[n - 1].ledger
             after == f[n].ledger
             tx == txs[n]
  <2>8. /\ Follows(before, l)
        /\ \A i \in 1 .. n - 1 : Unspent(txs[i], l) /\ Spent(txs[i], before)
        /\ \A i, j \in 1 .. n - 1 : i # j /\ ~IsReward(txs[i]) => txs[i] # txs[j]
    BY <2>6, <2>7
  <2>9. /\ IsLedger(before)
        /\ Follows(after, before) /\ after.nonces = NoncesAfter(tx, before)
    BY <2>7, <2>8, ApplyFollows DEF Follows
  <2>10. ~IsReward(tx) => tx.sender \in Wallets /\ tx.nonce = before.nonces[tx.sender]
    BY <2>7 DEF CanApply, HasNextNonce
  <2> HIDE DEF before, after, tx
  <2>11. Follows(after, l)
    BY <2>8, <2>9, FollowsOn
  <2>12. Unspent(tx, l)
    BY <2>8, <2>9, <2>10 DEF Unspent, Follows, IsLedger
  <2>13. Spent(tx, after)
    BY <2>9, <2>10 DEF Spent, NoncesAfter, IsLedger
  <2>14. ASSUME NEW i \in 1 .. n - 1
         PROVE  Spent(txs[i], after)
    <3>1. Spent(txs[i], before) /\ Unspent(txs[i], l)
      BY <2>8
    <3> QED BY <3>1, <2>9 DEF Spent, Unspent, Follows, IsLedger
  <2>15. ASSUME NEW i \in 1 .. n - 1, ~IsReward(tx)
         PROVE  txs[i] # tx
    <3>1. Spent(txs[i], before) /\ Unspent(txs[i], l)
      BY <2>8
    <3> QED BY <3>1, <2>10, <2>15 DEF Spent, Unspent
  <2>16. \A i \in 1 .. n : i = n \/ i \in 1 .. n - 1
    BY <2>5
  <2>17. \A i \in 1 .. n : Unspent(txs[i], l) /\ Spent(txs[i], after)
    BY <2>8, <2>12, <2>13, <2>14, <2>16 DEF tx
  <2>18. \A i, j \in 1 .. n : i # j /\ ~IsReward(txs[i]) => txs[i] # txs[j]
    BY <2>8, <2>15, <2>16 DEF tx
  <2> QED BY <2>3, <2>11, <2>17, <2>18 DEF after
<1>6. Good(Len(txs))
  <2> HIDE DEF Good
  <2> QED BY <1>5
<1> QED BY <1>1, <1>6

----------------------------------------------------------------------------
(* The blocks of a chain, one after the other.                             *)

LedgerAt(h) == StateAt(h).ledger

\* What a stored block did to its parent's ledger.
LEMMA BlockFollows ==
    ASSUME IInv, NEW h \in Stored, IsLedger(LedgerAt(Parent(h)))
    PROVE  LET txs == blocks[h].transactions
           IN  /\ Len(txs) \in 0 .. MaxBlockTransactions
               /\ Follows(LedgerAt(h), LedgerAt(Parent(h)))
               /\ \A i \in 1 .. Len(txs) : /\ Unspent(txs[i], LedgerAt(Parent(h)))
                                           /\ Spent(txs[i], LedgerAt(h))
               /\ \A i, j \in 1 .. Len(txs) : i # j /\ ~IsReward(txs[i]) => txs[i] # txs[j]
<1> DEFINE txs == blocks[h].transactions
           before == LedgerAt(Parent(h))
           id == blocks[h].block_id
<1>1. /\ Len(txs) \in 0 .. MaxBlockTransactions
      /\ ApplyInOrder(txs, before, id).ok
      /\ StateAt(h).ledger = ApplyInOrder(txs, before, id).ledger
  <2>1. h # NoHash
    BY NoHashAssumption DEF IInv, TypeOK
  <2>2. IsValidChild(blocks[h], before) /\ states[h] = ChildState(blocks[h], before)
    BY DEF IInv, Replayed, LedgerAt
  <2> QED BY <2>1, <2>2
          DEF IsValidChild, IsWellFormed, ClaimsItsFees, AppliedBlock, ChildState, StateAt
<1>2. Len(txs) \in Nat
  BY <1>1, BlockSizeAssumption
<1> HIDE DEF txs, before, id
<1>3. IsLedger(before)
  BY DEF before
<1> QED BY <1>1, <1>2, <1>3, ApplyInOrderFollows DEF LedgerAt, txs, before

LEMMA EmptyIsLedger == IsLedger(EmptyLedger) /\ Opened(EmptyLedger)
<1>1. EmptyLedger.reveals = << >>
  BY DEF EmptyLedger
<1>2. DOMAIN << >> = {}
  OBVIOUS
<1>3. IsLedger(EmptyLedger)
  BY DEF IsLedger, EmptyLedger, LedgerFields
<1> QED BY <1>1, <1>2, <1>3 DEF Opened

\* The state after every stored block is a ledger whose reveals open the
\* commitments they are for.
LEMMA LedgersAreSound ==
    ASSUME IInv, NEW g \in Stored \cup {NoHash}
    PROVE  IsLedger(LedgerAt(g)) /\ Opened(LedgerAt(g))
<1> DEFINE Sound(h) == IsLedger(LedgerAt(h)) /\ Opened(LedgerAt(h))
           Bad == {h \in Stored : ~Sound(h)}
<1>1. Sound(NoHash)
  BY EmptyIsLedger DEF LedgerAt, StateAt, FreshState
<1>2. Bad = {}
  <2>1. SUFFICES ASSUME Bad # {} PROVE FALSE
    OBVIOUS
  <2>2. PICK h \in Bad : Parent(h) \in (Stored \ Bad) \cup {NoHash}
    <3> HIDE DEF Sound
    <3>1. Bad \in SUBSET Stored
      OBVIOUS
    <3> HIDE DEF Bad
    <3> QED BY <2>1, <3>1, LowestBlock
  <2>3. h \in Stored /\ ~Sound(h) /\ Sound(Parent(h))
    <3> HIDE DEF Sound
    <3> QED BY <1>1, <2>2
  <2>4. Follows(LedgerAt(h), LedgerAt(Parent(h)))
    BY <2>3, BlockFollows
  <2> QED BY <2>3, <2>4 DEF Follows
<1> HIDE DEF Sound
<1>3. Sound(g)
  BY <1>1, <1>2
<1> QED BY <1>3 DEF Sound

----------------------------------------------------------------------------
(* Records.                                                                *)

\* No later block of a branch changes a deployed contract, a commitment or a
\* reveal, and every reveal opens its sender's commitment, for any contracts
\* and however their runs end.
THEOREM RecordsStay == Spec => []RecordsAreFinal
<1>1. IInv => RecordsAreFinal
  <2> SUFFICES ASSUME IInv PROVE RecordsAreFinal
    OBVIOUS
  <2>1. ASSUME NEW h \in NonGenesis
        PROVE  /\ Follows(After(h), Before(h))
               /\ Opened(After(h))
    <3>1. h \in Stored /\ Parent(h) \in Stored /\ h # NoHash /\ Parent(h) # NoHash
      BY NoHashAssumption DEF NonGenesis, IInv, TypeOK, TreeIsSound
    <3>2. IsLedger(LedgerAt(Parent(h))) /\ Opened(LedgerAt(h))
      BY <3>1, LedgersAreSound
    <3>3. Follows(LedgerAt(h), LedgerAt(Parent(h)))
      BY <3>1, <3>2, BlockFollows
    <3> QED BY <3>1, <3>2, <3>3 DEF LedgerAt, StateAt, After, Before
  <2> QED BY <2>1 DEF RecordsAreFinal, Follows, Includes, Opened
<1> QED BY <1>1, IInvHolds, PTL

----------------------------------------------------------------------------
(* Payments.                                                               *)

\* The transactions of the i-th block of the chain to h.
BlockTxs(h, i) == blocks[ChainTo(blocks, h)[i]].transactions

\* The ledger after h shows of every transaction of the chain that it was made.
AllSpent(h) ==
    \A i \in DOMAIN ChainTo(blocks, h) : \A m \in 1 .. Len(BlockTxs(h, i)) :
        Spent(BlockTxs(h, i)[m], LedgerAt(h))

\* No payment is at two places of the chain.
AllOnce(h) ==
    \A i, j \in DOMAIN ChainTo(blocks, h) :
        \A m \in 1 .. Len(BlockTxs(h, i)), n \in 1 .. Len(BlockTxs(h, j)) :
            (i # j \/ m # n) /\ ~IsReward(BlockTxs(h, i)[m])
                => BlockTxs(h, i)[m] # BlockTxs(h, j)[n]

\* What a chain to g promises, the chain to a block on g promises.
LEMMA OnceGrows ==
    ASSUME IInv, NEW h \in Stored, AllSpent(Parent(h)), AllOnce(Parent(h))
    PROVE  AllSpent(h) /\ AllOnce(h)
<1> DEFINE g == Parent(h)
           C == ChainTo(blocks, g)
           D == ChainTo(blocks, h)
           top == Len(C) + 1
           txs == blocks[h].transactions
<1>1. g \in Stored \cup {NoHash}
  BY DEF IInv, TreeIsSound
<1>2. C \in Seq(Stored) /\ D = Append(C, h)
  BY <1>1, ChainGrows
<1>3. /\ DOMAIN C = 1 .. Len(C) /\ Len(C) \in Nat
      /\ DOMAIN D = 1 .. top
      /\ D[top] = h
      /\ \A i \in DOMAIN C : D[i] = C[i]
  <2> HIDE DEF C, D, g
  <2> QED BY <1>2
<1>4. /\ BlockTxs(h, top) = txs
      /\ \A i \in DOMAIN C : BlockTxs(h, i) = BlockTxs(g, i)
  BY <1>3 DEF BlockTxs
<1>5. /\ Len(txs) \in Nat
      /\ Follows(LedgerAt(h), LedgerAt(g))
      /\ \A i \in 1 .. Len(txs) : Unspent(txs[i], LedgerAt(g)) /\ Spent(txs[i], LedgerAt(h))
      /\ \A i, j \in 1 .. Len(txs) : i # j /\ ~IsReward(txs[i]) => txs[i] # txs[j]
  <2>1. IsLedger(LedgerAt(g))
    BY <1>1, LedgersAreSound
  <2>2. \A n \in 0 .. MaxBlockTransactions : n \in Nat
    BY BlockSizeAssumption
  <2> QED BY <2>1, <2>2, BlockFollows
<1>6. \A i \in DOMAIN D : i = top \/ i \in DOMAIN C
  BY <1>3
<1>7. /\ IsLedger(LedgerAt(g)) /\ IsLedger(LedgerAt(h))
      /\ \A w \in Wallets : LedgerAt(g).nonces[w] <= LedgerAt(h).nonces[w]
  BY <1>1, <1>5, LedgersAreSound DEF Follows
<1>8. \A i \in DOMAIN C : \A m \in 1 .. Len(BlockTxs(h, i)) :
          Spent(BlockTxs(h, i)[m], LedgerAt(g))
  BY <1>4 DEF AllSpent
<1>9. \A i, j \in DOMAIN C :
          \A m \in 1 .. Len(BlockTxs(h, i)), n \in 1 .. Len(BlockTxs(h, j)) :
              (i # j \/ m # n) /\ ~IsReward(BlockTxs(h, i)[m])
                  => BlockTxs(h, i)[m] # BlockTxs(h, j)[n]
  BY <1>4 DEF AllOnce
<1> HIDE DEF C, D, top, g, txs
<1>10. AllOnce(h)
  <2>1. ASSUME NEW i \in DOMAIN D, NEW j \in DOMAIN D,
               NEW m \in 1 .. Len(BlockTxs(h, i)), NEW n \in 1 .. Len(BlockTxs(h, j)),
               i # j \/ m # n, ~IsReward(BlockTxs(h, i)[m]),
               BlockTxs(h, i)[m] = BlockTxs(h, j)[n]
         PROVE  FALSE
    <3> DEFINE tx == BlockTxs(h, i)[m]
    <3>1. CASE i \in DOMAIN C /\ j \in DOMAIN C
      BY <2>1, <3>1, <1>9
    <3>2. CASE i = top /\ j = top
      BY <2>1, <3>2, <1>4, <1>5
    <3>3. ASSUME Spent(tx, LedgerAt(g)), Unspent(tx, LedgerAt(g))
          PROVE  FALSE
      <4>1. /\ tx.sender \in Wallets /\ tx.nonce \in Nat
            /\ tx.nonce + 1 <= LedgerAt(g).nonces[tx.sender]
            /\ LedgerAt(g).nonces[tx.sender] <= tx.nonce
        BY <2>1, <3>3 DEF Spent, Unspent
      <4>2. LedgerAt(g).nonces[tx.sender] \in Nat
        BY <4>1, <1>7 DEF IsLedger
      <4> QED BY <4>1, <4>2
    <3>4. CASE i \in DOMAIN C /\ j = top
      BY <2>1, <3>3, <3>4, <1>4, <1>5, <1>8
    <3>5. CASE i = top /\ j \in DOMAIN C
      BY <2>1, <3>3, <3>5, <1>4, <1>5, <1>8
    <3> QED BY <3>1, <3>2, <3>4, <3>5, <1>6
  <2> QED BY <2>1 DEF AllOnce, D
<1>11. AllSpent(h)
  <2>1. ASSUME NEW i \in DOMAIN D, NEW m \in 1 .. Len(BlockTxs(h, i))
        PROVE  Spent(BlockTxs(h, i)[m], LedgerAt(h))
    <3>1. CASE i = top
      BY <3>1, <1>4, <1>5
    <3>2. CASE i \in DOMAIN C
      <4> DEFINE tx == BlockTxs(h, i)[m]
      <4>1. Spent(tx, LedgerAt(g))
        BY <3>2, <1>8
      <4>2. ASSUME ~IsReward(tx)
            PROVE  /\ tx.sender \in Wallets /\ tx.nonce \in Nat
                   /\ tx.nonce + 1 <= LedgerAt(h).nonces[tx.sender]
        <5>1. /\ tx.sender \in Wallets /\ tx.nonce \in Nat
              /\ tx.nonce + 1 <= LedgerAt(g).nonces[tx.sender]
          BY <4>1, <4>2 DEF Spent
        <5> HIDE DEF tx
        <5> QED BY <5>1, <1>7 DEF IsLedger
      <4> QED BY <4>2 DEF Spent
    <3> QED BY <3>1, <3>2, <1>6
  <2> QED BY <2>1 DEF AllSpent, D
<1> QED BY <1>10, <1>11

LEMMA AllOnceEverywhere ==
    ASSUME IInv
    PROVE  \A h \in Stored : AllOnce(h)
<1> DEFINE Good(h) == AllSpent(h) /\ AllOnce(h)
           Bad == {h \in Stored : ~Good(h)}
<1>1. Good(NoHash)
  <2>1. ChainTo(blocks, NoHash) = << >> /\ DOMAIN << >> = {}
    BY ChainGrows
  <2> QED BY <2>1 DEF AllSpent, AllOnce
<1>2. Bad = {}
  <2>1. SUFFICES ASSUME Bad # {} PROVE FALSE
    OBVIOUS
  <2>2. PICK h \in Bad : Parent(h) \in (Stored \ Bad) \cup {NoHash}
    <3> HIDE DEF Good
    <3>1. Bad \in SUBSET Stored
      OBVIOUS
    <3> HIDE DEF Bad
    <3> QED BY <2>1, <3>1, LowestBlock
  <2>3. h \in Stored /\ ~Good(h) /\ Good(Parent(h))
    <3> HIDE DEF Good
    <3> QED BY <1>1, <2>2
  <2> QED BY <2>3, OnceGrows
<1> QED BY <1>2

\* No payment is in a chain twice, on any branch, however often it was mined,
\* returned to the pool by a reorganisation and mined again: the nonces of
\* the ledger count on.
THEOREM PaymentsAreMadeOnce == Spec => []NoTransactionTwice
<1>1. IInv => NoTransactionTwice
  <2> SUFFICES ASSUME IInv, NEW h \in Stored
               PROVE  LET chain   == ChainTo(blocks, h)
                          In(i)   == blocks[chain[i]].transactions
                          places  == UNION {{i} \X (1 .. Len(In(i))) : i \in DOMAIN chain}
                          Paid(p) == In(p[1])[p[2]]
                      IN  \A p, q \in places :
                              p # q /\ ~IsReward(Paid(p)) => Paid(p) # Paid(q)
    BY DEF NoTransactionTwice
  <2>1. AllOnce(h)
    BY AllOnceEverywhere
  <2> DEFINE places == UNION {{i} \X (1 .. Len(BlockTxs(h, i))) :
                                  i \in DOMAIN ChainTo(blocks, h)}
  <2>2. ASSUME NEW p \in places
        PROVE  /\ p = <<p[1], p[2]>>
               /\ p[1] \in DOMAIN ChainTo(blocks, h)
               /\ p[2] \in 1 .. Len(BlockTxs(h, p[1]))
    OBVIOUS
  <2>3. ASSUME NEW p \in places, NEW q \in places, p # q,
               ~IsReward(BlockTxs(h, p[1])[p[2]])
        PROVE  BlockTxs(h, p[1])[p[2]] # BlockTxs(h, q[1])[q[2]]
    <3>1. p[1] # q[1] \/ p[2] # q[2]
      BY <2>2, <2>3
    <3> HIDE DEF places
    <3> QED BY <2>1, <2>2, <2>3, <3>1 DEF AllOnce
  <2> QED BY <2>3 DEF BlockTxs
<1> QED BY <1>1, IInvHolds, PTL

----------------------------------------------------------------------------
(* Coins: the invariant of a ledger.                                       *)

\* The receipt of an execution accounts for its escrow.
IsSettled(tx, receipt) ==
    /\ receipt.fee_paid \in 0 .. tx.fee
    /\ tx.data.gas_price > 0 => receipt.fee_paid <= tx.data.gas_price * tx.data.gas_limit

\* Only wallets authorize: the owner of the key a transaction is signed with.
WalletsAuthorize(l) ==
    /\ IsSeq(l.authorizations)
    /\ \A i \in DOMAIN l.authorizations : l.authorizations[i].wallet \in Wallets

CoinLedger(l) ==
    /\ IsLedger(l)
    /\ l.balances \in [Accounts -> Nat]
    /\ l.storage \in [Accounts -> [Keys -> Word]]
    /\ \A key \in DOMAIN l.commitments : l.commitments[key] \in DOMAIN CommitWord
    /\ WalletsAuthorize(l)
    /\ \A tx \in DOMAIN l.receipts : IsSettled(tx, l.receipts[tx])

LEMMA EmptyIsCoinLedger == CoinLedger(EmptyLedger) /\ Total(EmptyLedger.balances) = 0
<1>1. IsLedger(EmptyLedger)
  BY EmptyIsLedger
<1>2. /\ EmptyLedger.balances = [a \in Accounts |-> 0]
      /\ EmptyLedger.storage = [a \in Accounts |-> [k \in Keys |-> 0]]
      /\ EmptyLedger.commitments = << >>
      /\ EmptyLedger.authorizations = << >>
      /\ EmptyLedger.receipts = << >>
  BY DEF EmptyLedger
<1>3. Total(EmptyLedger.balances) = 0
  BY <1>2, AccountsFinite, TotalOfNothing
<1>4. 0 \in Word
  BY WordModulusType DEF Word
<1>5. EmptyLedger.storage \in [Accounts -> [Keys -> Word]]
  BY <1>2, <1>4
<1>6. WalletsAuthorize(EmptyLedger)
  BY <1>2, EmptyIsSeq DEF WalletsAuthorize
<1> QED BY <1>1, <1>2, <1>3, <1>5, <1>6 DEF CoinLedger

----------------------------------------------------------------------------
(* One execution.                                                          *)

\* The context of an execution is one: the value has reached the contract and
\* nobody is overdrawn.
LEMMA ContextIsSound ==
    ASSUME NEW l, CoinLedger(l), NEW tx, CanApply(tx, l), ExecuteApplies(tx, l),
           NEW height \in Nat
    PROVE  LET ctx == ExecutionContext(tx, l, height)
           IN  /\ IsContext(ctx)
               /\ \A a \in Accounts :
                    /\ ctx.balances[a] = l.balances[a]
                          - (IF a = tx.sender THEN tx.amount + tx.fee ELSE 0)
                          + (IF a = tx.receiver THEN tx.amount ELSE 0)
                    /\ ctx.balances[a] >= 0
<1> DEFINE ctx == ExecutionContext(tx, l, height)
           left == Escrowed(l.balances, tx)
           words == [p \in DOMAIN l.commitments |-> CommitWord[l.commitments[p]]]
<1>1. /\ tx.sender \in Accounts /\ tx.receiver \in Accounts
      /\ tx.fee \in Nat /\ tx.amount \in Nat
      /\ tx.data.gas_limit \in Nat
      /\ l.balances[tx.sender] >= tx.amount + tx.fee
      /\ l.balances \in [Accounts -> Nat]
  BY AccountsAssumption
     DEF CanApply, CanPay, ExecuteApplies, IsReward, CoinLedger
<1>2. /\ left \in [Accounts -> Nat]
      /\ \A a \in Accounts : left[a] = l.balances[a]
            - (IF a = tx.sender THEN tx.amount + tx.fee ELSE 0)
  BY <1>1 DEF Escrowed
<1>3. /\ ctx.sender = tx.sender /\ ctx.contract = tx.receiver
      /\ ctx.gas_limit = tx.data.gas_limit /\ ctx.height = height
      /\ ctx.balances = [left EXCEPT ![tx.receiver] = @ + tx.amount]
      /\ ctx.storage = l.storage[tx.receiver]
      /\ ctx.commitments = words
  BY DEF ExecutionContext
<1> HIDE DEF ctx, left, words
<1>4. /\ ctx.balances \in [Accounts -> Nat]
      /\ \A a \in Accounts : ctx.balances[a] = left[a]
            + (IF a = tx.receiver THEN tx.amount ELSE 0)
  BY <1>1, <1>2, <1>3
<1>5. ctx.storage \in [Keys -> Word]
  BY <1>1, <1>3 DEF CoinLedger
<1>6. \A pair \in DOMAIN ctx.commitments : ctx.commitments[pair] \in Int
  BY <1>3, CommitWordAssumption, WordModulusType DEF CoinLedger, words, Word
<1>7. IsContext(ctx)
  BY <1>1, <1>3, <1>4, <1>5, <1>6 DEF IsContext
<1> QED BY <1>2, <1>4, <1>7 DEF ctx

\* The part of the gas that was used costs at most all of it.
LEMMA PriceOfGas ==
    ASSUME NEW price \in Nat, NEW limit \in Nat, NEW gas \in 0 .. limit
    PROVE  price * (limit - gas) \in 0 .. limit * price
<1>1. price * (limit - gas) = limit * price - price * gas
  OBVIOUS
<1>2. price * gas \in Nat /\ price * (limit - gas) \in Nat
  OBVIOUS
<1> QED BY <1>1, <1>2

\* A run of a contract that is executed ends and is sound.
LEMMA ExecutionIsSound ==
    ASSUME NEW l, CoinLedger(l), NEW tx, CanApply(tx, l), ExecuteApplies(tx, l),
           NEW height \in Nat
    PROVE  LET run == Execution(tx, l, height)
           IN  /\ SoundRun(run, ExecutionContext(tx, l, height))
               /\ FeeOfRun(tx, run) \in 0 .. tx.fee
               /\ tx.data.gas_price > 0 =>
                     FeeOfRun(tx, run) <= tx.data.gas_price * tx.data.gas_limit
<1> DEFINE run == Execution(tx, l, height)
           ctx == ExecutionContext(tx, l, height)
<1>1. IsContext(ctx) /\ ctx.gas_limit = tx.data.gas_limit
  BY ContextIsSound DEF ExecutionContext
<1>2. IsProgram(ProgramOf[ExecutedCode(tx, l)])
  BY ProgramsAssumption DEF ExecuteApplies
<1>3. SoundRun(run, ctx)
  BY <1>1, <1>2, RunSound DEF Execution
<1>4. run.gas \in 0 .. tx.data.gas_limit
  BY <1>1, <1>3 DEF SoundRun, MachineStates
<1> HIDE DEF run, ctx
<1>5. /\ tx.fee \in Nat /\ tx.data.gas_limit \in Nat /\ tx.data.gas_price \in Nat
      /\ tx.data.gas_price > 0 => tx.fee >= tx.data.gas_limit * tx.data.gas_price
  BY DEF CanApply, ExecuteApplies, EscrowCoversGas
<1>6. tx.data.gas_price * (tx.data.gas_limit - run.gas)
        \in 0 .. tx.data.gas_limit * tx.data.gas_price
  BY <1>4, <1>5, PriceOfGas
<1>7. FeeOfRun(tx, run) = IF tx.data.gas_price > 0
                          THEN tx.data.gas_price * (tx.data.gas_limit - run.gas)
                          ELSE tx.fee
  BY DEF FeeOfRun
<1>8. CASE tx.data.gas_price > 0
  <2> DEFINE all == tx.data.gas_limit * tx.data.gas_price
             some == tx.data.gas_price * (tx.data.gas_limit - run.gas)
  <2>1. some \in 0 .. all /\ all <= tx.fee /\ all \in Nat
    BY <1>5, <1>6, <1>8
  <2>2. all = tx.data.gas_price * tx.data.gas_limit /\ FeeOfRun(tx, run) = some
    BY <1>5, <1>7, <1>8
  <2> HIDE DEF all, some
  <2>3. FeeOfRun(tx, run) \in 0 .. tx.fee /\ FeeOfRun(tx, run) <= all
    BY <2>1, <2>2, <1>5
  <2> QED BY <2>2, <2>3, <1>3 DEF run, ctx
<1>9. CASE ~(tx.data.gas_price > 0)
  BY <1>3, <1>5, <1>7, <1>9 DEF run, ctx
<1> QED BY <1>8, <1>9

----------------------------------------------------------------------------
(* The coins of one transaction.                                           *)

\* A contract that a transaction takes something from, or that it writes to,
\* ran in it, and to its end.
RanToItsEnd(tx, m, c) ==
    /\ tx.kind = "execute" /\ tx.receiver = c
    /\ tx \in DOMAIN m.receipts /\ m.receipts[tx].success

Untouched(m, l, c) == m.storage[c] = l.storage[c] /\ m.balances[c] >= l.balances[c]

\* Whether a wallet has authorized anything.
Authorizes(l, a) == \E i \in DOMAIN l.authorizations : l.authorizations[i].wallet = a

AuthorizesStill(m, l) == \A w \in Wallets : Authorizes(l, w) => Authorizes(m, w)

\* An execution that w sent, or that ran under its address, succeeded.
RanFor(tx, m, w) ==
    tx.kind = "execute" /\ w \in {tx.sender, tx.receiver} /\ m.receipts[tx].success

\* What a transaction takes of a wallet that no contract may reach.
Costs(tx, l, m) ==
    /\ tx.kind = "execute" => tx \in DOMAIN m.receipts
    /\ \A w \in Wallets :
          /\ CostTo(w, tx, m) \in Nat
          /\ \/ Authorizes(l, w)
             \/ RanFor(tx, m, w)
             \/ m.balances[w] >= l.balances[w] - CostTo(w, tx, m)

\* What a transaction does to the coins when its sender pays a fee.
CoinsAfter(tx, l, m, paid) ==
    /\ CoinLedger(m)
    /\ Total(m.balances) = Total(l.balances) + (IF IsReward(tx) THEN tx.amount ELSE 0) - paid
    /\ \A c \in Contracts : Untouched(m, l, c) \/ RanToItsEnd(tx, m, c)
    /\ \A t \in DOMAIN l.receipts \ {tx} :
          t \in DOMAIN m.receipts /\ m.receipts[t] = l.receipts[t]
    /\ AuthorizesStill(m, l)
    /\ Costs(tx, l, m)

\* The sender, a wallet, has less; nobody else has.
LEMMA ChargedCoins ==
    ASSUME NEW l, CoinLedger(l), NEW tx, tx.sender \in Wallets,
           NEW paid \in 0 .. l.balances[tx.sender]
    PROVE  LET c == Charged(tx, l, paid)
           IN  /\ c.balances \in [Accounts -> Nat]
               /\ \A a \in Accounts :
                    c.balances[a] = l.balances[a] - (IF a = tx.sender THEN paid ELSE 0)
               /\ Total(c.balances) = Total(l.balances) - paid
               /\ \A a \in Contracts : c.balances[a] = l.balances[a]
               /\ SameBut(c, l, {"nonces", "balances"})
<1> DEFINE c == Charged(tx, l, paid)
<1>1. /\ tx.sender \in Accounts /\ tx.sender \notin Contracts /\ paid \in Nat
      /\ Contracts \subseteq Accounts
      /\ l.balances \in [Accounts -> Nat] /\ IsLedger(l)
  BY AccountsAssumption DEF CoinLedger
<1>2. c.balances = [l.balances EXCEPT ![tx.sender] = @ - paid]
  BY <1>1 DEF Charged, IsLedger, LedgerFields
<1>3. SameBut(c, l, {"nonces", "balances"})
  BY <1>1 DEF Charged, SameBut, IsLedger, LedgerFields
<1> HIDE DEF c
<1>4. /\ c.balances \in [Accounts -> Nat]
      /\ \A a \in Accounts :
            c.balances[a] = l.balances[a] - (IF a = tx.sender THEN paid ELSE 0)
  BY <1>1, <1>2
<1>5. Total(c.balances) = Total(l.balances) - paid
  <2> DEFINE f == l.balances
             h == c.balances
             d == 0 - paid
             s == tx.sender
  <2>1. /\ f \in [Accounts -> Int] /\ h \in [Accounts -> Int] /\ d \in Int /\ s \in Accounts
        /\ \A x \in Accounts : x # s => h[x] = f[x]
        /\ h[s] = f[s] + d
    BY <1>1, <1>4
  <2> HIDE DEF f, h, d, s
  <2>2. Total(h) = Total(f) + d /\ Total(f) \in Int
    BY ONLY <2>1, AccountsFinite, TotalOfChanged, TotalIsInt
  <2>3. Total(h) = Total(f) - paid
    BY <2>2, <1>1 DEF d
  <2> QED BY <2>3 DEF f, h
<1> QED BY <1>1, <1>3, <1>4, <1>5 DEF c

\* One account has more.
LEMMA PaidCoins ==
    ASSUME NEW f \in [Accounts -> Nat], NEW a \in Accounts, NEW amount \in Nat
    PROVE  LET h == [f EXCEPT ![a] = @ + amount]
           IN  /\ h \in [Accounts -> Nat]
               /\ Total(h) = Total(f) + amount
               /\ \A x \in Accounts : h[x] >= f[x]
<1> DEFINE h == [f EXCEPT ![a] = @ + amount]
<1>1. /\ f \in [Accounts -> Int] /\ h \in [Accounts -> Int] /\ amount \in Int
      /\ \A x \in Accounts : x # a => h[x] = f[x]
      /\ h[a] = f[a] + amount
  OBVIOUS
<1>2. h \in [Accounts -> Nat] /\ \A x \in Accounts : h[x] >= f[x]
  OBVIOUS
<1> HIDE DEF h
<1>3. Total(h) = Total(f) + amount
  BY ONLY <1>1, AccountsFinite, TotalOfChanged
<1> QED BY <1>2, <1>3 DEF h

\* A transaction that runs no contract writes to none and takes nothing of it.
LEMMA QuietCoins ==
    ASSUME NEW l, CoinLedger(l), NEW tx, NEW m, IsLedger(m), NEW paid,
           m.balances \in [Accounts -> Nat],
           Total(m.balances) = Total(l.balances) + (IF IsReward(tx) THEN tx.amount ELSE 0) - paid,
           \A c \in Contracts : m.balances[c] >= l.balances[c],
           m.storage = l.storage, m.receipts = l.receipts,
           \A key \in DOMAIN m.commitments : m.commitments[key] \in DOMAIN CommitWord,
           WalletsAuthorize(m), AuthorizesStill(m, l),
           tx.kind # "execute", tx.fee \in Nat, tx.amount \in Nat,
           \A w \in Wallets : m.balances[w] >=
                l.balances[w] - (IF w = tx.sender THEN tx.fee + tx.amount ELSE 0)
    PROVE  CoinsAfter(tx, l, m, paid)
<1>1. ASSUME NEW w \in Wallets
      PROVE  /\ CostTo(w, tx, m) \in Nat
             /\ m.balances[w] >= l.balances[w] - CostTo(w, tx, m)
  <2>1. CostTo(w, tx, m) = IF w = tx.sender THEN tx.fee + tx.amount ELSE 0
    BY DEF CostTo
  <2> QED BY <2>1
<1>2. Costs(tx, l, m)
  BY <1>1 DEF Costs
<1> QED BY <1>2 DEF CoinsAfter, CoinLedger, Untouched

\* What is charged for a transaction that moves no coins but its fee.
LEMMA FeeIsPaid ==
    ASSUME NEW l, CoinLedger(l), NEW tx, CanApply(tx, l), ~IsReward(tx),
           NEW m, IsLedger(m), tx.amount = 0,
           m.balances = Charged(tx, l, tx.fee + tx.amount).balances,
           m.storage = l.storage, m.receipts = l.receipts,
           \A key \in DOMAIN m.commitments : m.commitments[key] \in DOMAIN CommitWord,
           WalletsAuthorize(m), AuthorizesStill(m, l), tx.kind # "execute"
    PROVE  CoinsAfter(tx, l, m, tx.fee)
<1>1. /\ tx.sender \in Wallets /\ tx.fee \in Nat /\ tx.amount \in Nat /\ tx.fee + tx.amount = tx.fee
      /\ tx.sender \in Accounts
      /\ l.balances[tx.sender] \in Nat /\ tx.fee \in 0 .. l.balances[tx.sender]
      /\ l.balances \in [Accounts -> Nat] /\ Contracts \subseteq Accounts
      /\ Wallets \subseteq Accounts
  BY AccountsAssumption DEF CanApply, CanPay, CoinLedger
<1> DEFINE c == Charged(tx, l, tx.fee)
<1>2. /\ c.balances \in [Accounts -> Nat]
      /\ Total(c.balances) = Total(l.balances) - tx.fee
      /\ \A a \in Contracts : c.balances[a] = l.balances[a]
      /\ \A a \in Accounts :
            c.balances[a] = l.balances[a] - (IF a = tx.sender THEN tx.fee ELSE 0)
  BY <1>1, ChargedCoins
<1>3. m.balances = c.balances
  BY <1>1
<1> HIDE DEF c
<1>4. Total(l.balances) \in Int
  BY <1>1, AccountsFinite, TotalIsInt
<1>5. /\ m.balances \in [Accounts -> Nat]
      /\ Total(m.balances) = Total(l.balances) + (IF IsReward(tx) THEN tx.amount ELSE 0) - tx.fee
      /\ \A a \in Contracts : m.balances[a] >= l.balances[a]
  BY <1>1, <1>2, <1>3, <1>4
<1>6. \A w \in Wallets : m.balances[w] >=
          l.balances[w] - (IF w = tx.sender THEN tx.fee + tx.amount ELSE 0)
  BY <1>1, <1>2, <1>3
<1> QED BY <1>1, <1>5, <1>6, QuietCoins

\* A block's transaction that is not an execution.
LEMMA SimpleCoins ==
    ASSUME NEW l, CoinLedger(l), NEW tx, CanApply(tx, l), ~ExecuteApplies(tx, l),
           NEW height \in Nat
    PROVE  CoinsAfter(tx, l, ApplyTransaction(tx, l, height), FeePaid(tx, l, height))
<1> DEFINE m == ApplyTransaction(tx, l, height)
           c == Charged(tx, l, tx.fee + tx.amount)
           key == <<tx.sender, tx.data.request>>
<1>1. /\ IsLedger(l) /\ l.balances \in [Accounts -> Nat]
      /\ tx.fee \in Nat /\ tx.amount \in Nat
      /\ \A k \in DOMAIN l.commitments : l.commitments[k] \in DOMAIN CommitWord
      /\ WalletsAuthorize(l)
      /\ Contracts \subseteq Accounts /\ Wallets \subseteq Accounts
  BY AccountsAssumption DEF CanApply, CoinLedger
<1>2. IsLedger(m)
  BY <1>1, ApplyFollows DEF Follows
<1>3. Total(l.balances) \in Int
  <2>1. l.balances \in [Accounts -> Int]
    BY <1>1
  <2> QED BY <2>1, AccountsFinite, TotalIsInt
<1>4. CASE IsReward(tx)
  <2>1. m = [l EXCEPT !.balances[tx.receiver] = @ + tx.amount]
    BY <1>4 DEF ApplyTransaction, IsReward
  <2>2. /\ m.balances = [l.balances EXCEPT ![tx.receiver] = @ + tx.amount]
        /\ SameBut(m, l, {"balances"})
    BY <1>1, <2>1 DEF SameBut, IsLedger, LedgerFields
  <2>3. tx.receiver \in Accounts /\ FeePaid(tx, l, height) = 0
    BY <1>4 DEF CanApply, FeePaid, IsReward
  <2> HIDE DEF m
  <2>4. /\ m.balances \in [Accounts -> Nat]
        /\ Total(m.balances) = Total(l.balances) + tx.amount
        /\ \A x \in Accounts : m.balances[x] >= l.balances[x]
    BY <1>1, <2>2, <2>3, PaidCoins
  <2>5. Total(m.balances) = Total(l.balances) + (IF IsReward(tx) THEN tx.amount ELSE 0) - 0
    BY <1>1, <1>3, <1>4, <2>4
  <2>6. /\ m.storage = l.storage /\ m.receipts = l.receipts
        /\ m.commitments = l.commitments /\ m.authorizations = l.authorizations
    BY <2>2 DEF SameBut, LedgerFields
  <2>7. WalletsAuthorize(m) /\ AuthorizesStill(m, l) /\ tx.kind # "execute"
    BY <1>1, <1>4, <2>6 DEF WalletsAuthorize, AuthorizesStill, Authorizes, IsReward
  <2>8. \A w \in Wallets : m.balances[w] >=
            l.balances[w] - (IF w = tx.sender THEN tx.fee + tx.amount ELSE 0)
    BY <1>1, <2>4
  <2>9. CoinsAfter(tx, l, m, 0)
    BY <1>1, <1>2, <2>4, <2>5, <2>6, <2>7, <2>8, QuietCoins
  <2> QED BY <2>3, <2>9 DEF m
<1>5. ASSUME ~IsReward(tx)
      PROVE  /\ tx.sender \in Wallets
             /\ c.balances \in [Accounts -> Nat]
             /\ Total(c.balances) = Total(l.balances) - (tx.fee + tx.amount)
             /\ \A a \in Contracts : c.balances[a] = l.balances[a]
             /\ \A a \in Accounts : c.balances[a] =
                    l.balances[a] - (IF a = tx.sender THEN tx.fee + tx.amount ELSE 0)
             /\ SameBut(c, l, {"nonces", "balances"})
             /\ c.storage = l.storage /\ c.receipts = l.receipts
             /\ c.commitments = l.commitments /\ c.authorizations = l.authorizations
  <2>1. /\ tx.sender \in Wallets
        /\ tx.fee + tx.amount \in 0 .. l.balances[tx.sender]
    BY <1>1, <1>5, AccountsAssumption DEF CanApply, CanPay
  <2>2. /\ c.balances \in [Accounts -> Nat]
        /\ Total(c.balances) = Total(l.balances) - (tx.fee + tx.amount)
        /\ \A a \in Contracts : c.balances[a] = l.balances[a]
        /\ \A a \in Accounts : c.balances[a] =
              l.balances[a] - (IF a = tx.sender THEN tx.fee + tx.amount ELSE 0)
        /\ SameBut(c, l, {"nonces", "balances"})
    BY <2>1, ChargedCoins
  <2> HIDE DEF c
  <2> QED BY <2>1, <2>2 DEF SameBut, LedgerFields
<1>6. CASE TransferApplies(tx)
  <2>1. /\ tx.kind = "transfer" /\ ~IsReward(tx) /\ tx.receiver \in Accounts
        /\ FeePaid(tx, l, height) = tx.fee
    BY <1>6 DEF TransferApplies, IsReward, FeePaid
  <2>2. m = [c EXCEPT !.balances[tx.receiver] = @ + tx.amount]
    BY <2>1 DEF ApplyTransaction
  <2> HIDE DEF c
  <2>3. /\ m.balances = [c.balances EXCEPT ![tx.receiver] = @ + tx.amount]
        /\ SameBut(m, c, {"balances"})
    BY <1>5, <2>1, <2>2 DEF SameBut, LedgerFields
  <2> HIDE DEF m
  <2>4. /\ m.balances \in [Accounts -> Nat]
        /\ Total(m.balances) = Total(c.balances) + tx.amount
        /\ \A x \in Accounts : m.balances[x] >= c.balances[x]
    BY <1>1, <1>5, <2>1, <2>3, PaidCoins
  <2>5. Total(m.balances) = Total(l.balances) + (IF IsReward(tx) THEN tx.amount ELSE 0) - tx.fee
    BY <1>1, <1>3, <1>5, <2>1, <2>4
  <2>6. /\ m.storage = l.storage /\ m.receipts = l.receipts
        /\ m.commitments = l.commitments /\ m.authorizations = l.authorizations
    BY <1>5, <2>1, <2>3 DEF SameBut, LedgerFields
  <2>7. WalletsAuthorize(m) /\ AuthorizesStill(m, l)
    BY <1>1, <2>6 DEF WalletsAuthorize, AuthorizesStill, Authorizes
  <2>8. /\ \A a \in Contracts : m.balances[a] >= l.balances[a]
        /\ \A w \in Wallets : m.balances[w] >=
              l.balances[w] - (IF w = tx.sender THEN tx.fee + tx.amount ELSE 0)
    <3>1. ASSUME NEW a \in Accounts
          PROVE  /\ m.balances[a] \in Nat /\ c.balances[a] \in Nat /\ l.balances[a] \in Nat
                 /\ m.balances[a] >= c.balances[a]
      BY <1>1, <1>5, <2>1, <2>4
    <3> QED BY <1>1, <1>5, <2>1, <3>1
  <2>9. CoinsAfter(tx, l, m, tx.fee)
    BY <1>1, <1>2, <2>1, <2>4, <2>5, <2>6, <2>7, <2>8, QuietCoins
  <2> QED BY <2>1, <2>9 DEF m
<1>7. CASE AuthorizeApplies(tx, l)
  <2>1. /\ tx.kind = "authorize" /\ ~IsReward(tx) /\ tx.amount = 0
        /\ FeePaid(tx, l, height) = tx.fee
    BY <1>7 DEF AuthorizeApplies, IsReward, FeePaid
  <2> DEFINE entry == [ wallet |-> tx.sender, contract |-> tx.receiver,
                        code_hash |-> Lower(tx.data.code_hash),
                        request |-> tx.data.request,
                        from |-> tx.data.from, until |-> tx.data.until ]
  <2>2. m = [c EXCEPT !.authorizations = Append(@, entry)]
    BY <2>1 DEF ApplyTransaction
  <2>3. entry.wallet \in Wallets
    BY <1>5, <2>1
  <2> HIDE DEF entry, c
  <2>4. /\ m.balances = c.balances /\ m.commitments = l.commitments
        /\ m.storage = l.storage /\ m.receipts = l.receipts
        /\ m.authorizations = Append(l.authorizations, entry)
    BY <1>5, <2>1, <2>2 DEF SameBut, LedgerFields
  <2> HIDE DEF m
  <2>5. WalletsAuthorize(m) /\ AuthorizesStill(m, l)
    <3>1. /\ IsSeq(l.authorizations)
          /\ \A i \in DOMAIN l.authorizations : l.authorizations[i].wallet \in Wallets
      BY <1>1 DEF WalletsAuthorize
    <3> DEFINE old == l.authorizations
               new == m.authorizations
    <3>2. /\ IsSeq(new) /\ Len(new) = Len(old) + 1
          /\ \A i \in 1 .. Len(old) : new[i] = old[i]
          /\ new[Len(old) + 1] = entry
      BY <2>4, <3>1, AppendIsSeq
    <3>3. Len(old) \in Nat /\ DOMAIN old = 1 .. Len(old) /\ DOMAIN new = 1 .. Len(new)
      BY <3>1, <3>2, SeqLength
    <3> HIDE DEF old, new
    <3>4. \A i \in DOMAIN new : i \in 1 .. Len(old) \/ i = Len(old) + 1
      BY <3>2, <3>3
    <3>5. \A i \in DOMAIN new : new[i].wallet \in Wallets
      BY <2>3, <3>1, <3>2, <3>3, <3>4 DEF old
    <3>6. \A i \in DOMAIN old : i \in DOMAIN new /\ new[i] = old[i]
      BY <3>2, <3>3
    <3> QED BY <3>2, <3>5, <3>6 DEF WalletsAuthorize, AuthorizesStill, Authorizes, old, new
  <2>6. CoinsAfter(tx, l, m, tx.fee)
    BY <1>1, <1>2, <2>1, <2>4, <2>5, FeeIsPaid DEF c
  <2> QED BY <2>1, <2>6 DEF m
<1>8. CASE CommitApplies(tx, l)
  <2>1. /\ tx.kind = "commit" /\ ~IsReward(tx) /\ tx.amount = 0
        /\ tx.data.hash \in DOMAIN CommitWord
        /\ FeePaid(tx, l, height) = tx.fee
    BY <1>8 DEF CommitApplies, IsReward, FeePaid
  <2>2. m = [c EXCEPT !.commitments = With(@, key, tx.data.hash)]
    BY <2>1 DEF ApplyTransaction
  <2> HIDE DEF c, key
  <2>3. /\ m.balances = c.balances /\ m.commitments = With(l.commitments, key, tx.data.hash)
        /\ m.storage = l.storage /\ m.receipts = l.receipts
        /\ m.authorizations = l.authorizations
    BY <1>5, <2>1, <2>2 DEF SameBut, LedgerFields
  <2> HIDE DEF m
  <2>4. WalletsAuthorize(m) /\ AuthorizesStill(m, l)
    BY <1>1, <2>3 DEF WalletsAuthorize, AuthorizesStill, Authorizes
  <2>5. \A k \in DOMAIN m.commitments : m.commitments[k] \in DOMAIN CommitWord
    BY <1>1, <2>1, <2>3 DEF With
  <2>6. CoinsAfter(tx, l, m, tx.fee)
    BY <1>1, <1>2, <2>1, <2>3, <2>4, <2>5, FeeIsPaid DEF c
  <2> QED BY <2>1, <2>6 DEF m
<1>9. CASE RevealApplies(tx, l) \/ DeployApplies(tx, l)
  <2>1. /\ tx.kind \in {"reveal", "deploy"} /\ ~IsReward(tx) /\ tx.amount = 0
        /\ FeePaid(tx, l, height) = tx.fee
    BY <1>9 DEF RevealApplies, DeployApplies, IsReward, FeePaid
  <2> DEFINE entry == [code |-> tx.data.code, code_hash |-> tx.data.code_hash]
  <2>2. \/ m = [c EXCEPT !.reveals = With(@, key, tx.data.seed)]
        \/ m = [c EXCEPT !.contracts = With(@, tx.receiver, entry)]
    BY <2>1 DEF ApplyTransaction
  <2> HIDE DEF c, key, entry
  <2>3. /\ m.balances = c.balances /\ m.commitments = l.commitments
        /\ m.storage = l.storage /\ m.receipts = l.receipts
        /\ m.authorizations = l.authorizations
    BY <1>5, <2>1, <2>2 DEF SameBut, LedgerFields
  <2> HIDE DEF m
  <2>4. WalletsAuthorize(m) /\ AuthorizesStill(m, l)
    BY <1>1, <2>3 DEF WalletsAuthorize, AuthorizesStill, Authorizes
  <2>5. CoinsAfter(tx, l, m, tx.fee)
    BY <1>1, <1>2, <2>1, <2>3, <2>4, FeeIsPaid DEF c
  <2> QED BY <2>1, <2>5 DEF m
<1> QED BY <1>4, <1>6, <1>7, <1>8, <1>9 DEF CanApply

LEMMA ContractsDoNotAuthorize ==
    ASSUME NEW l, WalletsAuthorize(l), NEW c \in Contracts
    PROVE  ~Authorizes(l, c)
BY AccountsAssumption DEF Authorizes, WalletsAuthorize

\* Who loses coins in a run is its sender, the contract that runs or a wallet
\* that authorized it: no other contract.
LEMMA RunTakesFrom ==
    ASSUME NEW l, CoinLedger(l), NEW tx, tx.sender \in Wallets, NEW height, NEW a, NEW request,
           MayDebit(ExecutionContext(tx, l, height), a, request)
    PROVE  a \in {tx.sender, tx.receiver} \/ Authorizes(l, a)
<1> DEFINE ctx == ExecutionContext(tx, l, height)
           hash == ExecutedHash(tx, l)
           entries == {l.authorizations[i] : i \in DOMAIN l.authorizations}
<1>1. CASE a \in {ctx.sender, ctx.contract}
  BY <1>1 DEF ExecutionContext
<1>2. CASE IsAuthorized(ctx, a, request)
  <2>1. <<a, request>> \in AuthorizedPairs(l, tx.receiver, hash, height)
    BY <1>2 DEF IsAuthorized, ExecutionContext
  <2> HIDE DEF hash
  <2>2. PICK auth \in entries : <<a, request>> = <<auth.wallet, auth.request>>
    BY <2>1 DEF AuthorizedPairs
  <2>3. a = auth.wallet
    BY <2>2
  <2> QED BY <2>2, <2>3 DEF Authorizes
<1> QED BY <1>1, <1>2 DEF MayDebit

\* However a run ends, it is paid for and has a receipt.
LEMMA SettledCoins ==
    ASSUME NEW l, CoinLedger(l), NEW tx, CanApply(tx, l), ExecuteApplies(tx, l),
           NEW height \in Nat
    PROVE  LET run  == Execution(tx, l, height)
               paid == FeeOfRun(tx, run)
               s    == Settled(tx, l, run)
           IN  /\ s.balances \in [Accounts -> Nat]
               /\ \A a \in Accounts :
                    s.balances[a] = l.balances[a] - (IF a = tx.sender THEN paid ELSE 0)
               /\ Total(s.balances) = Total(l.balances) - paid
               /\ SameBut(s, l, {"nonces", "balances", "receipts"})
               /\ tx \in DOMAIN s.receipts
               /\ s.receipts[tx].success = (run.status = "succeeded")
               /\ s.receipts[tx].fee_paid = paid
               /\ \A t \in DOMAIN s.receipts : IsSettled(t, s.receipts[t])
               /\ \A t \in DOMAIN l.receipts \ {tx} :
                     t \in DOMAIN s.receipts /\ s.receipts[t] = l.receipts[t]
<1> DEFINE run == Execution(tx, l, height)
           paid == FeeOfRun(tx, run)
           s == Settled(tx, l, run)
           c == Charged(tx, l, paid)
           receipt == [ success |-> run.status = "succeeded", fee_paid |-> paid,
                        fee_refunded |-> tx.fee - paid ]
<1>1. /\ paid \in 0 .. tx.fee
      /\ tx.data.gas_price > 0 => paid <= tx.data.gas_price * tx.data.gas_limit
  BY ExecutionIsSound
<1>2. s = [c EXCEPT !.receipts = With(@, tx, receipt)]
  BY DEF Settled
<1>3. /\ receipt.success = (run.status = "succeeded")
      /\ receipt.fee_paid = paid /\ receipt.fee_refunded = tx.fee - paid
  OBVIOUS
<1> HIDE DEF run, paid, s, receipt
<1>4. /\ tx.sender \in Wallets /\ tx.fee \in Nat
      /\ paid \in 0 .. l.balances[tx.sender] /\ IsLedger(l)
      /\ \A t \in DOMAIN l.receipts : IsSettled(t, l.receipts[t])
  BY <1>1, AccountsAssumption DEF CanApply, CanPay, ExecuteApplies, IsReward, CoinLedger
<1>5. /\ c.balances \in [Accounts -> Nat]
      /\ \A a \in Accounts :
            c.balances[a] = l.balances[a] - (IF a = tx.sender THEN paid ELSE 0)
      /\ Total(c.balances) = Total(l.balances) - paid
      /\ SameBut(c, l, {"nonces", "balances"})
  BY <1>4, ChargedCoins
<1> HIDE DEF c
<1>6. /\ s.balances = c.balances /\ s.receipts = With(l.receipts, tx, receipt)
      /\ SameBut(s, l, {"nonces", "balances", "receipts"})
  BY <1>2, <1>5 DEF SameBut, LedgerFields
<1>7. /\ DOMAIN s.receipts = DOMAIN l.receipts \cup {tx}
      /\ s.receipts[tx] = receipt
      /\ \A t \in DOMAIN l.receipts \ {tx} : s.receipts[t] = l.receipts[t]
  BY <1>6 DEF With
<1>8. IsSettled(tx, receipt)
  BY <1>1, <1>3, <1>4 DEF IsSettled
<1>9. \A t \in DOMAIN s.receipts : IsSettled(t, s.receipts[t])
  BY <1>4, <1>7, <1>8
<1>10. /\ s.balances \in [Accounts -> Nat]
       /\ \A a \in Accounts :
            s.balances[a] = l.balances[a] - (IF a = tx.sender THEN paid ELSE 0)
       /\ Total(s.balances) = Total(l.balances) - paid
  BY <1>5, <1>6
<1>11. s.receipts[tx].success = (run.status = "succeeded") /\ s.receipts[tx].fee_paid = paid
  BY <1>3, <1>7
<1> QED BY <1>6, <1>7, <1>9, <1>10, <1>11 DEF run, paid, s

\* The balances after a run that is kept: the run's, and what is left of the
\* escrow.
LEMMA CompletedCoins ==
    ASSUME NEW l, CoinLedger(l), NEW tx, CanApply(tx, l), ExecuteApplies(tx, l),
           NEW height \in Nat
    PROVE  LET run  == Execution(tx, l, height)
               paid == FeeOfRun(tx, run)
               done == Completed(tx, Settled(tx, l, run), run)
           IN  /\ done.balances \in [Accounts -> Nat]
               /\ \A a \in Accounts \ {tx.sender, tx.receiver} :
                     ~Authorizes(l, a) => done.balances[a] >= l.balances[a]
               /\ Total(done.balances) = Total(l.balances) - paid
               /\ SameBut(done, Settled(tx, l, run), {"balances", "storage"})
               /\ done.storage = [l.storage EXCEPT ![tx.receiver] = run.storage]
<1> DEFINE run == Execution(tx, l, height)
           paid == FeeOfRun(tx, run)
           s == Settled(tx, l, run)
           ctx == ExecutionContext(tx, l, height)
           moved == Moved(s.balances, tx.sender, tx.receiver, tx.amount)
           done == Completed(tx, s, run)
<1>1. /\ SoundRun(run, ctx) /\ paid \in 0 .. tx.fee
      /\ \A a \in Accounts :
            /\ ctx.balances[a] = l.balances[a]
                  - (IF a = tx.sender THEN tx.amount + tx.fee ELSE 0)
                  + (IF a = tx.receiver THEN tx.amount ELSE 0)
            /\ ctx.balances[a] >= 0
  BY ExecutionIsSound, ContextIsSound
<1>2. /\ s.balances \in [Accounts -> Nat]
      /\ \A a \in Accounts :
            s.balances[a] = l.balances[a] - (IF a = tx.sender THEN paid ELSE 0)
      /\ Total(s.balances) = Total(l.balances) - paid
      /\ SameBut(s, l, {"nonces", "balances", "receipts"})
  BY SettledCoins
<1>3. /\ tx.sender \in Wallets /\ tx.receiver \in Accounts
      /\ tx.fee \in Nat /\ tx.amount \in Nat
  BY DEF CanApply, ExecuteApplies, IsReward
<1>4. \A a \in Accounts : \A request :
          MayDebit(ctx, a, request) => a \in {tx.sender, tx.receiver} \/ Authorizes(l, a)
  BY <1>3, RunTakesFrom
<1>5. done = [s EXCEPT !.balances = [a \in Accounts |-> moved[a] + run.changes[a]],
                       !.storage[tx.receiver] = run.storage]
  BY DEF Completed, ValueMoved
<1> HIDE DEF run, paid, s, ctx, moved
<1>6. /\ done.balances = [a \in Accounts |-> moved[a] + run.changes[a]]
      /\ done.storage = [l.storage EXCEPT ![tx.receiver] = run.storage]
      /\ SameBut(done, s, {"balances", "storage"})
  BY <1>2, <1>5 DEF SameBut, LedgerFields
<1> HIDE DEF done
<1>7. /\ moved \in [Accounts -> Int] /\ Total(moved) = Total(s.balances)
      /\ \A a \in Accounts :
            moved[a] = s.balances[a] + Gain(a, tx.sender, tx.receiver, tx.amount)
  <2>1. /\ s.balances \in [Accounts -> Int] /\ tx.amount \in Int
        /\ tx.sender \in Accounts /\ tx.receiver \in Accounts
    BY <1>2, <1>3, AccountsAssumption
  <2>2. /\ moved \in [Accounts -> Int] /\ Total(moved) = Total(s.balances)
    BY ONLY <2>1, AccountsFinite, TotalOfMoved DEF moved
  <2>3. \A a \in Accounts :
            moved[a] = s.balances[a] + Gain(a, tx.sender, tx.receiver, tx.amount)
    BY ONLY <2>1, MovedGains DEF moved
  <2> QED BY <2>2, <2>3
<1>8. /\ run.changes \in [Accounts -> Int] /\ run.balances \in [Accounts -> Int]
      /\ Total(run.changes) = 0
      /\ \A a \in Accounts : run.balances[a] = ctx.balances[a] + run.changes[a]
      /\ \A a \in Accounts : ctx.balances[a] >= 0 => run.balances[a] >= 0
      /\ \A a \in Accounts : run.changes[a] < 0 => \E request : MayDebit(ctx, a, request)
  BY <1>1 DEF SoundRun, MovesCoins, MachineStates
<1>9. ASSUME NEW a \in Accounts
      PROVE  /\ done.balances[a] \in Int
             /\ done.balances[a] = moved[a] + run.changes[a]
             /\ done.balances[a] = run.balances[a] + (IF a = tx.sender THEN tx.fee - paid ELSE 0)
  <2>1. /\ l.balances[a] \in Int /\ run.changes[a] \in Int /\ moved[a] \in Int
        /\ tx.amount \in Int /\ tx.fee \in Int /\ paid \in Int
    BY <1>1, <1>3, <1>7, <1>8 DEF CoinLedger
  <2>2. moved[a] = l.balances[a] - (IF a = tx.sender THEN paid ELSE 0)
            + (IF a = tx.sender THEN 0 - tx.amount ELSE 0)
            + (IF a = tx.receiver THEN tx.amount ELSE 0)
    BY <1>2, <1>7, <2>1 DEF Gain
  <2>3. run.balances[a] = l.balances[a]
            - (IF a = tx.sender THEN tx.amount + tx.fee ELSE 0)
            + (IF a = tx.receiver THEN tx.amount ELSE 0) + run.changes[a]
    BY <1>1, <1>8, <2>1
  <2>4. done.balances[a] = moved[a] + run.changes[a]
    BY <1>6
  <2> QED BY <2>1, <2>2, <2>3, <2>4
<1>10. ASSUME NEW a \in Accounts
       PROVE  done.balances[a] \in Nat
  BY <1>1, <1>3, <1>8, <1>9
<1>11. done.balances \in [Accounts -> Nat]
  BY <1>6, <1>10
<1>12. Total(done.balances) = Total(l.balances) - paid
  <2>1. done.balances \in [Accounts -> Int] /\ \A a \in Accounts :
            done.balances[a] = moved[a] + run.changes[a]
    BY <1>9, <1>11
  <2>2. /\ Total(moved) \in Int
        /\ Total(done.balances) = Total(moved) + Total(run.changes)
    BY ONLY <1>7, <1>8, <2>1, AccountsFinite, TotalOfSum
  <2> QED BY <1>2, <1>7, <1>8, <2>2
<1>13. ASSUME NEW a \in Accounts \ {tx.sender, tx.receiver}, ~Authorizes(l, a)
       PROVE  done.balances[a] >= l.balances[a]
  <2>1. ~(run.changes[a] < 0)
    BY <1>4, <1>8, <1>13
  <2>2. a # tx.sender /\ a # tx.receiver /\ run.changes[a] \in Int /\ l.balances[a] \in Int
    BY <1>3, <1>8 DEF CoinLedger
  <2> QED BY <1>1, <1>8, <1>9, <2>1, <2>2
<1> QED BY <1>6, <1>11, <1>12, <1>13 DEF run, paid, s, done

\* An execution.
LEMMA ExecutionCoins ==
    ASSUME NEW l, CoinLedger(l), NEW tx, CanApply(tx, l), ExecuteApplies(tx, l),
           NEW height \in Nat
    PROVE  CoinsAfter(tx, l, ApplyTransaction(tx, l, height), FeePaid(tx, l, height))
<1> DEFINE m == ApplyTransaction(tx, l, height)
           run == Execution(tx, l, height)
           paid == FeeOfRun(tx, run)
           s == Settled(tx, l, run)
           done == Completed(tx, s, run)
<1>1. /\ tx.kind = "execute" /\ ~IsReward(tx) /\ tx.receiver \in Accounts
      /\ FeePaid(tx, l, height) = paid
      /\ m = IF run.status = "succeeded" THEN done ELSE s
  BY DEF ExecuteApplies, IsReward, FeePaid, ApplyTransaction, AfterRun, KeepsRun
<1>2. /\ s.balances \in [Accounts -> Nat]
      /\ \A a \in Accounts :
            s.balances[a] = l.balances[a] - (IF a = tx.sender THEN paid ELSE 0)
      /\ Total(s.balances) = Total(l.balances) - paid
      /\ SameBut(s, l, {"nonces", "balances", "receipts"})
      /\ tx \in DOMAIN s.receipts
      /\ s.receipts[tx].success = (run.status = "succeeded")
      /\ s.receipts[tx].fee_paid = paid
      /\ \A t \in DOMAIN s.receipts : IsSettled(t, s.receipts[t])
      /\ \A t \in DOMAIN l.receipts \ {tx} :
            t \in DOMAIN s.receipts /\ s.receipts[t] = l.receipts[t]
  BY SettledCoins
<1>3. /\ done.balances \in [Accounts -> Nat]
      /\ \A a \in Accounts \ {tx.sender, tx.receiver} :
            ~Authorizes(l, a) => done.balances[a] >= l.balances[a]
      /\ Total(done.balances) = Total(l.balances) - paid
      /\ SameBut(done, s, {"balances", "storage"})
      /\ done.storage = [l.storage EXCEPT ![tx.receiver] = run.storage]
  BY CompletedCoins
<1>4. run.storage \in [Keys -> Word] /\ paid \in Nat
  <2>1. SoundRun(run, ExecutionContext(tx, l, height)) /\ paid \in 0 .. tx.fee
    BY ExecutionIsSound
  <2>2. tx.fee \in Nat
    BY DEF CanApply
  <2> HIDE DEF run, paid
  <2> QED BY <2>1, <2>2 DEF SoundRun, MachineStates
<1>5. IsLedger(m)
  BY ApplyFollows DEF Follows, CoinLedger
<1>6. /\ tx.sender \in Wallets
      /\ l.balances \in [Accounts -> Nat] /\ l.storage \in [Accounts -> [Keys -> Word]]
      /\ \A key \in DOMAIN l.commitments : l.commitments[key] \in DOMAIN CommitWord
      /\ WalletsAuthorize(l)
  BY <1>1 DEF CanApply, ExecuteApplies, IsReward, CoinLedger
<1>7. Total(l.balances) \in Int
  <2>1. l.balances \in [Accounts -> Int]
    BY <1>6
  <2> QED BY <2>1, AccountsFinite, TotalIsInt
<1> HIDE DEF m, run, paid, s, done
<1>8. /\ m.commitments = l.commitments /\ m.authorizations = l.authorizations
      /\ m.receipts = s.receipts
  BY <1>1, <1>2, <1>3 DEF SameBut, LedgerFields
<1>9. m.storage \in [Accounts -> [Keys -> Word]]
  <2>1. s.storage = l.storage
    BY <1>2 DEF SameBut, LedgerFields
  <2> QED BY <1>1, <1>3, <1>4, <1>6, <2>1
<1>10. m.balances \in [Accounts -> Nat] /\ Total(m.balances) = Total(l.balances) - paid
  BY <1>1, <1>2, <1>3
<1>11. CoinLedger(m)
  BY <1>2, <1>5, <1>6, <1>8, <1>9, <1>10 DEF CoinLedger, WalletsAuthorize
<1>12. ASSUME NEW c \in Contracts
       PROVE  Untouched(m, l, c) \/ RanToItsEnd(tx, m, c)
  <2>1. c \in Accounts /\ c \notin Wallets /\ c # tx.sender /\ ~Authorizes(l, c)
    BY <1>6, AccountsAssumption, ContractsDoNotAuthorize
  <2>2. CASE run.status = "succeeded" /\ c = tx.receiver
    BY <1>1, <1>2, <1>8, <2>2 DEF RanToItsEnd
  <2>3. CASE run.status = "succeeded" /\ c # tx.receiver
    BY <1>1, <1>3, <1>6, <2>1, <2>3 DEF Untouched
  <2>4. CASE run.status # "succeeded"
    <3>1. s.storage = l.storage /\ s.balances[c] = l.balances[c] /\ m = s
      BY <1>1, <1>2, <1>6, <2>1, <2>4 DEF SameBut, LedgerFields
    <3> QED BY <1>6, <2>1, <3>1 DEF Untouched
  <2> QED BY <2>2, <2>3, <2>4
<1>13. Total(m.balances) = Total(l.balances) + (IF IsReward(tx) THEN tx.amount ELSE 0) - paid
  BY <1>1, <1>4, <1>7, <1>10
<1>14. Costs(tx, l, m)
  <2>1. tx \in DOMAIN m.receipts /\ m.receipts[tx].fee_paid = paid
    BY <1>2, <1>8
  <2>2. ASSUME NEW w \in Wallets
        PROVE  /\ CostTo(w, tx, m) \in Nat
               /\ \/ Authorizes(l, w)
                  \/ RanFor(tx, m, w)
                  \/ m.balances[w] >= l.balances[w] - CostTo(w, tx, m)
    <3>1. CostTo(w, tx, m) = IF w = tx.sender THEN paid ELSE 0
      BY <1>1, <2>1 DEF CostTo
    <3>2. w \in Accounts /\ l.balances[w] \in Nat
      BY <1>6, AccountsAssumption
    <3>3. CASE run.status # "succeeded"
      BY <1>1, <1>2, <1>4, <3>1, <3>2, <3>3
    <3>4. CASE run.status = "succeeded" /\ w \in {tx.sender, tx.receiver}
      <4>1. m.receipts[tx].success
        BY <1>2, <1>8, <3>4
      <4> QED BY <1>1, <1>4, <3>1, <3>4, <4>1 DEF RanFor
    <3>5. CASE run.status = "succeeded" /\ w \notin {tx.sender, tx.receiver}
      <4>1. ~Authorizes(l, w) => m.balances[w] >= l.balances[w]
        BY <1>1, <1>3, <3>2, <3>5
      <4> QED BY <1>4, <3>1, <3>2, <3>5, <4>1
    <3> QED BY <3>3, <3>4, <3>5
  <2> QED BY <2>1, <2>2 DEF Costs
<1>15. AuthorizesStill(m, l)
  BY <1>8 DEF AuthorizesStill, Authorizes
<1>16. CoinsAfter(tx, l, m, paid)
  BY <1>2, <1>8, <1>11, <1>12, <1>13, <1>14, <1>15 DEF CoinsAfter
<1> QED BY <1>1, <1>16 DEF m

LEMMA ApplyCoins ==
    ASSUME NEW l, CoinLedger(l), NEW tx, CanApply(tx, l), NEW height \in Nat
    PROVE  CoinsAfter(tx, l, ApplyTransaction(tx, l, height), FeePaid(tx, l, height))
BY SimpleCoins, ExecutionCoins

----------------------------------------------------------------------------
(* The coins of the transactions of a block.                               *)

\* What the first n transactions of a block may have made.
MadeBy(txs, n) == IF n = 0 THEN 0 ELSE txs[1].amount

\* What the transactions cost a wallet, as the ledger m has it, the first n of
\* them counted.
CostsUpTo(w, txs, m, n) ==
    [i \in 1 .. Len(txs) |-> IF i <= n THEN CostTo(w, txs[i], m) ELSE 0]

\* After n transactions, the ledger being m, a wallet that no contract reached
\* has what it had, less what they cost it.
Spared(txs, m, l, n) ==
    \A w \in Wallets :
        /\ AuthorizesStill(m, l)
        /\ CostsUpTo(w, txs, m, n) \in [1 .. Len(txs) -> Nat]
        /\ \/ Authorizes(m, w)
           \/ \E i \in 1 .. n : RanFor(txs[i], m, w)
           \/ m.balances[w] >= l.balances[w] - Total(CostsUpTo(w, txs, m, n))

HaveReceipts(txs, m, n) ==
    \A i \in 1 .. n : txs[i].kind = "execute" => txs[i] \in DOMAIN m.receipts

LEMMA CostsAddUp ==
    ASSUME NEW first \in Int, NEW next \in Int, NEW last \in Int, NEW cost \in Int,
           NEW total \in Int, NEW sum, sum = total + cost,
           next >= first - total, last >= next - cost
    PROVE  last >= first - sum
OBVIOUS

\* One transaction more.
LEMMA SparedOn ==
    ASSUME NEW txs, Len(txs) \in Nat, NEW n \in 1 .. Len(txs),
           \A i \in 1 .. n - 1 : txs[i].kind = "execute" => txs[i] # txs[n],
           NEW l, CoinLedger(l), NEW before, CoinLedger(before), NEW after, NEW paid,
           CoinsAfter(txs[n], before, after, paid),
           Spared(txs, before, l, n - 1), HaveReceipts(txs, before, n - 1)
    PROVE  Spared(txs, after, l, n) /\ HaveReceipts(txs, after, n)
<1> DEFINE tx == txs[n]
<1>1. /\ CoinLedger(after)
      /\ \A t \in DOMAIN before.receipts \ {tx} :
             t \in DOMAIN after.receipts /\ after.receipts[t] = before.receipts[t]
      /\ AuthorizesStill(after, before) /\ Costs(tx, before, after)
  BY DEF CoinsAfter
<1>2. \A i \in 1 .. n : i = n \/ i \in 1 .. n - 1
  OBVIOUS
<1>3. \A i \in 1 .. n - 1 : txs[i].kind = "execute" =>
          txs[i] \in DOMAIN after.receipts /\ after.receipts[txs[i]] = before.receipts[txs[i]]
  BY <1>1 DEF HaveReceipts
<1>4. HaveReceipts(txs, after, n)
  BY <1>1, <1>2, <1>3 DEF HaveReceipts, Costs
<1>5. ASSUME NEW w \in Wallets
      PROVE  /\ AuthorizesStill(after, l)
             /\ CostsUpTo(w, txs, after, n) \in [1 .. Len(txs) -> Nat]
             /\ \/ Authorizes(after, w)
                \/ \E i \in 1 .. n : RanFor(txs[i], after, w)
                \/ after.balances[w] >= l.balances[w] - Total(CostsUpTo(w, txs, after, n))
  <2> DEFINE old == CostsUpTo(w, txs, before, n - 1)
             new == CostsUpTo(w, txs, after, n)
             cost == CostTo(w, tx, after)
             D == 1 .. Len(txs)
  <2>1. \A i \in 1 .. n - 1 : CostTo(w, txs[i], after) = CostTo(w, txs[i], before)
    BY <1>3 DEF CostTo
  <2>2. /\ old \in [D -> Nat] /\ cost \in Nat
        /\ \A i \in D : old[i] = IF i <= n - 1 THEN CostTo(w, txs[i], before) ELSE 0
        /\ \A i \in D : new[i] = IF i <= n THEN CostTo(w, txs[i], after) ELSE 0
        /\ DOMAIN new = D /\ new = [i \in D |-> new[i]] /\ n \in D
    BY <1>1 DEF Spared, Costs, CostsUpTo
  <2>3. old[n] = 0 /\ new[n] = cost
    <3>1. ~(n <= n - 1) /\ n <= n
      OBVIOUS
    <3> QED BY <2>2, <3>1
  <2>4. ASSUME NEW i \in D, i # n
        PROVE  new[i] = old[i]
    <3>1. CASE i <= n - 1
      <4>1. i \in 1 .. n - 1 /\ i <= n
        BY <3>1
      <4> QED BY <2>1, <2>2, <3>1, <4>1
    <3>2. CASE ~(i <= n - 1)
      <4>1. ~(i <= n)
        BY <2>4, <3>2
      <4> QED BY <2>2, <3>2, <4>1
    <3> QED BY <3>1, <3>2
  <2>5. new \in [D -> Nat] /\ IsFiniteSet(D)
    <3>1. \A i \in D : new[i] \in Nat
      BY <2>2, <2>3, <2>4
    <3>2. IsFiniteSet(D)
      BY IntervalSize
    <3> HIDE DEF new, D
    <3> QED BY <2>2, <3>1, <3>2
  <2>6. Total(new) = Total(old) + cost /\ Total(old) \in Int
    <3> DEFINE last == n
    <3> HIDE DEF old, new, cost, D
    <3>1. /\ old \in [D -> Int] /\ new \in [D -> Int] /\ cost \in Int /\ last \in D
          /\ new[last] = old[last] + cost
          /\ \A x \in D : x # last => new[x] = old[x]
      BY <2>2, <2>3, <2>4, <2>5
    <3> HIDE DEF last
    <3>2. IsFiniteSet(D)
      BY <2>5
    <3>3. Total(new) = Total(old) + cost
      BY ONLY <3>1, <3>2, TotalOfChanged
    <3>4. Total(old) \in Int
      BY ONLY <3>1, <3>2, TotalIsInt
    <3> QED BY <3>3, <3>4
  <2> HIDE DEF old, new, cost
  <2>7. /\ \/ Authorizes(before, w)
           \/ \E i \in 1 .. n - 1 : RanFor(txs[i], before, w)
           \/ before.balances[w] >= l.balances[w] - Total(old)
        /\ \/ Authorizes(before, w)
           \/ RanFor(tx, after, w)
           \/ after.balances[w] >= before.balances[w] - cost
    BY <1>1 DEF Spared, Costs, old, cost
  <2>8. Authorizes(before, w) => Authorizes(after, w)
    BY <1>1 DEF AuthorizesStill
  <2>9. (\E i \in 1 .. n - 1 : RanFor(txs[i], before, w))
            => \E i \in 1 .. n : RanFor(txs[i], after, w)
    <3> SUFFICES ASSUME NEW i \in 1 .. n - 1, RanFor(txs[i], before, w)
                 PROVE  i \in 1 .. n /\ RanFor(txs[i], after, w)
      OBVIOUS
    <3> QED BY <1>3 DEF RanFor
  <2>10. /\ l.balances[w] \in Int /\ before.balances[w] \in Int /\ after.balances[w] \in Int
         /\ cost \in Int
    BY <1>1, <2>2, AccountsAssumption DEF CoinLedger
  <2>11. AuthorizesStill(after, l)
    BY <1>1 DEF AuthorizesStill, Spared
  <2>12. n \in 1 .. n
    OBVIOUS
  <2>13. \/ Authorizes(after, w)
         \/ \E i \in 1 .. n : RanFor(txs[i], after, w)
         \/ after.balances[w] >= l.balances[w] - Total(new)
    <3>1. CASE before.balances[w] >= l.balances[w] - Total(old)
               /\ after.balances[w] >= before.balances[w] - cost
      <4>1. after.balances[w] >= l.balances[w] - Total(new)
        BY ONLY <2>6, <2>10, <3>1, CostsAddUp
      <4> QED BY <4>1
    <3>2. CASE RanFor(tx, after, w)
      BY <2>12, <3>2
    <3> QED BY <2>7, <2>8, <2>9, <3>1, <3>2
  <2> QED BY <2>5, <2>11, <2>13 DEF new
<1> QED BY <1>4, <1>5 DEF Spared

\* A block moves the coins of the ledger before it, and makes what its reward
\* says; what a contract owns changes only when a transaction runs it.
LEMMA ApplyInOrderCoins ==
    ASSUME NEW txs, Len(txs) \in Nat, NEW l, CoinLedger(l), NEW height \in Nat,
           \A i \in 1 .. Len(txs) : IsReward(txs[i]) <=> i = 1,
           ApplyInOrder(txs, l, height).ok
    PROVE  LET after == ApplyInOrder(txs, l, height)
           IN  /\ CoinLedger(after.ledger)
               /\ after.fees \in Nat
               /\ Total(after.ledger.balances) =
                    Total(l.balances) + MadeBy(txs, Len(txs)) - after.fees
               /\ \A c \in Contracts :
                    \/ Untouched(after.ledger, l, c)
                    \/ \E i \in 1 .. Len(txs) : RanToItsEnd(txs[i], after.ledger, c)
               /\ Spared(txs, after.ledger, l, Len(txs))
<1>1. PICK f : /\ f = [n \in 0 .. Len(txs) |-> NextApplied(txs, l, height, f, n)]
               /\ ApplyInOrder(txs, l, height) = f[Len(txs)]
  BY ApplyInOrderSolves
<1>2. \A n \in 0 .. Len(txs) : f[n] = NextApplied(txs, l, height, f, n)
  BY <1>1
<1>3. f[0] = [ok |-> TRUE, ledger |-> l, fees |-> 0]
  <2>1. f[0] = NextApplied(txs, l, height, f, 0)
    BY <1>2
  <2> QED BY <2>1 DEF NextApplied
<1>4. ASSUME NEW n \in 1 .. Len(txs), f[n].ok
      PROVE  /\ f[n - 1].ok
             /\ CanApply(txs[n], f[n - 1].ledger)
             /\ f[n].ledger = ApplyTransaction(txs[n], f[n - 1].ledger, height)
             /\ f[n].fees = f[n - 1].fees + FeePaid(txs[n], f[n - 1].ledger, height)
  <2>1. f[n] = NextApplied(txs, l, height, f, n) /\ n # 0
    BY <1>2
  <2>2. CASE f[n - 1].ok /\ CanApply(txs[n], f[n - 1].ledger)
    BY <2>1, <2>2 DEF NextApplied
  <2>3. CASE ~(f[n - 1].ok /\ CanApply(txs[n], f[n - 1].ledger))
    <3>1. f[n] = [f[n - 1] EXCEPT !.ok = FALSE]
      BY <2>1, <2>3 DEF NextApplied
    <3> QED BY <3>1, <1>4
  <2> QED BY <2>2, <2>3
<1>5. \A i, j \in 1 .. Len(txs) : i # j /\ ~IsReward(txs[i]) => txs[i] # txs[j]
  BY ApplyInOrderFollows DEF CoinLedger
<1>6. ASSUME NEW m, CoinLedger(m)
      PROVE  Total(m.balances) \in Int
  <2>1. m.balances \in [Accounts -> Int]
    BY <1>6 DEF CoinLedger
  <2> QED BY <2>1, AccountsFinite, TotalIsInt
<1> DEFINE Ran(n, c) == \E i \in 1 .. n : RanToItsEnd(txs[i], f[n].ledger, c)
           Good(n) ==
        f[n].ok =>
            /\ CoinLedger(f[n].ledger)
            /\ f[n].fees \in Nat /\ MadeBy(txs, n) \in Int
            /\ Total(f[n].ledger.balances) = Total(l.balances) + MadeBy(txs, n) - f[n].fees
            /\ \A c \in Contracts : Untouched(f[n].ledger, l, c) \/ Ran(n, c)
            /\ Spared(txs, f[n].ledger, l, n) /\ HaveReceipts(txs, f[n].ledger, n)
           Bad == {n \in 0 .. Len(txs) : ~Good(n)}
<1>7. Bad = {}
  <2>1. SUFFICES ASSUME Bad # {} PROVE FALSE
    OBVIOUS
  <2>2. PICK n \in Bad : \A k \in Bad : n <= k
    <3> HIDE DEF Good
    <3>1. Bad \in SUBSET Nat
      OBVIOUS
    <3> HIDE DEF Bad
    <3> QED BY <2>1, <3>1, LeastNatural
  <2>3. n \in 0 .. Len(txs) /\ ~Good(n)
    <3> HIDE DEF Good
    <3> QED OBVIOUS
  <2>4. n # 0
    <3>1. f[0].ledger = l /\ f[0].fees = 0 /\ MadeBy(txs, 0) = 0
      BY <1>3 DEF MadeBy
    <3>2. \A c \in Contracts : Untouched(l, l, c)
      BY AccountsAssumption DEF Untouched, CoinLedger
    <3>3. Total(l.balances) \in Int
      BY <1>6
    <3>4. Spared(txs, l, l, 0) /\ HaveReceipts(txs, l, 0)
      <4>1. ASSUME NEW w \in Wallets
            PROVE  /\ CostsUpTo(w, txs, l, 0) \in [1 .. Len(txs) -> Nat]
                   /\ l.balances[w] >= l.balances[w] - Total(CostsUpTo(w, txs, l, 0))
        <5>1. \A i \in 1 .. Len(txs) : ~(i <= 0)
          OBVIOUS
        <5>2. CostsUpTo(w, txs, l, 0) = [i \in 1 .. Len(txs) |-> 0]
          BY <5>1 DEF CostsUpTo
        <5>3. Total(CostsUpTo(w, txs, l, 0)) = 0
          BY <5>2, IntervalSize, TotalOfNothing
        <5>4. l.balances[w] \in Int
          BY AccountsAssumption DEF CoinLedger
        <5> QED BY <5>2, <5>3, <5>4
      <4>2. AuthorizesStill(l, l)
        BY DEF AuthorizesStill
      <4> QED BY <4>1, <4>2 DEF Spared, HaveReceipts
    <3> QED BY <2>3, <3>1, <3>2, <3>3, <3>4
  <2>5. n \in 1 .. Len(txs) /\ n - 1 \in 0 .. Len(txs) /\ ~(n <= n - 1)
    BY <2>3, <2>4
  <2>6. Good(n - 1)
    <3> HIDE DEF Good
    <3> QED BY <2>2, <2>5
  <2> DEFINE before == f[n - 1].ledger
             after == f[n].ledger
             tx == txs[n]
             paid == FeePaid(tx, before, height)
  <2>7. /\ f[n].ok /\ f[n - 1].ok
        /\ CanApply(tx, before) /\ after = ApplyTransaction(tx, before, height)
        /\ f[n].fees = f[n - 1].fees + paid
    BY <1>4, <2>3, <2>5
  <2>8. /\ CoinLedger(before) /\ f[n - 1].fees \in Nat /\ MadeBy(txs, n - 1) \in Int
        /\ Total(before.balances) = Total(l.balances) + MadeBy(txs, n - 1) - f[n - 1].fees
        /\ \A c \in Contracts : Untouched(before, l, c) \/ Ran(n - 1, c)
        /\ Spared(txs, before, l, n - 1) /\ HaveReceipts(txs, before, n - 1)
    BY <2>6, <2>7
  <2>9. CoinsAfter(tx, before, after, paid)
    BY <2>7, <2>8, ApplyCoins
  <2>10. paid \in Nat
    <3>1. tx.fee \in Nat
      BY <2>7 DEF CanApply
    <3>2. CASE ExecuteApplies(tx, before)
      <4>1. tx.kind = "execute" /\ ~IsReward(tx)
        BY <3>2 DEF ExecuteApplies, IsReward
      <4>2. FeeOfRun(tx, Execution(tx, before, height)) \in 0 .. tx.fee
        BY <2>7, <2>8, <3>2, ExecutionIsSound
      <4> QED BY <3>1, <4>1, <4>2 DEF FeePaid
    <3>3. CASE ~ExecuteApplies(tx, before)
      <4>1. tx.kind # "execute"
        BY <2>7, <3>3 DEF CanApply, IsReward, TransferApplies, CommitApplies, RevealApplies,
              AuthorizeApplies, DeployApplies
      <4> QED BY <3>1, <4>1 DEF FeePaid, IsReward
    <3> QED BY <3>2, <3>3
  <2> DEFINE reward == IF IsReward(tx) THEN tx.amount ELSE 0
  <2>11. /\ MadeBy(txs, n) = MadeBy(txs, n - 1) + reward
         /\ MadeBy(txs, n) \in Int /\ reward \in Int
    <3>1. IsReward(tx) <=> n = 1
      BY <2>5
    <3>2. tx.amount \in Nat
      BY <2>7 DEF CanApply
    <3>3. CASE n = 1
      <4>1. MadeBy(txs, n) = tx.amount /\ MadeBy(txs, n - 1) = 0 /\ reward = tx.amount
        BY <3>1, <3>3 DEF MadeBy
      <4> QED BY <3>2, <4>1
    <3>4. CASE n # 1
      <4>1. MadeBy(txs, n) = txs[1].amount /\ MadeBy(txs, n - 1) = txs[1].amount /\ reward = 0
        BY <2>5, <3>1, <3>4 DEF MadeBy
      <4> QED BY <2>8, <4>1
    <3> QED BY <3>3, <3>4
  <2> HIDE DEF before, after, tx, paid
  <2>12. /\ CoinLedger(after) /\ Total(after.balances) = Total(before.balances) + reward - paid
         /\ \A c \in Contracts : Untouched(after, before, c) \/ RanToItsEnd(tx, after, c)
         /\ \A t \in DOMAIN before.receipts \ {tx} :
                t \in DOMAIN after.receipts /\ after.receipts[t] = before.receipts[t]
    BY <2>9 DEF CoinsAfter
  <2> HIDE DEF reward
  <2>13. Total(after.balances) = Total(l.balances) + MadeBy(txs, n) - f[n].fees
    <3>1. Total(l.balances) \in Int /\ Total(before.balances) \in Int
      BY <1>6, <2>8
    <3>2. Total(before.balances) = Total(l.balances) + MadeBy(txs, n - 1) - f[n - 1].fees
      BY <2>8
    <3>3. Total(after.balances) = Total(before.balances) + reward - paid
      BY <2>12
    <3>4. f[n].fees = f[n - 1].fees + paid /\ MadeBy(txs, n) = MadeBy(txs, n - 1) + reward
      BY <2>7, <2>11
    <3>5. /\ f[n - 1].fees \in Int /\ MadeBy(txs, n - 1) \in Int
          /\ paid \in Int /\ reward \in Int
      BY <2>8, <2>10, <2>11
    <3> DEFINE t0 == Total(l.balances)
               t1 == Total(before.balances)
               t2 == Total(after.balances)
               made == MadeBy(txs, n - 1)
               fees == f[n - 1].fees
    <3> HIDE DEF t0, t1, t2, made, fees
    <3>6. t2 = t0 + (made + reward) - (fees + paid)
      BY ONLY <3>1, <3>2, <3>3, <3>5 DEF t0, t1, t2, made, fees
    <3> QED BY <3>4, <3>6 DEF t0, t2, made, fees
  <2>14. ASSUME NEW c \in Contracts
         PROVE  Untouched(after, l, c) \/ \E i \in 1 .. n : RanToItsEnd(txs[i], after, c)
    <3>1. CASE RanToItsEnd(tx, after, c)
      BY <2>5, <3>1 DEF tx
    <3>2. CASE Untouched(before, l, c) /\ Untouched(after, before, c)
      <4>1. c \in Accounts
        BY AccountsAssumption
      <4>2. /\ l.balances[c] \in Int /\ before.balances[c] \in Int
            /\ after.balances[c] \in Int
        BY <2>8, <2>12, <4>1 DEF CoinLedger
      <4> QED BY <3>2, <4>2 DEF Untouched
    <3>3. CASE Ran(n - 1, c)
      <4>1. PICK i \in 1 .. n - 1 : RanToItsEnd(txs[i], before, c)
        BY <3>3 DEF before
      <4>2. i \in 1 .. n /\ i \in 1 .. Len(txs) /\ i # n
        BY <2>5, <4>1
      <4>3. txs[i] # tx
        BY <1>5, <2>5, <4>1, <4>2 DEF RanToItsEnd, IsReward, tx
      <4>4. RanToItsEnd(txs[i], after, c)
        BY <2>12, <4>1, <4>3 DEF RanToItsEnd
      <4> QED BY <4>2, <4>4
    <3> QED BY <2>8, <2>12, <3>1, <3>2, <3>3
  <2>15. f[n].fees \in Nat
    BY <2>7, <2>8, <2>10
  <2>16. Spared(txs, after, l, n) /\ HaveReceipts(txs, after, n)
    <3>1. \A i \in 1 .. n - 1 : txs[i].kind = "execute" => txs[i] # txs[n]
      <4> SUFFICES ASSUME NEW i \in 1 .. n - 1, txs[i].kind = "execute"
                   PROVE  txs[i] # txs[n]
        OBVIOUS
      <4>1. i \in 1 .. Len(txs) /\ i # n /\ ~IsReward(txs[i])
        BY <2>5 DEF IsReward
      <4> QED BY <1>5, <2>5, <4>1
    <3>2. CoinsAfter(txs[n], before, after, paid)
      BY <2>9 DEF tx
    <3> QED BY ONLY <2>5, <2>8, <3>1, <3>2, CoinLedger(l), Len(txs) \in Nat, SparedOn
  <2> QED BY <2>3, <2>11, <2>12, <2>13, <2>14, <2>15, <2>16 DEF after
<1>8. Good(Len(txs))
  <2> HIDE DEF Good
  <2> QED BY <1>7
<1> QED BY <1>1, <1>8

----------------------------------------------------------------------------
(* The coins of the blocks of a chain.                                     *)

\* What a stored block did to the coins of its parent's ledger.
LEMMA BlockCoins ==
    ASSUME IInv, BodiesAreSeqs, NEW h \in Stored, CoinLedger(LedgerAt(Parent(h)))
    PROVE  /\ CoinLedger(LedgerAt(h))
           /\ Total(LedgerAt(h).balances) = Total(LedgerAt(Parent(h)).balances)
                    + (IF Parent(h) = NoHash THEN 0 ELSE MiningReward)
           /\ \A c \in Contracts :
                \/ Untouched(LedgerAt(h), LedgerAt(Parent(h)), c)
                \/ \E tx \in ToSet(blocks[h].transactions) : RanToItsEnd(tx, LedgerAt(h), c)
           /\ LET txs == blocks[h].transactions
              IN  Spared(txs, LedgerAt(h), LedgerAt(Parent(h)), Len(txs))
           /\ Claim(blocks[h]) \in Nat
<1> DEFINE txs == blocks[h].transactions
           before == LedgerAt(Parent(h))
           id == blocks[h].block_id
           after == ApplyInOrder(txs, before, id)
<1>1. /\ id \in Nat /\ (id = 0 <=> Parent(h) = NoHash)
      /\ h # NoHash
  BY NoHashAssumption DEF IInv, TypeOK, TreeIsSound
<1>2. Len(txs) \in Nat /\ DOMAIN txs = 1 .. Len(txs)
  BY SeqLength DEF BodiesAreSeqs
<1>3. /\ IsValidChild(blocks[h], before) /\ states[h] = ChildState(blocks[h], before)
      /\ Parent(h) = NoHash => txs = << >>
  BY DEF IInv, Replayed, LedgerAt, IsGenesis
<1>4. /\ after.ok /\ LedgerAt(h) = after.ledger
      /\ id # 0 => txs[1].amount = MiningReward + after.fees
      /\ RewardIsFirst(blocks[h])
  BY <1>1, <1>3
     DEF IsValidChild, IsWellFormed, ClaimsItsFees, AppliedBlock, ChildState, StateAt, LedgerAt
<1>5. \A i \in 1 .. Len(txs) : IsReward(txs[i]) <=> i = 1
  BY <1>1, <1>2, <1>3, <1>4 DEF RewardIsFirst
<1>6. id # 0 => Len(txs) # 0
  BY <1>2, <1>4 DEF RewardIsFirst, BodiesAreSeqs, IsSeq
<1> HIDE DEF txs, before, id, after
<1>7. /\ CoinLedger(after.ledger) /\ after.fees \in Nat
      /\ Total(after.ledger.balances) = Total(before.balances) + MadeBy(txs, Len(txs)) - after.fees
      /\ \A c \in Contracts :
            \/ Untouched(after.ledger, before, c)
            \/ \E i \in 1 .. Len(txs) : RanToItsEnd(txs[i], after.ledger, c)
      /\ Spared(txs, after.ledger, before, Len(txs))
  <2>1. CoinLedger(before) /\ ApplyInOrder(txs, before, id).ok
    BY <1>4 DEF before, after
  <2> QED BY ONLY <1>1, <1>2, <1>5, <2>1, ApplyInOrderCoins DEF after
<1>8. Total(before.balances) \in Int
  <2>1. before.balances \in [Accounts -> Int]
    BY DEF CoinLedger, before
  <2> QED BY <2>1, AccountsFinite, TotalIsInt
<1>9. Total(after.ledger.balances) = Total(before.balances)
            + (IF Parent(h) = NoHash THEN 0 ELSE MiningReward)
  <2>1. CASE Parent(h) = NoHash
    <3>1. txs = << >>
      BY <1>3, <2>1 DEF txs
    <3>2. after = [ok |-> TRUE, ledger |-> before, fees |-> 0]
      BY <3>1, ApplyNothing DEF after
    <3> QED BY <2>1, <3>2, <1>8
  <2>2. CASE Parent(h) # NoHash
    <3>1. MadeBy(txs, Len(txs)) = MiningReward + after.fees
      BY <1>1, <1>4, <1>6, <2>2 DEF MadeBy
    <3> QED BY <1>7, <1>8, <2>2, <3>1, RewardAssumption
  <2> QED BY <2>1, <2>2
<1>10. ASSUME NEW c \in Contracts, NEW i \in 1 .. Len(txs), RanToItsEnd(txs[i], after.ledger, c)
       PROVE  \E tx \in ToSet(txs) : RanToItsEnd(tx, after.ledger, c)
  BY <1>2, <1>10 DEF ToSet
<1>11. Claim(blocks[h]) \in Nat
  <2>1. CASE txs = << >>
    BY <2>1 DEF Claim, txs
  <2>2. CASE txs # << >>
    <3>1. Claim(blocks[h]) = txs[1].amount /\ Parent(h) # NoHash
      BY <1>3, <2>2 DEF Claim, txs
    <3>2. txs[1].amount = MiningReward + after.fees
      BY <1>1, <1>4, <3>1
    <3> QED BY <1>7, <3>1, <3>2, RewardAssumption
  <2> QED BY <2>1, <2>2
<1> QED BY <1>4, <1>7, <1>9, <1>10, <1>11 DEF txs, before

\* No block of a chain but the genesis block is without a reward.
Rewards(g) == IF g = NoHash THEN 0 ELSE Height(g)

\* The state after every stored block keeps the invariant, and its coins are
\* those that were mined.
LEMMA CoinsEverywhere ==
    ASSUME IInv, BodiesAreSeqs, NEW g \in Stored \cup {NoHash}
    PROVE  /\ CoinLedger(LedgerAt(g))
           /\ Total(LedgerAt(g).balances) = MiningReward * Rewards(g)
<1> DEFINE Sound(h) == /\ CoinLedger(LedgerAt(h))
                       /\ Total(LedgerAt(h).balances) = MiningReward * Rewards(h)
           Bad == {h \in Stored : ~Sound(h)}
<1>1. Sound(NoHash)
  BY EmptyIsCoinLedger, RewardAssumption DEF LedgerAt, StateAt, FreshState, Rewards
<1>2. Bad = {}
  <2>1. SUFFICES ASSUME Bad # {} PROVE FALSE
    OBVIOUS
  <2>2. PICK h \in Bad : Parent(h) \in (Stored \ Bad) \cup {NoHash}
    <3> HIDE DEF Sound
    <3>1. Bad \in SUBSET Stored
      OBVIOUS
    <3> HIDE DEF Bad
    <3> QED BY <2>1, <3>1, LowestBlock
  <2>3. h \in Stored /\ ~Sound(h) /\ Sound(Parent(h))
    <3> HIDE DEF Sound
    <3> QED BY <1>1, <2>2
  <2>4. /\ CoinLedger(LedgerAt(h))
        /\ Total(LedgerAt(h).balances) = Total(LedgerAt(Parent(h)).balances)
                + (IF Parent(h) = NoHash THEN 0 ELSE MiningReward)
    BY <2>3, BlockCoins
  <2>5. /\ Rewards(Parent(h)) \in Nat /\ Rewards(h) \in Nat
        /\ Rewards(h) = Rewards(Parent(h)) + (IF Parent(h) = NoHash THEN 0 ELSE 1)
    BY <2>3, NoHashAssumption DEF IInv, TypeOK, TreeIsSound, Rewards
  <2>6. MiningReward * Rewards(h) = MiningReward * Rewards(Parent(h))
                + (IF Parent(h) = NoHash THEN 0 ELSE MiningReward)
    BY <2>5, RewardAssumption
  <2> QED BY <2>3, <2>4, <2>6
<1> HIDE DEF Sound
<1>3. Sound(g)
  BY <1>1, <1>2
<1> QED BY <1>3 DEF Sound

\* On the way through a block there are no more coins than its height in
\* rewards and what it claims.
LEMMA BlockFits ==
    ASSUME IInv, BodiesAreSeqs, NEW h \in Stored,
           NEW n \in 0 .. Len(blocks[h].transactions), NEW a \in Accounts,
           MiningReward * Height(h) + Claim(blocks[h]) < Precision
    PROVE  OnTheWay(h, n).balances[a] \in 0 .. Precision - 1
<1> DEFINE txs == blocks[h].transactions
           before == LedgerAt(Parent(h))
           id == Height(h)
           first == SubSeq(txs, 1, n)
           after == ApplyInOrder(first, before, id)
<1>1. /\ id \in Nat /\ id = blocks[h].block_id /\ (id = 0 <=> Parent(h) = NoHash)
      /\ h # NoHash /\ Parent(h) \in Stored \cup {NoHash}
      /\ Parent(h) # NoHash => Height(Parent(h)) \in Nat /\ id = Height(Parent(h)) + 1
  BY NoHashAssumption DEF IInv, TypeOK, TreeIsSound
<1>2. IsSeq(txs) /\ Len(txs) \in Nat /\ DOMAIN txs = 1 .. Len(txs) /\ n \in 0 .. Len(txs)
  BY SeqLength DEF BodiesAreSeqs
<1>3. /\ IsValidChild(blocks[h], before) /\ states[h] = ChildState(blocks[h], before)
      /\ Parent(h) = NoHash => txs = << >>
  BY DEF IInv, Replayed, LedgerAt, IsGenesis
<1>4. ApplyInOrder(txs, before, id).ok /\ RewardIsFirst(blocks[h])
  BY <1>1, <1>3
     DEF IsValidChild, IsWellFormed, ClaimsItsFees, AppliedBlock, ChildState, StateAt, LedgerAt
<1>5. \A i \in 1 .. Len(txs) : IsReward(txs[i]) <=> i = 1
  BY <1>1, <1>2, <1>3, <1>4 DEF RewardIsFirst
<1>6. /\ CoinLedger(before) /\ Claim(blocks[h]) \in Nat
      /\ Total(before.balances) = MiningReward * Rewards(Parent(h))
  <2>1. CoinLedger(before) /\ Total(before.balances) = MiningReward * Rewards(Parent(h))
    BY <1>1, CoinsEverywhere
  <2> QED BY <2>1, BlockCoins
<1>7. OnTheWay(h, n) = after.ledger
  BY DEF OnTheWay, LedgerAt
<1> DEFINE claim == Claim(blocks[h])
<1>8. claim = IF txs = << >> THEN 0 ELSE txs[1].amount
  BY DEF Claim
<1>9. MiningReward * id + claim < Precision
  OBVIOUS
<1> HIDE DEF txs, before, id, first, after, claim
<1>10. /\ Len(first) = n /\ \A i \in 1 .. n : first[i] = txs[i]
       /\ after.ok
  <2>1. first = FirstOf(txs, n)
    BY DEF FirstOf, first
  <2>2. /\ Len(FirstOf(txs, n)) = n /\ \A i \in 1 .. n : FirstOf(txs, n)[i] = txs[i]
        /\ ApplyInOrder(FirstOf(txs, n), before, id).ok
    BY ONLY <1>2, <1>4, ApplyPrefix
  <2> QED BY <2>1, <2>2 DEF after
<1>11. \A i \in 1 .. Len(first) : IsReward(first[i]) <=> i = 1
  BY <1>2, <1>5, <1>10
<1>12. /\ CoinLedger(after.ledger) /\ after.fees \in Nat
       /\ Total(after.ledger.balances) =
              Total(before.balances) + MadeBy(first, Len(first)) - after.fees
  <2>1. Len(first) \in Nat /\ ApplyInOrder(first, before, id).ok
    BY <1>2, <1>10 DEF after
  <2> QED BY ONLY <1>1, <1>6, <1>11, <2>1, ApplyInOrderCoins DEF after
<1>13. MadeBy(first, Len(first)) \in {0, claim}
  <2>1. CASE n = 0
    BY <1>10, <2>1 DEF MadeBy
  <2>2. CASE n # 0
    <3>1. 1 \in 1 .. n /\ txs # << >>
      BY <1>2, <2>2
    <3>2. first[1] = txs[1]
      BY <1>10, <3>1
    <3> QED BY <1>8, <1>10, <2>2, <3>1, <3>2 DEF MadeBy
  <2> QED BY <2>1, <2>2
<1>14. Total(before.balances) \in Nat /\ Total(before.balances) <= MiningReward * id
  <2>1. CASE Parent(h) = NoHash
    BY <1>1, <1>6, <2>1, RewardAssumption DEF Rewards
  <2>2. CASE Parent(h) # NoHash
    <3>1. Total(before.balances) = MiningReward * Height(Parent(h))
      BY <1>6, <2>2 DEF Rewards
    <3>2. MiningReward * id = MiningReward * Height(Parent(h)) + MiningReward
      BY <1>1, <2>2, RewardAssumption
    <3>3. MiningReward * Height(Parent(h)) \in Nat
      BY <1>1, <2>2, RewardAssumption
    <3> QED BY <3>1, <3>2, <3>3, RewardAssumption
  <2> QED BY <2>1, <2>2
<1>15. Total(after.ledger.balances) < Precision /\ Total(after.ledger.balances) \in Int
  <2> DEFINE supply == MiningReward * id
             total == Total(before.balances)
             made == MadeBy(first, Len(first))
  <2>1. supply \in Nat /\ claim \in Nat
    BY <1>1, <1>6, RewardAssumption DEF claim
  <2> HIDE DEF supply, total, made
  <2>2. /\ total \in Nat /\ total <= supply /\ made \in {0, claim} /\ supply + claim < Precision
        /\ Total(after.ledger.balances) = total + made - after.fees /\ after.fees \in Nat
    BY <1>9, <1>12, <1>13, <1>14 DEF supply, total, made
  <2> QED BY <2>1, <2>2, PrecisionAssumption
<1>16. after.ledger.balances \in [Accounts -> Nat]
  BY <1>12 DEF CoinLedger
<1>17. after.ledger.balances[a] <= Total(after.ledger.balances)
  BY ONLY <1>16, a \in Accounts, AccountsFinite, TotalBounds
<1>18. after.ledger.balances[a] \in Nat
  BY <1>16
<1> QED BY <1>7, <1>15, <1>17, <1>18, PrecisionAssumption

LEMMA LedgerOfBlock == IInv => \A h \in Stored : LedgerAt(h) = states[h].ledger
BY NoHashAssumption DEF IInv, TypeOK, LedgerAt, StateAt

\* What a block that is not the genesis block did, as ContractChain names it.
LEMMA NonGenesisCoins ==
    ASSUME IInv, BodiesAreSeqs, NEW h \in NonGenesis
    PROVE  /\ h \in Stored /\ CoinLedger(After(h))
           /\ \A c \in Contracts :
                \/ Untouched(After(h), Before(h), c)
                \/ \E tx \in ToSet(blocks[h].transactions) : RanToItsEnd(tx, After(h), c)
<1>1. h \in Stored /\ Parent(h) \in Stored
  BY DEF NonGenesis, IInv, TreeIsSound
<1>2. LedgerAt(h) = After(h) /\ LedgerAt(Parent(h)) = Before(h)
  BY <1>1, LedgerOfBlock DEF After, Before
<1>3. CoinLedger(LedgerAt(h)) /\ CoinLedger(LedgerAt(Parent(h)))
  BY <1>1, CoinsEverywhere
<1>4. \A c \in Contracts :
          \/ Untouched(LedgerAt(h), LedgerAt(Parent(h)), c)
          \/ \E tx \in ToSet(blocks[h].transactions) : RanToItsEnd(tx, LedgerAt(h), c)
  BY <1>1, <1>3, BlockCoins
<1> QED BY <1>1, <1>2, <1>3, <1>4

----------------------------------------------------------------------------
(* The specification.                                                      *)

\* On every branch whose amounts fit the code's decimals, its coins are the
\* rewards of its blocks, and after none of its transactions is an account
\* overdrawn or a balance as large as what is rounded: for any programs, fees,
\* gas prices and authorizations.
THEOREM CoinsAreMined == Spec => []SupplyIsMined
<1>1. IInv /\ PoolInv => SupplyIsMined
  <2> SUFFICES ASSUME IInv, PoolInv, NEW h \in Stored, AmountsFit(h)
               PROVE  /\ Total(states[h].ledger.balances) = MiningReward * Height(h)
                      /\ \A n \in 0 .. Len(blocks[h].transactions) : \A a \in Accounts :
                            OnTheWay(h, n).balances[a] \in 0 .. Precision - 1
    BY DEF SupplyIsMined
  <2>1. Total(LedgerAt(h).balances) = MiningReward * Rewards(h)
    BY CoinsEverywhere DEF PoolInv, ListsAreSeqs
  <2>2. LedgerAt(h) = states[h].ledger /\ Rewards(h) = Height(h)
    BY LedgerOfBlock, NoHashAssumption DEF IInv, TypeOK, Rewards
  <2>3. MiningReward * Height(h) + Claim(blocks[h]) < Precision
    <3>1. /\ Len(ChainTo(blocks, h)) \in 1 .. Len(ChainTo(blocks, h))
          /\ ChainTo(blocks, h)[Len(ChainTo(blocks, h))] = h
          /\ DOMAIN ChainTo(blocks, h) = 1 .. Len(ChainTo(blocks, h))
      <4> DEFINE below == ChainTo(blocks, Parent(h))
                 chain == ChainTo(blocks, h)
      <4>1. below \in Seq(Stored) /\ chain = Append(below, h) /\ chain \in Seq(Stored)
        BY ChainGrows DEF IInv, TreeIsSound
      <4> HIDE DEF below, chain
      <4>2. Len(below) \in Nat /\ Len(chain) = Len(below) + 1 /\ chain[Len(below) + 1] = h
        BY <4>1
      <4> QED BY <4>1, <4>2 DEF chain
    <3>2. h \in ToSet(ChainTo(blocks, h))
      BY <3>1 DEF ToSet
    <3> QED BY <3>2 DEF AmountsFit
  <2>4. ASSUME NEW n \in 0 .. Len(blocks[h].transactions), NEW a \in Accounts
        PROVE  OnTheWay(h, n).balances[a] \in 0 .. Precision - 1
    BY <2>3, BlockFits DEF PoolInv, ListsAreSeqs
  <2> QED BY <2>1, <2>2, <2>4
<1> QED BY <1>1, IInvHolds, PoolInvHolds, PTL

\* What an execution paid is at most its escrow and the gas it named at the
\* price it named; and what a block leaves to a wallet that no contract reached
\* is what the parent's ledger had, less the fees and payments it made: of runs
\* that failed, value and unused escrow come back.
THEOREM EscrowsAreSettled == Spec => []EscrowIsSettled
<1>1. IInv /\ PoolInv => EscrowIsSettled
  <2> SUFFICES ASSUME IInv, PoolInv, NEW h \in NonGenesis
               PROVE  /\ \A tx \in DOMAIN After(h).receipts : IsSettled(tx, After(h).receipts[tx])
                      /\ \A w \in Wallets : OutOfReach(w, h) =>
                            After(h).balances[w] >= Before(h).balances[w] - CostsTo(w, h)
    BY DEF EscrowIsSettled, IsSettled
  <2> DEFINE txs == blocks[h].transactions
  <2>1. CoinLedger(After(h)) /\ BodiesAreSeqs
    BY NonGenesisCoins DEF PoolInv, ListsAreSeqs
  <2>2. \A tx \in DOMAIN After(h).receipts : IsSettled(tx, After(h).receipts[tx])
    BY <2>1 DEF CoinLedger
  <2>3. Spared(txs, After(h), Before(h), Len(txs))
    <3>1. h \in Stored /\ Parent(h) \in Stored
      BY DEF NonGenesis, IInv, TreeIsSound
    <3>2. LedgerAt(h) = After(h) /\ LedgerAt(Parent(h)) = Before(h)
      BY <3>1, LedgerOfBlock DEF After, Before
    <3>3. CoinLedger(LedgerAt(Parent(h)))
      BY <2>1, <3>1, CoinsEverywhere
    <3>4. Spared(txs, LedgerAt(h), LedgerAt(Parent(h)), Len(txs))
      BY <2>1, <3>1, <3>3, BlockCoins
    <3> QED BY <3>2, <3>4
  <2>4. /\ Len(txs) \in Nat /\ DOMAIN txs = 1 .. Len(txs)
    BY <2>1, SeqLength DEF BodiesAreSeqs, NonGenesis
  <2>5. ASSUME NEW w \in Wallets, OutOfReach(w, h)
        PROVE  After(h).balances[w] >= Before(h).balances[w] - CostsTo(w, h)
    <3>1. ~Authorizes(After(h), w)
      BY <2>5 DEF OutOfReach, Authorizes
    <3>2. ~\E i \in 1 .. Len(txs) : RanFor(txs[i], After(h), w)
      <4> SUFFICES ASSUME NEW i \in 1 .. Len(txs), RanFor(txs[i], After(h), w) PROVE FALSE
        OBVIOUS
      <4>1. txs[i] \in ToSet(txs)
        BY <2>4 DEF ToSet
      <4> QED BY <2>5, <4>1 DEF OutOfReach, RanFor
    <3>3. CostsUpTo(w, txs, After(h), Len(txs)) =
              [i \in DOMAIN txs |-> CostTo(w, txs[i], After(h))]
      <4>1. \A i \in 1 .. Len(txs) : i <= Len(txs)
        BY <2>4
      <4> HIDE DEF txs
      <4> QED BY <2>4, <4>1 DEF CostsUpTo
    <3>4. Total(CostsUpTo(w, txs, After(h), Len(txs))) = CostsTo(w, h)
      BY <3>3 DEF CostsTo
    <3> QED BY <2>3, <3>1, <3>2, <3>4 DEF Spared
  <2> QED BY <2>2, <2>5
<1> QED BY <1>1, IInvHolds, PoolInvHolds, PTL

\* A block takes coins of a contract, or writes to its storage, only with a
\* transaction that runs the contract and succeeds.
THEOREM RunsMutate == Spec => []OnlySuccessfulRunsMutate
<1>1. IInv /\ PoolInv => OnlySuccessfulRunsMutate
  <2> SUFFICES ASSUME IInv, PoolInv, NEW h \in NonGenesis, NEW c \in Contracts,
                      \/ After(h).storage[c] # Before(h).storage[c]
                      \/ After(h).balances[c] < Before(h).balances[c]
               PROVE  \E tx \in ToSet(blocks[h].transactions) :
                          /\ tx.kind = "execute" /\ tx.receiver = c
                          /\ After(h).receipts[tx].success
    BY DEF OnlySuccessfulRunsMutate
  <2>1. \/ Untouched(After(h), Before(h), c)
        \/ \E tx \in ToSet(blocks[h].transactions) : RanToItsEnd(tx, After(h), c)
    BY NonGenesisCoins DEF PoolInv, ListsAreSeqs
  <2>2. After(h).balances[c] \in Int /\ Before(h).balances[c] \in Int
    <3>1. h \in Stored /\ Parent(h) \in Stored /\ c \in Accounts
      BY AccountsAssumption DEF NonGenesis, IInv, TreeIsSound
    <3>2. CoinLedger(After(h)) /\ CoinLedger(Before(h))
      BY <3>1, CoinsEverywhere, LedgerOfBlock DEF PoolInv, ListsAreSeqs, After, Before
    <3> QED BY <3>1, <3>2 DEF CoinLedger
  <2> QED BY <2>1, <2>2 DEF Untouched, RanToItsEnd
<1> QED BY <1>1, IInvHolds, PoolInvHolds, PTL

----------------------------------------------------------------------------
(* What the transactions of one wallet do to those of another.             *)

\* The transactions that users and peers may send.
Stock == Transactions \cup UNION {ToSet(body) : body \in PeerBodies}
FromStock(tx) == tx \in Stock \/ IsReward(tx)

\* What makes the transactions of different wallets independent.  Without it
\* a reorganisation may well drop one that the tip would take: a wallet that
\* authorized a contract is debited by executions of others, an authorization
\* of one code is refused once another code is deployed at the address, and
\* code that is no program cannot be run any more once it is deployed.
SendersAreIndependent ==
    \A tx \in Stock :
        /\ tx.kind # "authorize"
        /\ tx.kind = "execute" => tx.receiver \in Contracts
        /\ tx.kind = "deploy" =>
              /\ tx.data.code \in DOMAIN ProgramOf
              /\ \A other \in Stock :
                    other.kind = "deploy" /\ other.receiver = tx.receiver
                        => other.sender = tx.sender

\* A ledger on which nothing is authorized.
StockLedger(l) == CoinLedger(l) /\ l.authorizations = << >>

\* The keys of a dictionary whose first part is a wallet.
SameKeysOf(w, new, old) ==
    \A request : <<w, request>> \in DOMAIN new <=> <<w, request>> \in DOMAIN old

\* What was deployed in between, other wallets deployed.
DeployedByOthers(w, new, old) ==
    \A c \in DOMAIN new \ DOMAIN old :
        \E d \in Stock : /\ d.kind = "deploy" /\ d.receiver = c /\ d.sender # w
                         /\ new[c].code = d.data.code

\* The ledger m takes from the wallet w what l takes.
NoWorseFor(w, m, l) ==
    /\ m.nonces[w] = l.nonces[w]
    /\ m.balances[w] >= l.balances[w]
    /\ Includes(m.commitments, l.commitments) /\ SameKeysOf(w, m.commitments, l.commitments)
    /\ Includes(m.reveals, l.reveals) /\ SameKeysOf(w, m.reveals, l.reveals)
    /\ Includes(m.contracts, l.contracts) /\ DeployedByOthers(w, m.contracts, l.contracts)

LEMMA NoWorseThanItself ==
    ASSUME NEW l, CoinLedger(l), NEW w \in Wallets
    PROVE  NoWorseFor(w, l, l)
<1>1. l.balances[w] \in Nat
  BY AccountsAssumption DEF CoinLedger
<1> QED BY <1>1 DEF NoWorseFor, Includes, SameKeysOf, DeployedByOthers

LEMMA NoWorseOn ==
    ASSUME NEW a, NEW b, NEW c, NEW w \in Wallets,
           CoinLedger(a), CoinLedger(b), CoinLedger(c),
           NoWorseFor(w, b, a), NoWorseFor(w, c, b)
    PROVE  NoWorseFor(w, c, a)
<1>1. a.balances[w] \in Nat /\ b.balances[w] \in Nat /\ c.balances[w] \in Nat
  BY AccountsAssumption DEF CoinLedger
<1>2. c.nonces[w] = a.nonces[w] /\ c.balances[w] >= a.balances[w]
  BY <1>1 DEF NoWorseFor
<1>3. /\ Includes(c.commitments, a.commitments) /\ Includes(c.reveals, a.reveals)
      /\ Includes(c.contracts, a.contracts)
  BY DEF NoWorseFor, Includes
<1>4. SameKeysOf(w, c.commitments, a.commitments) /\ SameKeysOf(w, c.reveals, a.reveals)
  BY DEF NoWorseFor, SameKeysOf
<1>5. ASSUME NEW x \in DOMAIN c.contracts \ DOMAIN a.contracts
      PROVE  \E d \in Stock : /\ d.kind = "deploy" /\ d.receiver = x /\ d.sender # w
                              /\ c.contracts[x].code = d.data.code
  <2>1. CASE x \in DOMAIN b.contracts
    <3>1. c.contracts[x] = b.contracts[x]
      BY <2>1 DEF NoWorseFor, Includes
    <3>2. x \in DOMAIN b.contracts \ DOMAIN a.contracts
      BY <2>1
    <3> QED BY <3>1, <3>2 DEF NoWorseFor, DeployedByOthers
  <2>2. CASE x \notin DOMAIN b.contracts
    BY <2>2 DEF NoWorseFor, DeployedByOthers
  <2> QED BY <2>1, <2>2
<1>6. DeployedByOthers(w, c.contracts, a.contracts)
  BY <1>5 DEF DeployedByOthers
<1> QED BY <1>2, <1>3, <1>4, <1>6 DEF NoWorseFor

\* What a wallet could do, it still can.
LEMMA StillApplies ==
    ASSUME SendersAreIndependent, NEW l, CoinLedger(l), NEW m, CoinLedger(m),
           NEW tx \in Stock, ~IsReward(tx), CanApply(tx, l), NoWorseFor(tx.sender, m, l)
    PROVE  CanApply(tx, m)
<1>1. /\ tx.authentic /\ tx.wellformed /\ tx.fee \in Nat /\ tx.amount \in Nat
      /\ tx.sender \in Wallets
      /\ HasNextNonce(tx, l) /\ CanPay(tx, l)
      /\ \/ TransferApplies(tx) \/ CommitApplies(tx, l) \/ RevealApplies(tx, l)
         \/ AuthorizeApplies(tx, l) \/ DeployApplies(tx, l) \/ ExecuteApplies(tx, l)
  BY DEF CanApply
<1>2. HasNextNonce(tx, m)
  BY <1>1 DEF HasNextNonce, NoWorseFor
<1>3. CanPay(tx, m)
  <2>1. l.balances[tx.sender] \in Nat /\ m.balances[tx.sender] \in Nat
    BY <1>1, AccountsAssumption DEF CoinLedger
  <2>2. m.balances[tx.sender] >= l.balances[tx.sender]
    BY DEF NoWorseFor
  <2> QED BY <1>1, <2>1, <2>2 DEF CanPay
<1>4. tx.kind # "authorize"
  BY DEF SendersAreIndependent
<1>5. ASSUME CommitApplies(tx, l) PROVE CommitApplies(tx, m)
  BY <1>5 DEF CommitApplies, NoWorseFor, SameKeysOf
<1>6. ASSUME RevealApplies(tx, l) PROVE RevealApplies(tx, m)
  BY <1>6 DEF RevealApplies, NoWorseFor, SameKeysOf, Includes
<1>7. ASSUME NEW d \in Stock, d.kind = "deploy", d.receiver = tx.receiver, d.sender # tx.sender
      PROVE  tx.kind # "deploy" /\ d.data.code \in DOMAIN ProgramOf
  BY <1>7 DEF SendersAreIndependent
<1>8. ASSUME tx.receiver \in DOMAIN m.contracts, tx.receiver \notin DOMAIN l.contracts
      PROVE  tx.kind # "deploy" /\ m.contracts[tx.receiver].code \in DOMAIN ProgramOf
  <2>1. PICK d \in Stock : /\ d.kind = "deploy" /\ d.receiver = tx.receiver
                           /\ d.sender # tx.sender
                           /\ m.contracts[tx.receiver].code = d.data.code
    BY <1>8 DEF NoWorseFor, DeployedByOthers
  <2> QED BY <1>7, <2>1
<1>9. ASSUME DeployApplies(tx, l) PROVE DeployApplies(tx, m)
  BY <1>8, <1>9 DEF DeployApplies, IsDeployed
<1>10. ASSUME ExecuteApplies(tx, l) PROVE ExecuteApplies(tx, m)
  <2>1. CASE tx.receiver \in DOMAIN l.contracts
    <3>1. /\ tx.receiver \in DOMAIN m.contracts
          /\ m.contracts[tx.receiver] = l.contracts[tx.receiver]
      BY <2>1 DEF NoWorseFor, Includes
    <3> QED BY <1>10, <2>1, <3>1 DEF ExecuteApplies, ExecutedCode, IsDeployed
  <2>2. CASE tx.receiver \notin DOMAIN l.contracts /\ tx.receiver \in DOMAIN m.contracts
    BY <1>8, <1>10, <2>2 DEF ExecuteApplies, ExecutedCode, IsDeployed
  <2>3. CASE tx.receiver \notin DOMAIN l.contracts /\ tx.receiver \notin DOMAIN m.contracts
    BY <1>10, <2>3 DEF ExecuteApplies, ExecutedCode, IsDeployed
  <2> QED BY <2>1, <2>2, <2>3
<1>11. \/ TransferApplies(tx) \/ CommitApplies(tx, m) \/ RevealApplies(tx, m)
       \/ DeployApplies(tx, m) \/ ExecuteApplies(tx, m)
  <2>1. ~AuthorizeApplies(tx, l)
    BY <1>4 DEF AuthorizeApplies
  <2> QED BY <1>1, <1>5, <1>6, <1>9, <1>10, <2>1
<1> QED BY <1>1, <1>2, <1>3, <1>11 DEF CanApply

\* What a transaction of the stock does to the records.
LEMMA RecordsOfOthers ==
    ASSUME NEW l, StockLedger(l), NEW tx, FromStock(tx), CanApply(tx, l),
           SendersAreIndependent, NEW w \in Wallets, IsReward(tx) \/ tx.sender # w,
           NEW height \in Nat, ~ExecuteApplies(tx, l)
    PROVE  LET m == ApplyTransaction(tx, l, height)
           IN  /\ m.balances[w] >= l.balances[w]
               /\ SameKeysOf(w, m.commitments, l.commitments)
               /\ SameKeysOf(w, m.reveals, l.reveals)
               /\ DeployedByOthers(w, m.contracts, l.contracts)
<1> DEFINE m == ApplyTransaction(tx, l, height)
           c == Charged(tx, l, tx.fee + tx.amount)
           key == <<tx.sender, tx.data.request>>
<1>1. /\ IsLedger(l) /\ l.balances \in [Accounts -> Nat] /\ l.authorizations = << >>
      /\ tx.fee \in Nat /\ tx.amount \in Nat /\ w \in Accounts
  BY AccountsAssumption DEF StockLedger, CoinLedger, CanApply
<1>2. CASE IsReward(tx)
  <2>1. m = [l EXCEPT !.balances[tx.receiver] = @ + tx.amount]
    BY <1>2 DEF ApplyTransaction, IsReward
  <2>2. /\ m.balances = [l.balances EXCEPT ![tx.receiver] = @ + tx.amount]
        /\ SameBut(m, l, {"balances"})
    BY <1>1, <2>1 DEF SameBut, IsLedger, LedgerFields
  <2> HIDE DEF m
  <2>3. m.balances[w] >= l.balances[w]
    BY <1>1, <2>2
  <2>4. /\ m.authorizations = << >> /\ m.commitments = l.commitments /\ m.reveals = l.reveals
        /\ m.contracts = l.contracts
    BY <1>1, <2>2 DEF SameBut, LedgerFields
  <2> QED BY <2>3, <2>4 DEF m, SameKeysOf, DeployedByOthers
<1>3. ASSUME ~IsReward(tx)
      PROVE  /\ tx \in Stock /\ tx.sender \in Wallets /\ tx.sender # w
             /\ c.balances \in [Accounts -> Int] /\ c.balances[w] = l.balances[w]
             /\ SameBut(c, l, {"nonces", "balances"})
             /\ c.authorizations = << >> /\ c.commitments = l.commitments
             /\ c.reveals = l.reveals /\ c.contracts = l.contracts
  <2>1. tx \in Stock /\ tx.sender \in Wallets /\ tx.sender # w
    BY <1>3 DEF FromStock, CanApply
  <2>2. SameBut(c, l, {"nonces", "balances"})
    <3>1. DOMAIN l = LedgerFields
      BY <1>1 DEF IsLedger
    <3> QED BY <3>1 DEF SameBut, Charged, LedgerFields
  <2>3. c.balances = [l.balances EXCEPT ![tx.sender] = @ - (tx.fee + tx.amount)]
    BY <1>1 DEF Charged, IsLedger, LedgerFields
  <2> HIDE DEF c
  <2>4. c.balances \in [Accounts -> Int] /\ c.balances[w] = l.balances[w]
    BY <1>1, <2>1, <2>3, AccountsAssumption
  <2>5. /\ c.authorizations = << >> /\ c.commitments = l.commitments
        /\ c.reveals = l.reveals /\ c.contracts = l.contracts
    BY <1>1, <2>2 DEF SameBut, LedgerFields
  <2> QED BY <2>1, <2>2, <2>4, <2>5
<1>4. CASE TransferApplies(tx)
  <2>1. tx.kind = "transfer" /\ ~IsReward(tx) /\ tx.receiver \in Accounts
    BY <1>4 DEF TransferApplies, IsReward
  <2>2. m = [c EXCEPT !.balances[tx.receiver] = @ + tx.amount]
    BY <2>1 DEF ApplyTransaction
  <2> HIDE DEF c
  <2>3. /\ m.balances = [c.balances EXCEPT ![tx.receiver] = @ + tx.amount]
        /\ SameBut(m, c, {"balances"})
    BY <1>3, <2>1, <2>2 DEF SameBut, LedgerFields
  <2> HIDE DEF m
  <2>4. m.balances[w] >= l.balances[w]
    BY <1>1, <1>3, <2>1, <2>3
  <2>5. /\ m.authorizations = << >> /\ m.commitments = l.commitments /\ m.reveals = l.reveals
        /\ m.contracts = l.contracts
    BY <1>3, <2>1, <2>3 DEF SameBut, LedgerFields
  <2> QED BY <2>4, <2>5 DEF m, SameKeysOf, DeployedByOthers
<1>5. CASE CommitApplies(tx, l)
  <2>1. tx.kind = "commit" /\ ~IsReward(tx)
    BY <1>5 DEF CommitApplies, IsReward
  <2>2. m = [c EXCEPT !.commitments = With(@, key, tx.data.hash)]
    BY <2>1 DEF ApplyTransaction
  <2> HIDE DEF c
  <2>3. /\ m.balances = c.balances /\ m.commitments = With(l.commitments, key, tx.data.hash)
        /\ m.authorizations = << >> /\ m.reveals = l.reveals /\ m.contracts = l.contracts
    BY <1>3, <2>1, <2>2 DEF SameBut, LedgerFields
  <2> HIDE DEF m
  <2>4. DOMAIN m.commitments = DOMAIN l.commitments \cup {key}
    BY <2>3 DEF With
  <2>5. \A request : <<w, request>> # key
    BY <1>3, <2>1
  <2>6. m.balances[w] >= l.balances[w]
    BY <1>1, <1>3, <2>1, <2>3
  <2> QED BY <2>3, <2>4, <2>5, <2>6 DEF m, SameKeysOf, DeployedByOthers
<1>6. CASE RevealApplies(tx, l)
  <2>1. tx.kind = "reveal" /\ ~IsReward(tx)
    BY <1>6 DEF RevealApplies, IsReward
  <2>2. m = [c EXCEPT !.reveals = With(@, key, tx.data.seed)]
    BY <2>1 DEF ApplyTransaction
  <2> HIDE DEF c
  <2>3. /\ m.balances = c.balances /\ m.reveals = With(l.reveals, key, tx.data.seed)
        /\ m.authorizations = << >> /\ m.commitments = l.commitments
        /\ m.contracts = l.contracts
    BY <1>3, <2>1, <2>2 DEF SameBut, LedgerFields
  <2> HIDE DEF m
  <2>4. DOMAIN m.reveals = DOMAIN l.reveals \cup {key}
    BY <2>3 DEF With
  <2>5. \A request : <<w, request>> # key
    BY <1>3, <2>1
  <2>6. m.balances[w] >= l.balances[w]
    BY <1>1, <1>3, <2>1, <2>3
  <2> QED BY <2>3, <2>4, <2>5, <2>6 DEF m, SameKeysOf, DeployedByOthers
<1>7. CASE DeployApplies(tx, l)
  <2> DEFINE entry == [code |-> tx.data.code, code_hash |-> tx.data.code_hash]
  <2>1. tx.kind = "deploy" /\ ~IsReward(tx)
    BY <1>7 DEF DeployApplies, IsReward
  <2>2. m = [c EXCEPT !.contracts = With(@, tx.receiver, entry)]
    BY <2>1 DEF ApplyTransaction
  <2>3. entry.code = tx.data.code
    OBVIOUS
  <2> HIDE DEF c, entry
  <2>4. /\ m.balances = c.balances /\ m.contracts = With(l.contracts, tx.receiver, entry)
        /\ m.authorizations = << >> /\ m.commitments = l.commitments
        /\ m.reveals = l.reveals
    BY <1>3, <2>1, <2>2 DEF SameBut, LedgerFields
  <2> HIDE DEF m
  <2>5. /\ DOMAIN m.contracts = DOMAIN l.contracts \cup {tx.receiver}
        /\ m.contracts[tx.receiver] = entry
    BY <2>4 DEF With
  <2>6. DeployedByOthers(w, m.contracts, l.contracts)
    BY <1>3, <2>1, <2>3, <2>5 DEF DeployedByOthers
  <2>7. m.balances[w] >= l.balances[w]
    BY <1>1, <1>3, <2>1, <2>4
  <2> QED BY <2>4, <2>6, <2>7 DEF m, SameKeysOf
<1>8. ~AuthorizeApplies(tx, l)
  <2>1. CASE IsReward(tx)
    BY <2>1 DEF IsReward, AuthorizeApplies
  <2>2. CASE tx \in Stock
    BY <2>2 DEF SendersAreIndependent, AuthorizeApplies
  <2> QED BY <2>1, <2>2 DEF FromStock
<1> QED BY <1>2, <1>4, <1>5, <1>6, <1>7, <1>8 DEF CanApply

\* An execution takes from its sender and the contract only.
LEMMA ExecutionsOfOthers ==
    ASSUME NEW l, StockLedger(l), NEW tx, FromStock(tx), CanApply(tx, l),
           SendersAreIndependent, NEW w \in Wallets, tx.sender # w,
           NEW height \in Nat, ExecuteApplies(tx, l)
    PROVE  LET m == ApplyTransaction(tx, l, height)
           IN  /\ m.balances[w] >= l.balances[w]
               /\ SameKeysOf(w, m.commitments, l.commitments)
               /\ SameKeysOf(w, m.reveals, l.reveals)
               /\ DeployedByOthers(w, m.contracts, l.contracts)
<1> DEFINE m == ApplyTransaction(tx, l, height)
           run == Execution(tx, l, height)
           s == Settled(tx, l, run)
           done == Completed(tx, s, run)
<1>1. CoinLedger(l) /\ l.authorizations = << >> /\ l.balances \in [Accounts -> Nat]
      /\ w \in Accounts
  BY AccountsAssumption DEF StockLedger, CoinLedger
<1>2. tx.kind = "execute" /\ ~IsReward(tx) /\ m = IF run.status = "succeeded" THEN done ELSE s
  BY DEF ExecuteApplies, IsReward, ApplyTransaction, AfterRun, KeepsRun
<1>3. w # tx.receiver
  BY <1>2, AccountsAssumption DEF FromStock, SendersAreIndependent
<1>4. ~Authorizes(l, w)
  BY <1>1 DEF Authorizes
<1>5. /\ \A a \in Accounts :
            s.balances[a] = l.balances[a] - (IF a = tx.sender THEN FeeOfRun(tx, run) ELSE 0)
      /\ SameBut(s, l, {"nonces", "balances", "receipts"})
  BY <1>1, SettledCoins
<1>6. /\ \A a \in Accounts \ {tx.sender, tx.receiver} :
            ~Authorizes(l, a) => done.balances[a] >= l.balances[a]
      /\ SameBut(done, s, {"balances", "storage"})
  BY <1>1, CompletedCoins
<1> HIDE DEF m, run, s, done
<1>7. m.balances[w] >= l.balances[w]
  BY <1>1, <1>2, <1>3, <1>4, <1>5, <1>6
<1>8. /\ m.authorizations = << >> /\ m.commitments = l.commitments /\ m.reveals = l.reveals
      /\ m.contracts = l.contracts
  BY <1>1, <1>2, <1>5, <1>6 DEF SameBut, LedgerFields
<1> QED BY <1>7, <1>8 DEF m, SameKeysOf, DeployedByOthers

\* What others do takes nothing from a wallet.
LEMMA OthersDoNoHarm ==
    ASSUME NEW l, StockLedger(l), NEW tx, FromStock(tx), CanApply(tx, l),
           SendersAreIndependent, NEW w \in Wallets, IsReward(tx) \/ tx.sender # w,
           NEW height \in Nat
    PROVE  NoWorseFor(w, ApplyTransaction(tx, l, height), l)
<1> DEFINE m == ApplyTransaction(tx, l, height)
<1>1. /\ m.balances[w] >= l.balances[w]
      /\ SameKeysOf(w, m.commitments, l.commitments)
      /\ SameKeysOf(w, m.reveals, l.reveals)
      /\ DeployedByOthers(w, m.contracts, l.contracts)
  <2>1. CASE ~ExecuteApplies(tx, l)
    BY <2>1, RecordsOfOthers
  <2>2. CASE ExecuteApplies(tx, l)
    <3>1. tx.sender # w
      BY <2>2 DEF ExecuteApplies, IsReward
    <3> QED BY <2>2, <3>1, ExecutionsOfOthers
  <2> QED BY <2>1, <2>2
<1>2. Follows(m, l) /\ m.nonces = NoncesAfter(tx, l) /\ l.nonces \in [Wallets -> Nat]
  BY ApplyFollows DEF StockLedger, CoinLedger, IsLedger
<1> HIDE DEF m
<1>3. m.nonces[w] = l.nonces[w]
  BY <1>2 DEF NoncesAfter
<1> QED BY <1>1, <1>2, <1>3 DEF NoWorseFor, Follows, m

\* Nothing is authorized by what is not an authorization.
LEMMA StockLedgerStays ==
    ASSUME NEW l, StockLedger(l), NEW tx, FromStock(tx), CanApply(tx, l),
           SendersAreIndependent, NEW height \in Nat
    PROVE  StockLedger(ApplyTransaction(tx, l, height))
<1> DEFINE m == ApplyTransaction(tx, l, height)
<1>1. CoinLedger(m)
  BY ApplyCoins DEF StockLedger, CoinsAfter
<1>2. m.authorizations = << >>
  <2>1. CASE tx.kind \in {"reward", "transfer", "commit", "reveal", "deploy"}
    <3>1. DOMAIN l = LedgerFields /\ l.authorizations = << >>
      BY DEF StockLedger, CoinLedger, IsLedger
    <3>2. DOMAIN Charged(tx, l, tx.fee + tx.amount) = LedgerFields
          /\ Charged(tx, l, tx.fee + tx.amount).authorizations = << >>
      BY <3>1 DEF Charged, LedgerFields
    <3> HIDE DEF m
    <3>3. \A c, x : DOMAIN c = LedgerFields /\ c.authorizations = << >> =>
              /\ [c EXCEPT !.balances[tx.receiver] = x].authorizations = << >>
              /\ [c EXCEPT !.commitments = x].authorizations = << >>
              /\ [c EXCEPT !.reveals = x].authorizations = << >>
              /\ [c EXCEPT !.contracts = x].authorizations = << >>
      BY DEF LedgerFields
    <3> QED BY <2>1, <3>1, <3>2, <3>3 DEF m, ApplyTransaction
  <2>2. CASE tx.kind = "execute"
    <3> DEFINE run == Execution(tx, l, height)
               s == Settled(tx, l, run)
               done == Completed(tx, s, run)
    <3>1. CoinLedger(l) /\ l.authorizations = << >> /\ ExecuteApplies(tx, l)
          /\ m = IF run.status = "succeeded" THEN done ELSE s
      BY <2>2 DEF StockLedger, ApplyTransaction, AfterRun, KeepsRun, CanApply, IsReward,
                  ExecuteApplies, TransferApplies, CommitApplies, RevealApplies,
                  AuthorizeApplies, DeployApplies
    <3>2. /\ SameBut(s, l, {"nonces", "balances", "receipts"})
          /\ SameBut(done, s, {"balances", "storage"})
      BY <3>1, SettledCoins, CompletedCoins
    <3> HIDE DEF m, run, s, done
    <3> QED BY <3>1, <3>2 DEF SameBut, LedgerFields
  <2>3. tx.kind # "authorize"
    BY DEF FromStock, SendersAreIndependent, IsReward
  <2>4. tx.kind \in {"reward", "transfer", "commit", "reveal", "authorize", "deploy", "execute"}
    BY DEF CanApply, IsReward, ExecuteApplies, TransferApplies, CommitApplies, RevealApplies,
           AuthorizeApplies, DeployApplies
  <2> QED BY <2>1, <2>2, <2>3, <2>4
<1> QED BY <1>1, <1>2 DEF StockLedger

\* Of the transactions that could each be applied, one of every sender is kept.
LEMMA KeepsOneOfTheSender ==
    ASSUME SendersAreIndependent, NEW txs, IsSeq(txs), NEW l, StockLedger(l), NEW height \in Nat,
           \A n \in 1 .. Len(txs) : FromStock(txs[n]),
           NEW i \in 1 .. Len(txs), ~IsReward(txs[i]), CanApply(txs[i], l)
    PROVE  \E other \in ToSet(KeepApplicable(txs, l, height, Len(txs)).kept) :
                other.sender = txs[i].sender
<1> DEFINE last == Len(txs)
           w == txs[i].sender
<1>1. last \in Nat /\ DOMAIN txs = 1 .. last /\ i \in 1 .. last /\ w \in Wallets
  BY SeqLength DEF CanApply
<1>2. PICK f : /\ f = [n \in 0 .. last |-> NextKept(txs, l, height, last, f, n)]
               /\ KeepApplicable(txs, l, height, last) = f[last]
  <2>1. ASSUME NEW lim
        PROVE  \E f : /\ f = [n \in 0 .. Len(txs) |-> NextKept(txs, l, height, lim, f, n)]
                      /\ KeepApplicable(txs, l, height, lim) = f[Len(txs)]
    BY <1>1, KeepApplicableSolves
  <2> QED BY <2>1, Zenon
<1>3. \A n \in 0 .. last : f[n] = NextKept(txs, l, height, last, f, n)
  BY <1>2
<1>4. /\ \A n \in 1 .. last : FromStock(txs[n])
      /\ ~IsReward(txs[i]) /\ CanApply(txs[i], l) /\ txs[i] \in Stock /\ last = Len(txs)
  BY DEF FromStock
<1> HIDE DEF last
<1> DEFINE HasOne(r) == \E k \in 1 .. Len(r.kept) : r.kept[k].sender = w
           Good(r, n) ==
             /\ DOMAIN r = {"kept", "rest", "ledger"}
             /\ IsSeq(r.kept) /\ Len(r.kept) <= n
             /\ HasOne(r) \/ (n < i /\ StockLedger(r.ledger) /\ NoWorseFor(w, r.ledger, l))
           Held == {n \in 0 .. last : Good(f[n], n)}
<1>5. 0 \in Held
  <2>0. f[0] = NextKept(txs, l, height, last, f, 0)
    BY <1>1, <1>3
  <2>1. f[0] = [kept |-> << >>, rest |-> << >>, ledger |-> l]
    BY <2>0 DEF NextKept
  <2>2. NoWorseFor(w, l, l)
    BY <1>1, NoWorseThanItself DEF StockLedger
  <2>3. 0 < i
    BY <1>1
  <2> HIDE DEF w
  <2>4. Good(f[0], 0)
    BY <2>1, <2>2, <2>3, EmptyIsSeq, EmptyToSet
  <2> HIDE DEF Good
  <2> QED BY <1>1, <2>4
<1>6. ASSUME NEW n \in 0 .. last, n # last, n \in Held
      PROVE  n + 1 \in Held
  <2> DEFINE k == n + 1
             p == f[n]
             tx == txs[k]
             s == Append(p.kept, tx)
             next == ApplyTransaction(tx, p.ledger, height)
  <2>1. /\ k \in 0 .. last /\ k \in 1 .. last /\ k # 0 /\ k - 1 = n
        /\ n \in Nat /\ n < last /\ i \in Nat
    BY <1>1, <1>6
  <2>2. f[k] = IF Len(p.kept) < last /\ CanApply(tx, p.ledger)
               THEN [p EXCEPT !.kept = s, !.ledger = next]
               ELSE [p EXCEPT !.rest = Append(@, tx)]
    BY <1>3, <2>1 DEF NextKept
  <2>3. Good(p, n)
    BY <1>6
  <2>4. FromStock(tx)
    BY <1>4, <2>1
  <2>5. /\ IsSeq(p.kept) /\ Len(p.kept) <= n /\ Len(p.kept) \in Nat
        /\ DOMAIN p = {"kept", "rest", "ledger"}
    BY <2>3, SeqLength
  <2>6. /\ IsSeq(s) /\ Len(s) = Len(p.kept) + 1
        /\ \A j \in 1 .. Len(p.kept) : s[j] = p.kept[j]
        /\ s[Len(p.kept) + 1] = tx
    BY <2>5, AppendIsSeq
  <2> HIDE DEF w, p, tx, s, next
  <2>7. CASE Len(p.kept) < last /\ CanApply(tx, p.ledger)
    <3>1. f[k].kept = s /\ f[k].ledger = next /\ DOMAIN f[k] = {"kept", "rest", "ledger"}
      BY <2>2, <2>5, <2>7
    <3>2. Len(f[k].kept) <= k
      BY <2>1, <2>5, <2>6, <3>1
    <3>3. ASSUME tx.sender = w \/ HasOne(p)
          PROVE  HasOne(f[k])
      <4>1. CASE tx.sender = w
        <5>1. Len(p.kept) + 1 \in 1 .. Len(s)
          BY <2>5, <2>6
        <5> QED BY <2>6, <3>1, <4>1, <5>1
      <4>2. CASE HasOne(p)
        <5>1. PICK j \in 1 .. Len(p.kept) : p.kept[j].sender = w
          BY <4>2
        <5>2. j \in 1 .. Len(s) /\ s[j].sender = w
          BY <2>5, <2>6, <5>1
        <5> QED BY <3>1, <5>2
      <4> QED BY <3>3, <4>1, <4>2
    <3>4. ASSUME tx.sender # w, n < i, StockLedger(p.ledger), NoWorseFor(w, p.ledger, l)
          PROVE  k < i /\ StockLedger(next) /\ NoWorseFor(w, next, l)
      <4>1. StockLedger(next)
        BY <2>4, <2>7, <3>4, StockLedgerStays DEF next
      <4>2. NoWorseFor(w, next, p.ledger)
        BY <1>1, <2>4, <2>7, <3>4, OthersDoNoHarm DEF next
      <4>3. CoinLedger(l) /\ CoinLedger(p.ledger) /\ CoinLedger(next)
        BY <3>4, <4>1 DEF StockLedger
      <4>4. NoWorseFor(w, next, l)
        BY <1>1, <3>4, <4>2, <4>3, NoWorseOn
      <4>5. k # i
        BY <3>4 DEF tx, w
      <4> QED BY <2>1, <3>4, <4>1, <4>4, <4>5
    <3>5. Good(f[k], k)
      <4> HIDE DEF HasOne
      <4> QED BY <2>3, <2>6, <3>1, <3>2, <3>3, <3>4
    <3> HIDE DEF Good
    <3> QED BY <2>1, <3>5
  <2>8. CASE ~(Len(p.kept) < last /\ CanApply(tx, p.ledger))
    <3>1. f[k].kept = p.kept /\ f[k].ledger = p.ledger /\ DOMAIN f[k] = {"kept", "rest", "ledger"}
      BY <2>2, <2>5, <2>8
    <3>2. Len(f[k].kept) <= k
      BY <2>1, <2>5, <3>1
    <3>3. ~CanApply(tx, p.ledger)
      BY <1>1, <2>1, <2>5, <2>8
    <3>4. ASSUME n < i, StockLedger(p.ledger), NoWorseFor(w, p.ledger, l)
          PROVE  k < i
      <4>1. ASSUME k = i PROVE FALSE
        <5>1. tx = txs[i] /\ tx.sender = w
          BY <4>1 DEF tx, w
        <5>2. CoinLedger(l) /\ CoinLedger(p.ledger)
          BY <3>4 DEF StockLedger
        <5>3. CanApply(tx, p.ledger)
          BY <1>4, <3>4, <5>1, <5>2, StillApplies
        <5> QED BY <3>3, <5>3
      <4> QED BY <2>1, <3>4, <4>1
    <3>5. HasOne(p) => HasOne(f[k])
      BY <3>1
    <3>6. Good(f[k], k)
      <4> HIDE DEF HasOne
      <4> QED BY <2>3, <2>5, <3>1, <3>2, <3>4, <3>5
    <3> HIDE DEF Good
    <3> QED BY <2>1, <3>6
  <2> QED BY <2>7, <2>8
<1>7. Good(f[last], last)
  <2> HIDE DEF Held
  <2>1. 0 .. last \subseteq Held
    BY <1>1, <1>5, <1>6, HoldsUpTo
  <2>2. last \in Held
    BY <1>1, <2>1
  <2> HIDE DEF Good
  <2> QED BY <2>2 DEF Held
<1>8. HasOne(f[last]) /\ IsSeq(f[last].kept)
  BY <1>1, <1>7
<1> DEFINE kept == KeepApplicable(txs, l, height, last).kept
<1>9. IsSeq(kept) /\ \E k \in 1 .. Len(kept) : kept[k].sender = w
  BY <1>2, <1>8
<1> HIDE DEF kept
<1>10. \E other \in ToSet(kept) : other.sender = w
  BY <1>9, SeqLength DEF ToSet
<1> QED BY <1>4, <1>10 DEF kept

----------------------------------------------------------------------------
(* Two branches and what reconciliation brings back.                       *)

\* What is not taken out of a list stays in it.
LEMMA WithoutKeepsOthers ==
    ASSUME NEW txs, IsSeq(txs), NEW known
    PROVE  ToSet(txs) \ known \subseteq ToSet(Without(txs, known))
<1> DEFINE last == Len(txs)
<1>1. last \in Nat /\ DOMAIN txs = 1 .. last
  BY SeqLength
<1>2. PICK f : /\ f = [n \in 0 .. last |-> NextWithout(txs, known, f, n)]
               /\ Without(txs, known) = f[last]
  BY <1>1, WithoutSolves
<1>3. \A n \in 0 .. last : f[n] = NextWithout(txs, known, f, n)
  BY <1>2
<1> HIDE DEF last
<1> DEFINE Kept(s, n) == IsSeq(s) /\ \A i \in 1 .. n : txs[i] \in known \cup ToSet(s)
           Held == {n \in 0 .. last : Kept(f[n], n)}
<1>4. 0 \in Held
  <2>1. f[0] = << >>
    BY <1>1, <1>3 DEF NextWithout
  <2> QED BY <1>1, <2>1, EmptyIsSeq
<1>5. ASSUME NEW n \in 0 .. last, n # last, n \in Held
      PROVE  n + 1 \in Held
  <2> DEFINE k == n + 1
             p == f[n]
             tx == txs[k]
  <2>1. k \in 0 .. last /\ k # 0 /\ k - 1 = n /\ \A i \in 1 .. k : i \in 1 .. n \/ i = k
    BY <1>1, <1>5
  <2>2. f[k] = IF tx \in known THEN p ELSE Append(p, tx)
    BY <1>3, <2>1 DEF NextWithout
  <2>3. Kept(p, n)
    BY <1>5
  <2>4. IsSeq(Append(p, tx)) /\ ToSet(Append(p, tx)) = ToSet(p) \cup {tx}
    BY <2>3, AppendIsSeq, ToSetAppend
  <2> HIDE DEF p
  <2>5. Kept(f[k], k)
    <3>1. CASE tx \in known
      BY <2>1, <2>2, <2>3, <3>1
    <3>2. CASE tx \notin known
      <4>1. f[k] = Append(p, tx)
        BY <2>2, <3>2
      <4> QED BY <2>1, <2>3, <2>4, <4>1
    <3> QED BY <3>1, <3>2
  <2> HIDE DEF Kept
  <2> QED BY <2>1, <2>5
<1>6. Kept(f[last], last)
  <2> HIDE DEF Held
  <2>1. 0 .. last \subseteq Held
    BY <1>1, <1>4, <1>5, HoldsUpTo
  <2>2. last \in Held
    BY <1>1, <2>1
  <2> HIDE DEF Kept
  <2> QED BY <2>2 DEF Held
<1> QED BY <1>1, <1>2, <1>6 DEF ToSet

\* Two chains are the same up to their common ancestor.
LEMMA BelowTheAncestor ==
    ASSUME NEW tree, NEW height, IsTree(tree, height),
           NEW g \in DOMAIN tree \cup {NoHash}, NEW s \in DOMAIN tree \cup {NoHash},
           NEW i \in 1 .. Len(ChainTo(tree, CommonAncestor(tree, g, s)))
    PROVE  /\ i \in 1 .. Len(ChainTo(tree, s))
           /\ ChainTo(tree, g)[i] = ChainTo(tree, s)[i]
<1> DEFINE stop == CommonAncestor(tree, g, s)
           chain == ChainTo(tree, g)
           other == ChainTo(tree, s)
           common == {j \in DOMAIN chain \cap DOMAIN other : chain[j] = other[j]}
           top == Max(common)
<1>1. /\ Len(chain) \in Nat /\ DOMAIN chain = 1 .. Len(chain)
      /\ Len(other) \in Nat /\ DOMAIN other = 1 .. Len(other)
      /\ \A j \in DOMAIN chain : chain[j] \in DOMAIN tree
  <2>1. chain \in Seq(DOMAIN tree) /\ other \in Seq(DOMAIN tree)
    BY ChainsGrow
  <2> HIDE DEF chain, other
  <2> QED BY <2>1
<1>2. stop = IF common = {} THEN NoHash ELSE chain[top]
  BY DEF CommonAncestor
<1>3. common # {}
  <2>1. ASSUME stop = NoHash PROVE FALSE
    <3>1. ChainTo(tree, stop) = << >>
      BY <2>1, ChainsGrow
    <3>2. Len(ChainTo(tree, stop)) = 0
      BY <3>1
    <3>3. i \in 1 .. 0
      BY <3>2
    <3> QED BY <3>3
  <2> QED BY <1>2, <2>1
<1>4. common \in SUBSET (1 .. Len(chain))
  BY <1>1
<1>5. /\ \A j \in 1 .. Len(chain) :
            /\ height[chain[j]] = j - 1
            /\ tree[chain[j]].previous_hash = IF j = 1 THEN NoHash ELSE chain[j - 1]
      /\ \A j \in 1 .. Len(other) :
            tree[other[j]].previous_hash = IF j = 1 THEN NoHash ELSE other[j - 1]
  <2>1. g # NoHash /\ s # NoHash
    <3>1. ASSUME g = NoHash \/ s = NoHash PROVE FALSE
      <4>1. chain = << >> \/ other = << >>
        BY <3>1, ChainsGrow
      <4>2. DOMAIN chain = {} \/ DOMAIN other = {}
        BY <4>1
      <4> HIDE DEF chain, other
      <4> QED BY <1>3, <4>2
    <3> QED BY <3>1
  <2>2. IsChain(tree, height, chain, g) /\ IsChain(tree, height, other, s)
    BY <2>1, ChainShape
  <2> HIDE DEF chain, other
  <2> QED BY <2>2 DEF IsChain
<1> HIDE DEF chain, other
<1>6. top \in common
  <2> HIDE DEF common
  <2> QED BY <1>1, <1>3, <1>4, GreatestOf
<1>7. top \in 1 .. Len(chain) /\ top \in 1 .. Len(other) /\ chain[top] = other[top]
  BY <1>1, <1>6
<1> HIDE DEF common, top
<1>8. Len(ChainTo(tree, stop)) = top
  <2>1. stop = chain[top] /\ stop \in DOMAIN tree
    BY <1>1, <1>2, <1>3, <1>7
  <2>2. IsChain(tree, height, ChainTo(tree, stop), stop)
    BY <2>1, ChainShape
  <2>3. Len(ChainTo(tree, stop)) = height[stop] + 1
    BY <2>2 DEF IsChain
  <2> QED BY <1>1, <1>5, <1>7, <2>1, <2>3
<1>9. i \in 1 .. top
  BY <1>8
<1> HIDE DEF stop
<1> DEFINE down == top - 1
           Held == {n \in 0 .. down : chain[top - n] = other[top - n]}
<1>10. down \in Nat /\ top - 0 = top
  BY <1>1, <1>7
<1>11. 0 \in Held
  BY <1>7, <1>10
<1>12. ASSUME NEW n \in 0 .. down, n # down, n \in Held
       PROVE  n + 1 \in Held
  <2> DEFINE j == top - n
  <2>1. /\ n + 1 \in 0 .. down /\ j - 1 = top - (n + 1)
        /\ j # 1 /\ j \in 1 .. Len(chain) /\ j \in 1 .. Len(other)
    BY <1>1, <1>7, <1>12
  <2>2. chain[j] = other[j]
    BY <1>12
  <2> HIDE DEF j
  <2>3. chain[j - 1] = other[j - 1]
    BY <1>5, <2>1, <2>2
  <2> QED BY <2>1, <2>3
<1>13. chain[i] = other[i]
  <2>1. 0 .. down \subseteq Held
    <3> HIDE DEF Held, down
    <3> QED BY <1>10, <1>11, <1>12, HoldsUpTo
  <2>2. top - i \in 0 .. down /\ top - (top - i) = i
    BY <1>1, <1>7, <1>9
  <2> HIDE DEF down
  <2> QED BY <2>1, <2>2
<1>14. i \in 1 .. Len(other)
  BY <1>1, <1>7, <1>9
<1> QED BY <1>13, <1>14 DEF chain, other

\* What a branch that is left has and the new one has not returns.
LEMMA LeftReturns ==
    ASSUME NEW tree, NEW height, IsTree(tree, height),
           \A h \in DOMAIN tree : IsSeq(tree[h].transactions),
           NEW g \in DOMAIN tree \cup {NoHash}, NEW s \in DOMAIN tree \cup {NoHash}
    PROVE  ToSet(BranchTransactions(tree, g, NoHash)) \ ToSet(BranchTransactions(tree, s, NoHash))
               \subseteq ToSet(BranchTransactions(tree, g, CommonAncestor(tree, g, s)))
<1> DEFINE stop == CommonAncestor(tree, g, s)
           chain == ChainTo(tree, g)
           other == ChainTo(tree, s)
           from == Len(ChainTo(tree, stop))
<1>1. stop \in DOMAIN tree \cup {NoHash}
  BY AncestorIsStored
<1>2. /\ Len(chain) \in Nat /\ Len(other) \in Nat /\ DOMAIN other = 1 .. Len(other)
      /\ from \in Nat
  <2>1. chain \in Seq(DOMAIN tree) /\ other \in Seq(DOMAIN tree)
        /\ ChainTo(tree, stop) \in Seq(DOMAIN tree)
    BY <1>1, ChainsGrow
  <2> HIDE DEF chain, other, stop
  <2> QED BY <2>1
<1>3. ToSet(BranchTransactions(tree, g, stop)) = BodiesFrom(tree, chain, from + 1)
  BY <1>1, BranchElements
<1>4. ToSet(BranchTransactions(tree, g, NoHash)) = BodiesFrom(tree, chain, 1)
  <2>1. Len(ChainTo(tree, NoHash)) + 1 = 1
    <3>1. ChainTo(tree, NoHash) = << >>
      BY ChainsGrow
    <3> QED BY <3>1
  <2> QED BY <2>1, BranchElements
<1>5. ToSet(BranchTransactions(tree, s, NoHash))
          = UNION {ToSet(tree[h].transactions) : h \in ToSet(other)}
  BY BranchOfChain
<1>6. \A i \in 1 .. from : i \in 1 .. Len(other) /\ chain[i] = other[i]
  BY BelowTheAncestor
<1> HIDE DEF chain, other, from, stop
<1>7. ASSUME NEW tx \in BodiesFrom(tree, chain, 1),
             tx \notin ToSet(BranchTransactions(tree, s, NoHash))
      PROVE  tx \in BodiesFrom(tree, chain, from + 1)
  <2>1. PICK i \in 1 .. Len(chain) : tx \in ToSet(tree[chain[i]].transactions)
    BY DEF BodiesFrom
  <2>2. i \notin 1 .. from
    <3>1. ASSUME i \in 1 .. from PROVE FALSE
      <4>1. chain[i] \in ToSet(other)
        BY <1>2, <1>6, <3>1 DEF ToSet
      <4> QED BY <1>5, <1>7, <2>1, <4>1
    <3> QED BY <3>1
  <2>3. i \in from + 1 .. Len(chain)
    BY <1>2, <2>2
  <2> QED BY <2>1, <2>3 DEF BodiesFrom
<1> QED BY <1>3, <1>4, <1>7 DEF stop

\* A payment that could be made on the new tip leaves one of its sender's.
LEMMA ReconciledKeepsPayment ==
    ASSUME SendersAreIndependent, NEW tree, NEW height, IsTree(tree, height),
           \A h \in DOMAIN tree : IsSeq(tree[h].transactions),
           \A h \in DOMAIN tree : \A tx \in ToSet(tree[h].transactions) : FromStock(tx),
           NEW previous \in DOMAIN tree \cup {NoHash}, NEW head \in DOMAIN tree \cup {NoHash},
           NEW canonical, StockLedger(canonical.ledger), canonical.height + 1 \in Nat,
           NEW txs, IsSeq(txs), \A tx \in ToSet(txs) : FromStock(tx),
           NEW tx \in ToSet(txs) \cup ToSet(BranchTransactions(tree, previous, NoHash)),
           ~IsReward(tx), tx \notin ToSet(BranchTransactions(tree, head, NoHash)),
           CanApply(tx, canonical.ledger)
    PROVE  \E other \in ToSet(Reconciled(tree, canonical, previous, head, txs)) :
              other.sender = tx.sender
<1> DEFINE ancestor   == CommonAncestor(tree, previous, head)
           current    == ToSet(BranchTransactions(tree, head, ancestor))
           returned   == BranchTransactions(tree, previous, ancestor)
           rewards    == {t \in ToSet(returned) : IsReward(t)}
           all        == returned \o txs
           known      == current \cup rewards
           candidates == Without(all, known)
           l          == canonical.ledger
           up         == canonical.height + 1
           r          == KeepApplicable(candidates, l, up, Len(candidates))
<1>1. Reconciled(tree, canonical, previous, head, txs) = r.kept
  BY DEF Reconciled
<1>2. ancestor \in DOMAIN tree \cup {NoHash}
  BY AncestorIsStored
<1>3. tx \in ToSet(txs) \/ tx \in ToSet(returned)
  BY LeftReturns
<1> HIDE DEF ancestor
<1>4. /\ IsSeq(returned)
      /\ ToSet(returned) \subseteq ToSet(BranchTransactions(tree, previous, NoHash))
      /\ current \subseteq ToSet(BranchTransactions(tree, head, NoHash))
  BY <1>2, BranchElements, BranchOfChain
<1>5. \A t \in ToSet(returned) : FromStock(t)
  <2>1. ToSet(BranchTransactions(tree, previous, NoHash))
            = UNION {ToSet(tree[h].transactions) : h \in ToSet(ChainTo(tree, previous))}
    BY BranchOfChain
  <2>2. ToSet(ChainTo(tree, previous)) \subseteq DOMAIN tree
    BY AncestorsOfAncestors
  <2> QED BY <1>4, <2>1, <2>2
<1>6. tx \notin known
  <2>1. tx \notin current
    BY <1>4
  <2> QED BY <2>1
<1> HIDE DEF current, returned, known
<1>7. IsSeq(all) /\ ToSet(all) = ToSet(returned) \cup ToSet(txs)
  BY <1>4, JoinIsSeq, JoinSize
<1> HIDE DEF all
<1>8. /\ IsSeq(candidates)
      /\ ToSet(candidates) \subseteq ToSet(all)
      /\ ToSet(all) \ known \subseteq ToSet(candidates)
  BY <1>7, WithoutIsSeq, WithoutKeeps, WithoutKeepsOthers
<1> HIDE DEF candidates
<1>9. DOMAIN candidates = 1 .. Len(candidates)
  BY <1>8, SeqLength
<1>10. PICK i \in 1 .. Len(candidates) : candidates[i] = tx
  <2>1. tx \in ToSet(candidates)
    BY <1>3, <1>6, <1>7, <1>8
  <2> QED BY <1>9, <2>1 DEF ToSet
<1>11. \A n \in 1 .. Len(candidates) : FromStock(candidates[n])
  <2>1. \A n \in 1 .. Len(candidates) : candidates[n] \in ToSet(candidates)
    BY <1>9 DEF ToSet
  <2> QED BY <1>5, <1>7, <1>8, <2>1
<1>12. StockLedger(l) /\ up \in Nat /\ CanApply(candidates[i], l) /\ ~IsReward(candidates[i])
  BY <1>10
<1> HIDE DEF l, up
<1>13. \E other \in ToSet(r.kept) : other.sender = candidates[i].sender
  BY <1>8, <1>11, <1>12, KeepsOneOfTheSender
<1> HIDE DEF r
<1> QED BY <1>1, <1>10, <1>13

----------------------------------------------------------------------------
(* What the node holds comes from the stock.                               *)

AllFromStock(txs) == \A tx \in ToSet(txs) : FromStock(tx)

StockInv ==
    /\ \A h \in Stored : AllFromStock(blocks[h].transactions)
    /\ AllFromStock(pending)
    /\ candidate # NoBlock => AllFromStock(candidate.transactions)

LEMMA ApplyInOrderStock ==
    ASSUME NEW txs, Len(txs) \in Nat, \A i \in 1 .. Len(txs) : FromStock(txs[i]),
           NEW l, StockLedger(l), SendersAreIndependent, NEW height \in Nat,
           ApplyInOrder(txs, l, height).ok
    PROVE  StockLedger(ApplyInOrder(txs, l, height).ledger)
<1> DEFINE last == Len(txs)
<1>1. PICK f : /\ f = [n \in 0 .. last |-> NextApplied(txs, l, height, f, n)]
               /\ ApplyInOrder(txs, l, height) = f[last]
  BY ApplyInOrderSolves
<1>2. \A n \in 0 .. last : f[n] = NextApplied(txs, l, height, f, n)
  BY <1>1
<1>3. last \in Nat /\ \A i \in 1 .. last : FromStock(txs[i])
  OBVIOUS
<1> HIDE DEF last
<1> DEFINE Good(r) == /\ DOMAIN r = {"ok", "ledger", "fees"} /\ r.ok \in BOOLEAN
                      /\ r.ok => StockLedger(r.ledger)
           Held == {n \in 0 .. last : Good(f[n])}
<1>4. 0 \in Held
  <2>1. f[0] = NextApplied(txs, l, height, f, 0)
    BY <1>2, <1>3
  <2>2. f[0] = [ok |-> TRUE, ledger |-> l, fees |-> 0]
    BY <2>1 DEF NextApplied
  <2>3. Good(f[0])
    BY <2>2
  <2> HIDE DEF Good
  <2> QED BY <1>3, <2>3
<1>5. ASSUME NEW n \in 0 .. last, n # last, n \in Held
      PROVE  n + 1 \in Held
  <2> DEFINE k == n + 1
             p == f[n]
             tx == txs[k]
             next == ApplyTransaction(tx, p.ledger, height)
  <2>1. k \in 0 .. last /\ k \in 1 .. last /\ k # 0 /\ k - 1 = n
    BY <1>3, <1>5
  <2>2. f[k] = IF p.ok /\ CanApply(tx, p.ledger)
               THEN [ ok |-> TRUE, ledger |-> next,
                      fees |-> p.fees + FeePaid(tx, p.ledger, height) ]
               ELSE [p EXCEPT !.ok = FALSE]
    BY <1>2, <2>1 DEF NextApplied
  <2>3. Good(p) /\ FromStock(tx)
    BY <1>3, <1>5, <2>1
  <2> HIDE DEF p, tx
  <2>4. CASE p.ok /\ CanApply(tx, p.ledger)
    <3>1. StockLedger(next)
      BY <2>3, <2>4, StockLedgerStays
    <3> HIDE DEF next
    <3>2. Good(f[k])
      BY <2>2, <2>4, <3>1
    <3> HIDE DEF Good
    <3> QED BY <2>1, <3>2
  <2>5. CASE ~(p.ok /\ CanApply(tx, p.ledger))
    <3>1. f[k] = [p EXCEPT !.ok = FALSE]
      BY <2>2, <2>5
    <3>2. Good(f[k])
      BY <2>3, <3>1
    <3> HIDE DEF Good
    <3> QED BY <2>1, <3>2
  <2> QED BY <2>4, <2>5
<1>6. Good(f[last])
  <2> HIDE DEF Held
  <2>1. 0 .. last \subseteq Held
    BY <1>3, <1>4, <1>5, HoldsUpTo
  <2>2. last \in Held
    BY <1>3, <2>1
  <2> HIDE DEF Good
  <2> QED BY <2>2 DEF Held
<1> QED BY <1>1, <1>6

\* Nothing is authorized after any block.
LEMMA StockLedgers ==
    ASSUME IInv, BodiesAreSeqs, SendersAreIndependent,
           \A h \in Stored : AllFromStock(blocks[h].transactions),
           NEW g \in Stored \cup {NoHash}
    PROVE  StockLedger(LedgerAt(g))
<1> DEFINE Bad == {h \in Stored : ~StockLedger(LedgerAt(h))}
<1>1. StockLedger(LedgerAt(NoHash))
  <2>1. LedgerAt(NoHash) = EmptyLedger /\ EmptyLedger.authorizations = << >>
    BY DEF LedgerAt, StateAt, FreshState, EmptyLedger
  <2> QED BY <2>1, EmptyIsCoinLedger DEF StockLedger
<1>2. Bad = {}
  <2>1. SUFFICES ASSUME Bad # {} PROVE FALSE
    OBVIOUS
  <2>2. PICK h \in Bad : Parent(h) \in (Stored \ Bad) \cup {NoHash}
    <3>1. Bad \in SUBSET Stored
      OBVIOUS
    <3> HIDE DEF Bad
    <3> QED BY <2>1, <3>1, LowestBlock
  <2> DEFINE txs == blocks[h].transactions
             before == LedgerAt(Parent(h))
             id == blocks[h].block_id
  <2>3. h \in Stored /\ StockLedger(before) /\ ~StockLedger(LedgerAt(h))
    BY <1>1, <2>2
  <2>4. id \in Nat /\ h # NoHash
    BY <2>3, NoHashAssumption DEF IInv, TypeOK, TreeIsSound
  <2>5. IsValidChild(blocks[h], before) /\ states[h] = ChildState(blocks[h], before)
    BY <2>3 DEF IInv, Replayed, LedgerAt
  <2>6. /\ ApplyInOrder(txs, before, id).ok
        /\ LedgerAt(h) = ApplyInOrder(txs, before, id).ledger
    BY <2>4, <2>5 DEF IsValidChild, ClaimsItsFees, AppliedBlock, ChildState, StateAt, LedgerAt
  <2>7. Len(txs) \in Nat /\ \A i \in 1 .. Len(txs) : FromStock(txs[i])
    <3>1. Len(txs) \in Nat /\ DOMAIN txs = 1 .. Len(txs)
      BY <2>3, SeqLength DEF BodiesAreSeqs
    <3>2. \A tx \in ToSet(txs) : FromStock(tx)
      BY <2>3 DEF AllFromStock
    <3> QED BY <3>1, <3>2 DEF ToSet
  <2> HIDE DEF txs, before, id
  <2>8. StockLedger(LedgerAt(h))
    BY <2>3, <2>4, <2>6, <2>7, ApplyInOrderStock
  <2> QED BY <2>3, <2>8
<1> QED BY <1>1, <1>2

TreeOfBlocks == IsTree(blocks, HeightOf)

LEMMA BlocksStayTree == IInv => TreeOfBlocks
BY BlocksAreTree DEF TreeOfBlocks

\* Nothing is authorized after the tip.
TipOfStock == StockLedger(LedgerAt(mainTip)) /\ StateAt(mainTip).height + 1 \in Nat

LEMMA TipStaysOfStock ==
    ASSUME SendersAreIndependent
    PROVE  IInv /\ PoolInv /\ StockInv => TipOfStock
<1> SUFFICES ASSUME IInv, PoolInv, StockInv PROVE TipOfStock
  OBVIOUS
<1>1. mainTip \in Stored \cup {NoHash}
  BY DEF IInv, TipIsSound, MainTipIsHighest
<1>2. StateAt(mainTip).height + 1 \in Nat
  BY <1>1, NoHashAssumption DEF StateAt, FreshState, IInv, TypeOK, Height
<1> QED BY <1>1, <1>2, StockLedgers DEF PoolInv, ListsAreSeqs, StockInv, TipOfStock

LEMMA InitStock == Init => StockInv
BY EmptyToSet DEF Init, StockInv, AllFromStock, Stored

\* The branch and the pool a step leaves hold nothing else.
LEMMA ReconciledFromStock ==
    ASSUME NEW tree, NEW height, IsTree(tree, height),
           \A h \in DOMAIN tree : IsSeq(tree[h].transactions) /\ AllFromStock(tree[h].transactions),
           NEW previous \in DOMAIN tree \cup {NoHash}, NEW head \in DOMAIN tree \cup {NoHash},
           NEW canonical, NEW txs, IsSeq(txs), AllFromStock(txs)
    PROVE  AllFromStock(Reconciled(tree, canonical, previous, head, txs))
<1>1. ToSet(Reconciled(tree, canonical, previous, head, txs))
          \subseteq ToSet(txs) \cup ToSet(BranchTransactions(tree, previous, NoHash))
  BY ReconciledComesFrom
<1>2. /\ ToSet(BranchTransactions(tree, previous, NoHash))
            = UNION {ToSet(tree[h].transactions) : h \in ToSet(ChainTo(tree, previous))}
      /\ ToSet(ChainTo(tree, previous)) \subseteq DOMAIN tree
  BY BranchOfChain, AncestorsOfAncestors
<1> QED BY <1>1, <1>2 DEF AllFromStock

LEMMA AddBlockStock ==
    ASSUME IInv, PoolInv, StockInv, NEW hash \in Hashes, NEW block, AddBlock(hash, block),
           IsSeq(block.transactions), AllFromStock(block.transactions)
    PROVE  AllFromStock(pending') /\ \A h \in Stored' : AllFromStock(blocks'[h].transactions)
<1>1. IInv' /\ BodiesAreSeqs'
  BY AddBlockIInv, AddBlockPool DEF PoolInv
<1>2. /\ Stored' = Stored \cup {hash} /\ Stored' = DOMAIN blocks'
      /\ blocks'[hash] = block
      /\ \A h \in Stored : blocks'[h] = blocks[h]
  <2>1. blocks' = With(blocks, hash, block) /\ hash \notin DOMAIN blocks
    BY DEF AddBlock, Accepts, Stored
  <2> QED BY <2>1 DEF With, Stored
<1>3. \A h \in Stored' : AllFromStock(blocks'[h].transactions)
  BY <1>2 DEF StockInv
<1>4. /\ mainTip \in DOMAIN blocks' \cup {NoHash} /\ mainTip' \in DOMAIN blocks' \cup {NoHash}
      /\ IsTree(blocks', HeightOf')
      /\ \A h \in DOMAIN blocks' : IsSeq(blocks'[h].transactions)
  <2>1. mainTip \in Stored \cup {NoHash}
    BY DEF IInv, TipIsSound, MainTipIsHighest
  <2>2. mainTip' \in Stored' \cup {NoHash}
    BY <1>1 DEF IInv, TipIsSound, MainTipIsHighest
  <2>3. IsTree(blocks', HeightOf')
    <3>1. TreeOfBlocks'
      BY <1>1, BlocksStayTree, PTL
    <3> QED BY <3>1 DEF TreeOfBlocks
  <2> QED BY <1>1, <1>2, <2>1, <2>2, <2>3 DEF BodiesAreSeqs
<1>5. /\ pending' = Reconciled(blocks', StateAt(mainTip)', mainTip, mainTip', pending)
      /\ IsSeq(pending) /\ AllFromStock(pending)
  BY DEF AddBlock, ReconcilePending, PoolInv, ListsAreSeqs, StockInv
<1>6. AllFromStock(pending')
  BY <1>2, <1>3, <1>4, <1>5, ReconciledFromStock
<1> QED BY <1>3, <1>6

LEMMA NextStock ==
    ASSUME IInv, PoolInv, StockInv, [Next]_vars
    PROVE  StockInv'
<1>1. ASSUME UNCHANGED <<blocks, pending>>
      PROVE  AllFromStock(pending') /\ \A h \in Stored' : AllFromStock(blocks'[h].transactions)
  BY <1>1 DEF StockInv, Stored
<1>2. ASSUME NEW hash \in Hashes, ReceiveBlock(hash)
      PROVE  StockInv'
  <2>1. PICK parent \in Stored \cup {NoHash}, body \in PeerBodies \cup {<< >>},
             id \in 0 .. MaxHeight :
            \E work \in {-1, RequiredBits(id)} :
                AddBlock(hash, [ block_id |-> id, previous_hash |-> parent,
                                 transactions |-> body, work |-> work ])
    BY <1>2 DEF ReceiveBlock
  <2>2. PICK work \in {-1, RequiredBits(id)} :
            AddBlock(hash, [ block_id |-> id, previous_hash |-> parent,
                             transactions |-> body, work |-> work ])
    BY <2>1
  <2> DEFINE block == [ block_id |-> id, previous_hash |-> parent,
                        transactions |-> body, work |-> work ]
  <2>3. IsSeq(body) /\ AllFromStock(body)
    BY BodiesAssumption, EmptyIsSeq, EmptyToSet DEF IsSeq, AllFromStock, FromStock, Stock
  <2>4. block.transactions = body /\ AddBlock(hash, block)
    BY <2>2
  <2> HIDE DEF block
  <2>5. AllFromStock(pending') /\ \A h \in Stored' : AllFromStock(blocks'[h].transactions)
    BY <2>3, <2>4, AddBlockStock
  <2> QED BY <1>2, <2>5 DEF ReceiveBlock, StockInv
<1>3. ASSUME NEW tx \in Transactions, AddTransaction(tx)
      PROVE  StockInv'
  <2>1. /\ IsSeq(pending) /\ pending' = Append(pending, tx)
        /\ UNCHANGED <<blocks, candidate>>
    BY <1>3 DEF AddTransaction, PoolInv, ListsAreSeqs
  <2>2. AllFromStock(pending')
    BY <2>1, ToSetAppend DEF AllFromStock, StockInv, FromStock, Stock
  <2> QED BY <2>1, <2>2 DEF StockInv, Stored
<1>4. ASSUME NEW miner \in Miners, StartMining(miner)
      PROVE  StockInv'
  <2>1. UNCHANGED <<blocks, pending>> /\ candidate' = MinedBlock(miner, mainTip)
    BY <1>4 DEF StartMining, chainVars
  <2> DEFINE state == StateAt(mainTip)
             selected == SelectedTransactions(pending, state)
             fees == CollectedFees(selected, state)
             reward == RewardTransaction(miner, fees)
  <2>2. IsSeq(selected) /\ ToSet(selected) \subseteq ToSet(pending)
    <3>1. IsSeq(pending) /\ HaveFees(pending)
      BY AppliedHaveFees DEF PoolInv, ListsAreSeqs, PoolApplies, PendingOn, PoolOn
    <3> QED BY <3>1, SelectedParts
  <2>3. candidate'.transactions = <<reward>> \o selected
    BY <2>1 DEF MinedBlock, BlockOf
  <2>4. IsReward(reward)
    BY DEF RewardTransaction, IsReward
  <2> HIDE DEF selected, reward
  <2>5. IsSeq(<<reward>>) /\ ToSet(<<reward>>) = {reward}
    <3>1. <<reward>> \in Seq({reward}) /\ DOMAIN <<reward>> = 1 .. 1 /\ <<reward>>[1] = reward
      OBVIOUS
    <3> DEFINE one == <<reward>>
    <3>2. one \in Seq({reward}) /\ DOMAIN one = {1} /\ one[1] = reward
      BY <3>1
    <3> HIDE DEF one
    <3>3. IsSeq(one) /\ ToSet(one) = {reward}
      BY <3>2 DEF IsSeq, ToSet
    <3> QED BY <3>3 DEF one
  <2>6. ToSet(<<reward>> \o selected) = {reward} \cup ToSet(selected)
    BY <2>2, <2>5, JoinSize
  <2>7. AllFromStock(candidate'.transactions)
    BY <2>2, <2>3, <2>4, <2>6 DEF AllFromStock, FromStock, StockInv
  <2> QED BY <1>1, <2>1, <2>7 DEF StockInv
<1>5. ASSUME NEW hash \in Hashes, FinishMining(hash)
      PROVE  StockInv'
  <2>1. /\ AddBlock(hash, candidate) /\ IsSeq(candidate.transactions)
        /\ AllFromStock(candidate.transactions) /\ candidate' = NoBlock
    BY <1>5 DEF FinishMining, PoolInv, ListsAreSeqs, StockInv
  <2>2. AllFromStock(pending') /\ \A h \in Stored' : AllFromStock(blocks'[h].transactions)
    BY <2>1, AddBlockStock
  <2> QED BY <2>1, <2>2 DEF StockInv
<1>6. CASE AbandonMining
  BY <1>1, <1>6 DEF AbandonMining, chainVars, StockInv
<1>7. CASE VerifyChain
  <2>1. UNCHANGED <<blocks, states, mainTip, candidate>> /\ ReconcilePending
    BY <1>7, RecomputedIsStates, BestTipIsMainTip DEF VerifyChain
  <2>2. /\ pending' = Reconciled(blocks, StateAt(mainTip)', mainTip, mainTip, pending)
        /\ IsSeq(pending) /\ AllFromStock(pending)
    BY <2>1 DEF ReconcilePending, PoolInv, ListsAreSeqs, StockInv
  <2>3. mainTip \in DOMAIN blocks \cup {NoHash} /\ IsTree(blocks, HeightOf)
    BY BlocksAreTree DEF IInv, TipIsSound, MainTipIsHighest, Stored
  <2>4. \A h \in DOMAIN blocks :
            IsSeq(blocks[h].transactions) /\ AllFromStock(blocks[h].transactions)
    BY DEF PoolInv, ListsAreSeqs, BodiesAreSeqs, StockInv, Stored
  <2>5. AllFromStock(pending')
    BY <2>2, <2>3, <2>4, ReconciledFromStock
  <2> QED BY <2>1, <2>5 DEF StockInv, Stored
<1>8. CASE UNCHANGED vars
  BY <1>1, <1>8 DEF vars, StockInv
<1> QED BY <1>2, <1>3, <1>4, <1>5, <1>6, <1>7, <1>8 DEF Next

\* What a step does to the payments of the chain and the pool.
LEMMA StepKeepsPayments ==
    ASSUME IInv, PoolInv, StockInv, IInv', PoolInv', StockInv', SendersAreIndependent, [Next]_vars,
           NEW tx \in ToSet(BranchTransactions(blocks, mainTip, NoHash) \o pending),
           ~IsReward(tx), tx \notin ToSet(BranchTransactions(blocks', mainTip', NoHash)),
           CanApply(tx, (StateAt(mainTip).ledger)')
    PROVE  \E other \in ToSet(pending') : other.sender = tx.sender
<1> DEFINE branch == BranchTransactions(blocks, mainTip, NoHash)
           after == StateAt(mainTip)'
<1>1. /\ IsTree(blocks, HeightOf) /\ IsTree(blocks', HeightOf')
      /\ mainTip \in DOMAIN blocks \cup {NoHash} /\ mainTip' \in DOMAIN blocks' \cup {NoHash}
  <2>1. IsTree(blocks', HeightOf')
    <3>1. TreeOfBlocks'
      BY BlocksStayTree, PTL
    <3> QED BY <3>1 DEF TreeOfBlocks
  <2> QED BY <2>1, BlocksAreTree DEF IInv, TipIsSound, MainTipIsHighest, Stored
<1>2. /\ IsSeq(pending) /\ \A h \in DOMAIN blocks : IsSeq(blocks[h].transactions)
      /\ \A h \in DOMAIN blocks' : IsSeq(blocks'[h].transactions)
  BY DEF PoolInv, ListsAreSeqs, BodiesAreSeqs, Stored
<1>3. tx \in ToSet(branch) \/ tx \in ToSet(pending)
  <2>1. IsSeq(branch)
    BY <1>1, <1>2, BranchElements
  <2>2. tx \in ToSet(branch \o pending)
    OBVIOUS
  <2> HIDE DEF branch
  <2> QED BY <1>2, <2>1, <2>2, JoinSize
<1>4. \A h \in DOMAIN blocks : h \in DOMAIN blocks' /\ blocks'[h] = blocks[h]
  BY HistoryStays DEF Stored
<1>5. ToSet(branch) = ToSet(BranchTransactions(blocks', mainTip, NoHash))
  <2>1. ChainTo(blocks', mainTip) = ChainTo(blocks, mainTip)
    BY <1>1, <1>4, ChainsStay
  <2>2. /\ ToSet(branch)
              = UNION {ToSet(blocks[h].transactions) : h \in ToSet(ChainTo(blocks, mainTip))}
        /\ ToSet(BranchTransactions(blocks', mainTip, NoHash))
              = UNION {ToSet(blocks'[h].transactions) : h \in ToSet(ChainTo(blocks', mainTip))}
    BY <1>1, <1>2, <1>4, BranchOfChain
  <2>3. ToSet(ChainTo(blocks, mainTip)) \subseteq DOMAIN blocks
    BY <1>1, AncestorsOfAncestors
  <2> QED BY <1>4, <2>1, <2>2, <2>3
<1>6. StockLedger(after.ledger) /\ after.height + 1 \in Nat
  <2>1. TipOfStock'
    BY TipStaysOfStock, PTL
  <2> QED BY <2>1 DEF TipOfStock, LedgerAt
<1>7. /\ \A h \in DOMAIN blocks' : \A t \in ToSet(blocks'[h].transactions) : FromStock(t)
      /\ \A t \in ToSet(pending) : FromStock(t)
  BY DEF StockInv, AllFromStock, Stored
<1>8. CanApply(tx, after.ledger)
  OBVIOUS
<1> HIDE DEF branch, after
<1>9. ASSUME pending' = Reconciled(blocks', after, mainTip, mainTip', pending)
      PROVE  \E other \in ToSet(pending') : other.sender = tx.sender
  <2>1. mainTip \in DOMAIN blocks' \cup {NoHash}
    BY <1>1, <1>4
  <2>2. tx \in ToSet(pending) \cup ToSet(BranchTransactions(blocks', mainTip, NoHash))
    BY <1>3, <1>5
  <2> DEFINE tree == blocks'
             heights == HeightOf'
             head == mainTip'
             kept == Reconciled(tree, after, mainTip, head, pending)
  <2>3. /\ IsTree(tree, heights) /\ head \in DOMAIN tree \cup {NoHash}
        /\ mainTip \in DOMAIN tree \cup {NoHash}
        /\ \A h \in DOMAIN tree : IsSeq(tree[h].transactions)
        /\ \A h \in DOMAIN tree : \A t \in ToSet(tree[h].transactions) : FromStock(t)
        /\ tx \in ToSet(pending) \cup ToSet(BranchTransactions(tree, mainTip, NoHash))
        /\ tx \notin ToSet(BranchTransactions(tree, head, NoHash))
    BY <1>1, <1>2, <1>7, <2>1, <2>2
  <2>4. pending' = kept
    BY <1>9
  <2> HIDE DEF tree, heights, head
  <2>5. \E other \in ToSet(kept) : other.sender = tx.sender
    BY <1>2, <1>6, <1>7, <1>8, <2>3, ReconciledKeepsPayment
  <2> QED BY <2>4, <2>5
<1>10. ASSUME UNCHANGED mainTip, ToSet(pending) \subseteq ToSet(pending')
       PROVE  \E other \in ToSet(pending') : other.sender = tx.sender
  BY <1>3, <1>5, <1>10
<1>11. ASSUME NEW hash \in Hashes, NEW block, AddBlock(hash, block)
       PROVE  \E other \in ToSet(pending') : other.sender = tx.sender
  BY <1>9, <1>11 DEF AddBlock, ReconcilePending, after
<1>12. ASSUME NEW t \in Transactions, AddTransaction(t)
       PROVE  \E other \in ToSet(pending') : other.sender = tx.sender
  <2>1. pending' = Append(pending, t) /\ UNCHANGED mainTip
    BY <1>12 DEF AddTransaction
  <2> QED BY <1>2, <1>10, <2>1, ToSetAppend
<1>13. CASE VerifyChain
  BY <1>9, <1>13 DEF VerifyChain, ReconcilePending, after
<1>14. CASE UNCHANGED <<mainTip, pending>>
  BY <1>10, <1>14
<1> QED BY <1>11, <1>12, <1>13, <1>14
     DEF Next, ReceiveBlock, FinishMining, StartMining, AbandonMining, chainVars, vars

LEMMA StockInvHolds == Spec => []StockInv
<1>1. IInv /\ PoolInv /\ StockInv /\ [Next]_vars => StockInv'
  BY NextStock
<1> QED BY <1>1, InitStock, IInvHolds, PoolInvHolds, PTL DEF Spec

\* A reorganisation does not lose payments, whatever the branches, the fees
\* and the nonces: as long as no wallet lets another debit it (authorize), what
\* runs is a contract's, and an address is deployed to by one wallet.
THEOREM ReorganisationsKeepPayments ==
    ASSUME SendersAreIndependent
    PROVE  Spec => ReorgKeepsTransactions
<1> DEFINE PaymentsStay ==
        \A tx \in ToSet(BranchTransactions(blocks, mainTip, NoHash) \o pending) :
            (/\ ~IsReward(tx)
             /\ tx \notin ToSet(BranchTransactions(blocks', mainTip', NoHash))
             /\ CanApply(tx, (StateAt(mainTip).ledger)'))
            => \E other \in ToSet(pending') : other.sender = tx.sender
<1>1. IInv /\ PoolInv /\ StockInv /\ IInv' /\ PoolInv' /\ StockInv'
      /\ [Next]_vars => [PaymentsStay]_vars
  BY StepKeepsPayments
<1> QED BY <1>1, IInvHolds, PoolInvHolds, StockInvHolds, PTL DEF Spec, ReorgKeepsTransactions

----------------------------------------------------------------------------
(* The required work is a number.                                          *)

Thresholds == Nat \ {0}
NextReached(height, f, t) == IF height >= t THEN 1 + f[t * DifficultyGrowthFactor] ELSE 0

LEMMA ThresholdsGrow ==
    ASSUME NEW t \in Thresholds
    PROVE  t * DifficultyGrowthFactor \in Thresholds /\ t * DifficultyGrowthFactor > t
<1> DEFINE F == DifficultyGrowthFactor
<1>1. F \in Nat /\ F >= 2 /\ t \in Nat /\ t >= 1
  BY DifficultyAssumption DEF Thresholds
<1> HIDE DEF F
<1>2. t * F >= t * 2
  BY <1>1, Z3
<1>3. t * F \in Int
  BY <1>1
<1> DEFINE p == t * F
<1>4. p \in Int /\ p >= t + t
  BY <1>1, <1>2, <1>3
<1> HIDE DEF p
<1>5. p \in Nat /\ p # 0 /\ p > t
  BY <1>1, <1>4
<1> QED BY <1>5 DEF p, F, Thresholds

LEMMA GrowthStepsType ==
    ASSUME NEW height \in Nat
    PROVE  GrowthSteps(height) \in Nat
<1> DEFINE Above(m) == {t \in Thresholds : t + m > height}
           Solves(m, f) == f = [t \in Above(m) |-> NextReached(height, f, t)]
           Unsolved == {m \in Nat : ~\E f : Solves(m, f)}
           Mul(t) == t * DifficultyGrowthFactor
<1>1. \A t \in Thresholds : Mul(t) \in Thresholds /\ Mul(t) > t /\ t \in Nat /\ t >= 1
  BY ThresholdsGrow DEF Thresholds
<1>2. \A f, t : NextReached(height, f, t) = IF height >= t THEN 1 + f[Mul(t)] ELSE 0
  BY DEF NextReached
<1> HIDE DEF Mul
<1>3. ASSUME NEW m \in Nat, NEW t \in Above(m + 1)
      PROVE  Mul(t) \in Above(m) /\ Mul(t) \in Above(m + 1)
  <2>1. Mul(t) \in Nat /\ t \in Nat /\ Mul(t) > t /\ t + (m + 1) > height
    BY <1>1, <1>3 DEF Thresholds
  <2>2. Mul(t) + m > height /\ Mul(t) + (m + 1) > height
    BY <2>1
  <2> QED BY <1>1, <2>2
<1>4. \A t \in Above(0) : ~(height >= t)
  BY <1>1
<1>5. Unsolved = {}
  <2>1. SUFFICES ASSUME Unsolved # {} PROVE FALSE
    OBVIOUS
  <2>2. PICK m \in Unsolved : \A k \in Unsolved : m <= k
    <3>1. Unsolved \in SUBSET Nat
      OBVIOUS
    <3> HIDE DEF Unsolved
    <3> QED BY <2>1, <3>1, LeastNatural
  <2>3. m # 0
    <3> DEFINE f0 == [t \in Above(0) |-> 0]
    <3>1. \A t \in Above(0) : NextReached(height, f0, t) = 0
      BY <1>2, <1>4
    <3> HIDE DEF Above
    <3>2. Solves(0, f0)
      BY <3>1
    <3> QED BY <3>2
  <2>4. m - 1 \in Nat /\ (m - 1) + 1 = m /\ ~(m <= m - 1)
    BY <2>3
  <2>5. PICK g : Solves(m - 1, g)
    <3>1. m - 1 \notin Unsolved
      BY <2>2, <2>4
    <3> QED BY <2>4, <3>1
  <2> DEFINE f == [t \in Above(m) |-> NextReached(height, g, t)]
  <2>6. \A t \in Above(m - 1) : t \in Above(m)
    BY <1>1, <2>4
  <2>7. \A t \in Above(m) : Mul(t) \in Above(m - 1) /\ Mul(t) \in Above(m)
    <3> HIDE DEF Above
    <3>1. \A t \in Above((m - 1) + 1) : Mul(t) \in Above(m - 1) /\ Mul(t) \in Above((m - 1) + 1)
      BY <1>3, <2>4
    <3> QED BY <2>4, <3>1
  <2> HIDE DEF Above
  <2>8. \A t \in Above(m - 1) : g[t] = NextReached(height, g, t)
    BY <2>5
  <2>9. \A t \in Above(m - 1) : f[t] = g[t]
    BY <2>6, <2>8
  <2>10. \A t \in Above(m) : NextReached(height, f, t) = NextReached(height, g, t)
    <3> HIDE DEF f
    <3> QED BY <1>2, <2>7, <2>9
  <2>11. Solves(m, f)
    BY <2>10
  <2> HIDE DEF f
  <2> QED BY <2>11
<1> DEFINE c == CHOOSE f : f = [t \in Thresholds |-> NextReached(height, f, t)]
<1>6. c = [t \in Thresholds |-> NextReached(height, c, t)]
  <2>1. Above(height) = Thresholds
    BY <1>1
  <2> HIDE DEF Above
  <2>2. PICK f : Solves(height, f)
    BY <1>5
  <2> QED BY <2>1, <2>2
<1>7. GrowthSteps(height) = c[DifficultyGrowthStartHeight]
  BY DEF GrowthSteps, Thresholds, NextReached
<1> HIDE DEF c
<1>8. \A t \in Thresholds : c[t] = IF height >= t THEN 1 + c[Mul(t)] ELSE 0
  BY <1>2, <1>6
<1> DEFINE Odd == {m \in Nat : \E t \in Above(m) : c[t] \notin Nat}
<1>9. Odd = {}
  <2>1. SUFFICES ASSUME Odd # {} PROVE FALSE
    OBVIOUS
  <2>2. PICK m \in Odd : \A k \in Odd : m <= k
    <3>1. Odd \in SUBSET Nat
      OBVIOUS
    <3> HIDE DEF Odd
    <3> QED BY <2>1, <3>1, LeastNatural
  <2>3. PICK t \in Above(m) : c[t] \notin Nat
    OBVIOUS
  <2>4. t \in Thresholds /\ m \in Nat
    OBVIOUS
  <2>5. height >= t /\ c[Mul(t)] \notin Nat
    BY <1>8, <2>3, <2>4
  <2>6. m # 0
    <3>1. m = 0 => t \in Above(0)
      BY <2>3
    <3> QED BY <1>4, <2>5, <3>1
  <2>7. m - 1 \in Nat /\ (m - 1) + 1 = m /\ ~(m <= m - 1)
    BY <2>4, <2>6
  <2>8. Mul(t) \in Above(m - 1)
    <3> DEFINE p == m - 1
    <3>1. p \in Nat /\ t \in Above(p + 1)
      BY <2>3, <2>7
    <3> HIDE DEF p, Above
    <3>2. Mul(t) \in Above(p)
      BY <1>3, <3>1
    <3> QED BY <3>2 DEF p
  <2>9. m - 1 \in Odd
    BY <2>5, <2>7, <2>8
  <2> HIDE DEF Odd
  <2> QED BY <2>2, <2>7, <2>9
<1>10. DifficultyGrowthStartHeight \in Above(height)
  BY DifficultyAssumption DEF Thresholds
<1> HIDE DEF Above
<1>11. c[DifficultyGrowthStartHeight] \in Nat
  BY <1>9, <1>10
<1> QED BY <1>7, <1>11

LEMMA RequiredBitsType ==
    ASSUME NEW height \in Nat
    PROVE  RequiredBits(height) \in Nat
<1> DEFINE steps == GrowthSteps(height)
<1>1. steps \in Nat
  BY GrowthStepsType
<1> HIDE DEF steps
<1>2. steps * DifficultyGrowthBits \in Nat
  BY <1>1, DifficultyAssumption
<1>3. RequiredBits(height) \in {GenesisDifficultyBits, DifficultyBits,
                                DifficultyBits + steps * DifficultyGrowthBits}
  BY DEF RequiredBits, steps
<1> DEFINE more == steps * DifficultyGrowthBits
<1> HIDE DEF more
<1>4. DifficultyBits + more \in Nat
  BY <1>2, DifficultyAssumption DEF more
<1> QED BY <1>3, <1>4, DifficultyAssumption DEF more

----------------------------------------------------------------------------
(* The same transactions on a ledger with more coins.                      *)

\* No transaction runs a program.
NothingIsExecuted == \A tx \in Stock : tx.kind # "execute"

IsQuiet(tx) == ~IsReward(tx) /\ tx.kind # "execute"

\* The ledger m is l, but for coins that only m has.
Richer(m, l) ==
    /\ CoinLedger(l) /\ CoinLedger(m)
    /\ SameBut(m, l, {"balances"})
    /\ \A a \in Accounts : m.balances[a] >= l.balances[a]

LEMMA RicherApplies ==
    ASSUME NEW l, NEW m, Richer(m, l), NEW tx, IsQuiet(tx), CanApply(tx, l), NEW height \in Nat
    PROVE  /\ CanApply(tx, m)
           /\ Richer(ApplyTransaction(tx, m, height), ApplyTransaction(tx, l, height))
           /\ FeePaid(tx, m, height) = tx.fee /\ FeePaid(tx, l, height) = tx.fee
<1>1. /\ tx.authentic /\ tx.wellformed /\ tx.fee \in Nat /\ tx.amount \in Nat
      /\ tx.sender \in Wallets /\ tx.sender \in Accounts
      /\ HasNextNonce(tx, l) /\ CanPay(tx, l)
      /\ \/ TransferApplies(tx) \/ CommitApplies(tx, l) \/ RevealApplies(tx, l)
         \/ AuthorizeApplies(tx, l) \/ DeployApplies(tx, l)
  BY AccountsAssumption DEF CanApply, IsQuiet, ExecuteApplies
<1>2. /\ m.nonces = l.nonces /\ m.commitments = l.commitments /\ m.reveals = l.reveals
      /\ m.contracts = l.contracts /\ m.authorizations = l.authorizations
      /\ DOMAIN m = LedgerFields /\ DOMAIN l = LedgerFields
      /\ m.balances \in [Accounts -> Nat] /\ l.balances \in [Accounts -> Nat]
      /\ \A a \in Accounts : m.balances[a] >= l.balances[a]
  BY DEF Richer, SameBut, LedgerFields, CoinLedger, IsLedger
<1>3. CanApply(tx, m)
  <2>1. CanPay(tx, m)
    <3>1. /\ m.balances[tx.sender] \in Nat /\ l.balances[tx.sender] \in Nat
          /\ m.balances[tx.sender] >= l.balances[tx.sender]
          /\ l.balances[tx.sender] >= tx.amount + tx.fee
      BY <1>1, <1>2 DEF CanPay
    <3> QED BY <1>1, <3>1 DEF CanPay
  <2>2. HasNextNonce(tx, m)
    BY <1>1, <1>2 DEF HasNextNonce
  <2>3. \/ TransferApplies(tx) \/ CommitApplies(tx, m) \/ RevealApplies(tx, m)
        \/ AuthorizeApplies(tx, m) \/ DeployApplies(tx, m)
    BY <1>1, <1>2 DEF CommitApplies, RevealApplies, AuthorizeApplies, DeployApplies, IsDeployed
  <2> QED BY <1>1, <2>1, <2>2, <2>3 DEF CanApply, IsQuiet
<1>4. /\ FeePaid(tx, m, height) = tx.fee /\ FeePaid(tx, l, height) = tx.fee
  BY DEF FeePaid, IsQuiet
<1> DEFINE p == ApplyTransaction(tx, l, height)
           q == ApplyTransaction(tx, m, height)
           paid == tx.fee + tx.amount
           c == Charged(tx, l, paid)
           d == Charged(tx, m, paid)
<1>5. CoinLedger(p) /\ CoinLedger(q)
  BY <1>3, ApplyCoins DEF Richer, CoinsAfter
<1>6. /\ SameBut(d, c, {"balances"})
      /\ DOMAIN c = LedgerFields
      /\ c.balances = [l.balances EXCEPT ![tx.sender] = @ - paid]
      /\ d.balances = [m.balances EXCEPT ![tx.sender] = @ - paid]
  <2>1. \A field \in LedgerFields \ {"balances"} : m[field] = l[field]
    BY DEF Richer, SameBut
  <2> HIDE DEF paid
  <2> QED BY <1>2, <2>1 DEF Charged, SameBut, LedgerFields
<1>7. /\ c.balances \in [Accounts -> Int] /\ d.balances \in [Accounts -> Int]
      /\ \A a \in Accounts : d.balances[a] >= c.balances[a]
  <2>1. paid \in Nat
    BY <1>1
  <2> HIDE DEF paid, c, d
  <2> QED BY <1>1, <1>2, <1>6, <2>1
<1> HIDE DEF c, d
<1>8. SameBut(q, p, {"balances"}) /\ \A a \in Accounts : q.balances[a] >= p.balances[a]
  <2>1. CASE tx.kind = "transfer"
    <3>1. /\ p = [c EXCEPT !.balances[tx.receiver] = @ + tx.amount]
          /\ q = [d EXCEPT !.balances[tx.receiver] = @ + tx.amount]
      BY <2>1 DEF ApplyTransaction, c, d
    <3> HIDE DEF p, q
    <3>2. /\ SameBut(q, p, {"balances"})
          /\ p.balances = [c.balances EXCEPT ![tx.receiver] = @ + tx.amount]
          /\ q.balances = [d.balances EXCEPT ![tx.receiver] = @ + tx.amount]
      BY <1>6, <3>1 DEF SameBut, LedgerFields
    <3> QED BY <1>1, <1>7, <3>2
  <2>2. CASE tx.kind = "commit"
    <3>1. \E key, x : /\ p = [c EXCEPT !.commitments = With(@, key, x)]
                      /\ q = [d EXCEPT !.commitments = With(@, key, x)]
      BY <2>2 DEF ApplyTransaction, c, d
    <3> HIDE DEF p, q
    <3> QED BY <1>6, <1>7, <3>1 DEF SameBut, LedgerFields
  <2>3. CASE tx.kind = "reveal"
    <3>1. \E key, x : /\ p = [c EXCEPT !.reveals = With(@, key, x)]
                      /\ q = [d EXCEPT !.reveals = With(@, key, x)]
      BY <2>3 DEF ApplyTransaction, c, d
    <3> HIDE DEF p, q
    <3> QED BY <1>6, <1>7, <3>1 DEF SameBut, LedgerFields
  <2>4. CASE tx.kind = "authorize"
    <3>1. \E x : /\ p = [c EXCEPT !.authorizations = Append(@, x)]
                 /\ q = [d EXCEPT !.authorizations = Append(@, x)]
      BY <2>4 DEF ApplyTransaction, c, d
    <3>2. d.authorizations = c.authorizations
      BY <1>6 DEF SameBut, LedgerFields
    <3>3. \E y : /\ p = [c EXCEPT !.authorizations = y]
                 /\ q = [d EXCEPT !.authorizations = y]
      <4> HIDE DEF p, q
      <4>1. PICK x : /\ p = [c EXCEPT !.authorizations = Append(@, x)]
                     /\ q = [d EXCEPT !.authorizations = Append(@, x)]
        BY <3>1
      <4> WITNESS Append(c.authorizations, x)
      <4> QED BY <3>2, <4>1, Zenon
    <3> HIDE DEF p, q
    <3> QED BY <1>6, <1>7, <3>3 DEF SameBut, LedgerFields
  <2>5. CASE tx.kind = "deploy"
    <3>1. \E key, x : /\ p = [c EXCEPT !.contracts = With(@, key, x)]
                      /\ q = [d EXCEPT !.contracts = With(@, key, x)]
      BY <2>5 DEF ApplyTransaction, c, d
    <3> HIDE DEF p, q
    <3> QED BY <1>6, <1>7, <3>1 DEF SameBut, LedgerFields
  <2> QED BY <1>1, <2>1, <2>2, <2>3, <2>4, <2>5
       DEF TransferApplies, CommitApplies, RevealApplies, AuthorizeApplies, DeployApplies
<1> QED BY <1>3, <1>4, <1>5, <1>8 DEF Richer

LEMMA ListAppliesRicher ==
    ASSUME NEW txs, Len(txs) \in Nat, \A i \in 1 .. Len(txs) : IsQuiet(txs[i]),
           NEW l, NEW m, Richer(m, l), NEW height \in Nat, ApplyInOrder(txs, l, height).ok
    PROVE  /\ ApplyInOrder(txs, m, height).ok
           /\ ApplyInOrder(txs, m, height).fees = ApplyInOrder(txs, l, height).fees
           /\ ApplyInOrder(txs, l, height).fees \in Nat
<1> DEFINE last == Len(txs)
<1>1. PICK f : /\ f = [n \in 0 .. last |-> NextApplied(txs, l, height, f, n)]
               /\ ApplyInOrder(txs, l, height) = f[last]
  BY ApplyInOrderSolves
<1>2. PICK g : /\ g = [n \in 0 .. last |-> NextApplied(txs, m, height, g, n)]
               /\ ApplyInOrder(txs, m, height) = g[last]
  BY ApplyInOrderSolves
<1>3. \A n \in 0 .. last : /\ f[n] = NextApplied(txs, l, height, f, n)
                           /\ g[n] = NextApplied(txs, m, height, g, n)
  BY <1>1, <1>2
<1>4. last \in Nat /\ \A i \in 1 .. last : IsQuiet(txs[i])
  OBVIOUS
<1> HIDE DEF last
<1> DEFINE Good(a, b) ==
             /\ DOMAIN a = {"ok", "ledger", "fees"} /\ a.ok \in BOOLEAN
             /\ a.ok => b.ok /\ b.fees = a.fees /\ a.fees \in Nat /\ Richer(b.ledger, a.ledger)
           Held == {n \in 0 .. last : Good(f[n], g[n])}
<1>5. 0 \in Held
  <2>1. f[0] = NextApplied(txs, l, height, f, 0) /\ g[0] = NextApplied(txs, m, height, g, 0)
    BY <1>3, <1>4
  <2>2. /\ f[0] = [ok |-> TRUE, ledger |-> l, fees |-> 0]
        /\ g[0] = [ok |-> TRUE, ledger |-> m, fees |-> 0]
    BY <2>1 DEF NextApplied
  <2>3. Good(f[0], g[0])
    BY <2>2
  <2> HIDE DEF Good
  <2> QED BY <1>4, <2>3
<1>6. ASSUME NEW n \in 0 .. last, n # last, n \in Held
      PROVE  n + 1 \in Held
  <2> DEFINE k == n + 1
             a == f[n]
             b == g[n]
             tx == txs[k]
             p == ApplyTransaction(tx, a.ledger, height)
             q == ApplyTransaction(tx, b.ledger, height)
  <2>1. k \in 0 .. last /\ k \in 1 .. last /\ k # 0 /\ k - 1 = n
    BY <1>4, <1>6
  <2>2. /\ f[k] = IF a.ok /\ CanApply(tx, a.ledger)
                  THEN [ok |-> TRUE, ledger |-> p, fees |-> a.fees + FeePaid(tx, a.ledger, height)]
                  ELSE [a EXCEPT !.ok = FALSE]
        /\ g[k] = IF b.ok /\ CanApply(tx, b.ledger)
                  THEN [ok |-> TRUE, ledger |-> q, fees |-> b.fees + FeePaid(tx, b.ledger, height)]
                  ELSE [b EXCEPT !.ok = FALSE]
    BY <1>3, <2>1 DEF NextApplied
  <2>3. Good(a, b) /\ IsQuiet(tx)
    BY <1>4, <1>6, <2>1
  <2> HIDE DEF a, b, tx
  <2>4. CASE a.ok /\ CanApply(tx, a.ledger)
    <3>1. b.ok /\ b.fees = a.fees /\ a.fees \in Nat /\ Richer(b.ledger, a.ledger)
      BY <2>3, <2>4
    <3>2. /\ CanApply(tx, b.ledger) /\ Richer(q, p) /\ tx.fee \in Nat
          /\ FeePaid(tx, b.ledger, height) = tx.fee /\ FeePaid(tx, a.ledger, height) = tx.fee
      BY <2>3, <2>4, <3>1, RicherApplies DEF CanApply
    <3> HIDE DEF p, q
    <3>3. /\ f[k] = [ok |-> TRUE, ledger |-> p, fees |-> a.fees + tx.fee]
          /\ g[k] = [ok |-> TRUE, ledger |-> q, fees |-> a.fees + tx.fee]
      BY <2>2, <2>4, <3>1, <3>2
    <3>4. Good(f[k], g[k])
      BY <3>1, <3>2, <3>3
    <3> HIDE DEF Good
    <3> QED BY <2>1, <3>4
  <2>5. CASE ~(a.ok /\ CanApply(tx, a.ledger))
    <3>1. f[k] = [a EXCEPT !.ok = FALSE]
      BY <2>2, <2>5
    <3>2. Good(f[k], g[k])
      BY <2>3, <3>1
    <3> HIDE DEF Good
    <3> QED BY <2>1, <3>2
  <2> QED BY <2>4, <2>5
<1>7. Good(f[last], g[last])
  <2> HIDE DEF Held
  <2>1. 0 .. last \subseteq Held
    BY <1>4, <1>5, <1>6, HoldsUpTo
  <2>2. last \in Held
    BY <1>4, <2>1
  <2> HIDE DEF Good
  <2> QED BY <2>2 DEF Held
<1> QED BY <1>1, <1>2, <1>7

\* One transaction that applies alone.
LEMMA ApplyOne ==
    ASSUME NEW tx, NEW l, NEW height, CanApply(tx, l)
    PROVE  LET one == ApplyInOrder(<<tx>>, l, height)
           IN  /\ one.ok /\ one.ledger = ApplyTransaction(tx, l, height)
               /\ one.fees = 0 + FeePaid(tx, l, height)
<1>1. Len(<<tx>>) = 1 /\ <<tx>>[1] = tx
  OBVIOUS
<1> DEFINE txs == <<tx>>
<1>2. Len(txs) = 1 /\ txs[1] = tx
  BY <1>1
<1> HIDE DEF txs
<1>3. PICK f : /\ f = [n \in 0 .. 1 |-> NextApplied(txs, l, height, f, n)]
               /\ ApplyInOrder(txs, l, height) = f[1]
  BY <1>2, ApplyInOrderSolves
<1>4. f[0] = NextApplied(txs, l, height, f, 0) /\ f[1] = NextApplied(txs, l, height, f, 1)
  BY <1>3
<1>5. f[0] = [ok |-> TRUE, ledger |-> l, fees |-> 0]
  BY <1>4 DEF NextApplied
<1>6. f[1] = [ ok |-> TRUE, ledger |-> ApplyTransaction(tx, l, height),
               fees |-> 0 + FeePaid(tx, l, height) ]
  <2> DEFINE a == f[0]
             p == ApplyTransaction(tx, l, height)
             fee == FeePaid(tx, l, height)
  <2>1. a.ok /\ a.ledger = l /\ a.fees = 0
    BY <1>5
  <2> HIDE DEF a
  <2>2. f[1] = IF a.ok /\ CanApply(txs[1], a.ledger)
               THEN [ ok |-> TRUE, ledger |-> ApplyTransaction(txs[1], a.ledger, height),
                      fees |-> a.fees + FeePaid(txs[1], a.ledger, height) ]
               ELSE [a EXCEPT !.ok = FALSE]
    <3>1. 1 # 0 /\ 1 - 1 = 0
      OBVIOUS
    <3> QED BY <1>4, <3>1, Zenon DEF NextApplied, a
  <2>3. f[1] = IF a.ok /\ CanApply(tx, l)
               THEN [ok |-> TRUE, ledger |-> p, fees |-> 0 + fee]
               ELSE [a EXCEPT !.ok = FALSE]
    BY <1>2, <2>1, <2>2, Zenon
  <2> QED BY <2>1, <2>3, Zenon
<1> QED BY <1>3, <1>6 DEF txs

----------------------------------------------------------------------------
(* The block that is mined.                                                *)

LEMMA OneIsSeq ==
    ASSUME NEW x
    PROVE  IsSeq(<<x>>) /\ Len(<<x>>) = 1 /\ <<x>>[1] = x
<1>1. <<x>> \in Seq({x}) /\ Len(<<x>>) = 1 /\ <<x>>[1] = x
  OBVIOUS
<1> QED BY <1>1 DEF IsSeq

\* The reward applies to every ledger, and only adds coins.
LEMMA RewardOnlyAdds ==
    ASSUME NEW l, CoinLedger(l), NEW miner \in Miners, NEW fees \in Nat, NEW height \in Nat
    PROVE  LET reward == RewardTransaction(miner, fees)
           IN  /\ CanApply(reward, l)
               /\ Richer(ApplyTransaction(reward, l, height), l)
               /\ FeePaid(reward, l, height) = 0
<1> DEFINE reward == RewardTransaction(miner, fees)
           m == ApplyTransaction(reward, l, height)
           sum == MiningReward + fees
<1>1. sum \in Nat /\ sum > 0
  BY RewardAssumption
<1> HIDE DEF sum
<1>2. /\ reward.kind = "reward" /\ reward.receiver = miner /\ reward.amount = sum
      /\ reward.fee = 0 /\ reward.authentic /\ reward.wellformed
  BY DEF RewardTransaction, sum
<1> HIDE DEF reward
<1>3. miner \in Accounts /\ IsReward(reward)
  BY <1>2, MinersAssumption, AccountsAssumption DEF IsReward
<1>4. CanApply(reward, l)
  BY <1>1, <1>2, <1>3 DEF CanApply
<1>5. m = [l EXCEPT !.balances[miner] = @ + sum]
  BY <1>2 DEF ApplyTransaction
<1>6. CoinLedger(m)
  BY <1>4, ApplyCoins DEF CoinsAfter
<1>7. DOMAIN l = LedgerFields /\ l.balances \in [Accounts -> Nat]
  BY DEF CoinLedger, IsLedger
<1> HIDE DEF m
<1>8. SameBut(m, l, {"balances"}) /\ m.balances = [l.balances EXCEPT ![miner] = @ + sum]
  BY <1>5, <1>7 DEF SameBut, LedgerFields
<1>9. \A a \in Accounts : m.balances[a] >= l.balances[a]
  BY <1>1, <1>3, <1>7, <1>8
<1>10. FeePaid(reward, l, height) = 0
  BY <1>2 DEF FeePaid, IsReward
<1> QED BY <1>4, <1>6, <1>8, <1>9, <1>10 DEF Richer, m, reward

\* What is selected on a ledger applies behind the reward, for the same fees.
LEMMA RewardThenSelected ==
    ASSUME NEW l, CoinLedger(l), NEW miner \in Miners, NEW height \in Nat,
           NEW txs, IsSeq(txs), \A tx \in ToSet(txs) : IsQuiet(tx),
           ApplyInOrder(txs, l, height).ok
    PROVE  LET fees == ApplyInOrder(txs, l, height).fees
               all  == <<RewardTransaction(miner, fees)>> \o txs
           IN  /\ fees \in Nat
               /\ ApplyInOrder(all, l, height).ok
               /\ ApplyInOrder(all, l, height).fees = fees
<1> DEFINE fees == ApplyInOrder(txs, l, height).fees
           reward == RewardTransaction(miner, fees)
           m == ApplyTransaction(reward, l, height)
           one == <<reward>>
<1>1. Len(txs) \in Nat /\ \A i \in 1 .. Len(txs) : IsQuiet(txs[i])
  BY SeqLength DEF ToSet
<1>2. Richer(l, l)
  BY DEF Richer, SameBut, CoinLedger, IsLedger
<1>3. fees \in Nat
  BY <1>1, <1>2, ListAppliesRicher
<1>4. CanApply(reward, l) /\ Richer(m, l) /\ FeePaid(reward, l, height) = 0
  BY <1>3, RewardOnlyAdds
<1>5. ApplyInOrder(txs, m, height).ok /\ ApplyInOrder(txs, m, height).fees = fees
  BY <1>1, <1>4, ListAppliesRicher
<1> HIDE DEF reward
<1>6. /\ ApplyInOrder(one, l, height).ok
      /\ ApplyInOrder(one, l, height).ledger = m
      /\ ApplyInOrder(one, l, height).fees = 0
  BY <1>4, ApplyOne
<1>7. IsSeq(one)
  BY OneIsSeq
<1> HIDE DEF m, one
<1>8. ApplyInOrder(one \o txs, l, height).ok /\ ApplyInOrder(one \o txs, l, height).fees = fees
  BY <1>5, <1>6, <1>7, ApplyJoined
<1> QED BY <1>3, <1>8 DEF one, reward

\* A block on a block of the tree that add_block_result would take.
ValidOn(block) ==
    /\ block.previous_hash \in Stored
    /\ block.block_id = Height(block.previous_hash) + 1
    /\ IsValidChild(block, StateAt(block.previous_hash).ledger)

\* add_transaction takes no reward, and none comes back from a branch.
NoRewardWaits == \A tx \in ToSet(pending) : ~IsReward(tx)

LEMMA MinedBlockIsValid ==
    ASSUME IInv, PoolInv, StockInv, NoRewardWaits, NothingIsExecuted,
           NEW miner \in Miners, mainTip # NoHash
    PROVE  ValidOn(MinedBlock(miner, mainTip))
<1> DEFINE state == StateAt(mainTip)
           l == state.ledger
           height == state.height + 1
           selected == SelectedTransactions(pending, state)
           fees == CollectedFees(selected, state)
           reward == RewardTransaction(miner, fees)
           all == <<reward>> \o selected
           block == MinedBlock(miner, mainTip)
<1>1. /\ mainTip \in Stored /\ state = states[mainTip]
      /\ Height(mainTip) \in Nat /\ height = Height(mainTip) + 1 /\ height \in Nat /\ height # 0
  <2>1. mainTip \in Stored /\ state = states[mainTip]
    BY DEF IInv, TipIsSound, MainTipIsHighest, StateAt
  <2> QED BY <2>1 DEF IInv, TypeOK, Height
<1>2. CoinLedger(l)
  <2>1. CoinLedger(LedgerAt(mainTip))
    BY <1>1, CoinsEverywhere DEF PoolInv, ListsAreSeqs
  <2> QED BY <2>1 DEF LedgerAt
<1>3. /\ IsSeq(selected) /\ ApplyInOrder(selected, l, height).ok
      /\ Len(selected) \in 0 .. MaxBlockTransactions - 1
      /\ ToSet(selected) \subseteq ToSet(pending)
  <2>1. IsSeq(pending) /\ HaveFees(pending)
    BY AppliedHaveFees DEF PoolInv, ListsAreSeqs, PoolApplies, PendingOn, PoolOn
  <2> HIDE DEF state
  <2> QED BY <2>1, SelectedParts
<1>4. \A tx \in ToSet(selected) : IsQuiet(tx)
  BY <1>3 DEF IsQuiet, NoRewardWaits, NothingIsExecuted, StockInv, AllFromStock, FromStock
<1>5. fees = ApplyInOrder(selected, l, height).fees
  BY DEF CollectedFees
<1>6. /\ block.block_id = height /\ block.previous_hash = mainTip
      /\ block.transactions = all /\ block.work = RequiredBits(height)
  BY DEF MinedBlock, BlockOf
<1> HIDE DEF state, l, height, selected, fees, block
<1>7. /\ fees \in Nat
      /\ ApplyInOrder(all, l, height).ok /\ ApplyInOrder(all, l, height).fees = fees
  BY <1>1, <1>2, <1>3, <1>4, <1>5, RewardThenSelected
<1>8. /\ IsReward(reward) /\ reward.fee = 0 /\ reward.receiver = miner
      /\ reward.amount = MiningReward + fees
  BY DEF RewardTransaction, IsReward
<1> HIDE DEF reward
<1>9. /\ IsSeq(<<reward>>) /\ Len(<<reward>>) = 1 /\ <<reward>>[1] = reward
      /\ Len(selected) \in Nat /\ DOMAIN selected = 1 .. Len(selected)
  BY <1>3, OneIsSeq, SeqLength
<1>10. /\ Len(all) = 1 + Len(selected) /\ all[1] = reward
       /\ \A i \in 1 .. Len(selected) : all[1 + i] = selected[i]
       /\ IsSeq(all)
  <2>1. IsSeq(all)
    <3>1. <<reward>> \in Seq({reward}) /\ \E S : selected \in Seq(S)
      BY <1>3 DEF IsSeq
    <3>2. PICK S : selected \in Seq(S)
      BY <3>1
    <3>3. <<reward>> \in Seq({reward} \cup S) /\ selected \in Seq({reward} \cup S)
      BY <3>2
    <3>4. all \in Seq({reward} \cup S)
      BY <3>3
    <3> QED BY <3>4 DEF IsSeq
  <2> DEFINE one == <<reward>>
  <2>2. IsSeq(one) /\ Len(one) = 1 /\ one[1] = reward /\ all = one \o selected
    BY <1>9
  <2> HIDE DEF one, all
  <2>3. /\ Len(all) = Len(one) + Len(selected)
        /\ \A i \in 1 .. Len(one) : all[i] = one[i]
        /\ \A i \in 1 .. Len(selected) : all[Len(one) + i] = selected[i]
    <3>1. IsSeq(one) /\ IsSeq(selected)
      BY <1>3, <2>2
    <3>2. /\ Len(one \o selected) = Len(one) + Len(selected)
          /\ \A i \in 1 .. Len(one) : (one \o selected)[i] = one[i]
          /\ \A i \in 1 .. Len(selected) : (one \o selected)[Len(one) + i] = selected[i]
      BY ONLY <3>1, JoinSize
    <3> QED BY <2>2, <3>2, Zenon
  <2> QED BY <2>1, <2>2, <2>3
<1> HIDE DEF all
<1>11. Len(all) \in Nat /\ DOMAIN all = 1 .. Len(all)
  BY <1>10, SeqLength
<1>12. \A i \in 1 .. Len(all) : IsReward(all[i]) <=> i = 1
  <2> SUFFICES ASSUME NEW i \in 1 .. Len(all) PROVE IsReward(all[i]) <=> i = 1
    OBVIOUS
  <2>1. CASE i = 1
    BY <1>8, <1>10, <2>1
  <2>2. CASE i # 1
    <3>1. i - 1 \in 1 .. Len(selected) /\ 1 + (i - 1) = i
      BY <1>9, <1>10, <2>2
    <3>2. all[i] = selected[i - 1] /\ selected[i - 1] \in ToSet(selected)
      BY <1>9, <1>10, <3>1 DEF ToSet
    <3> QED BY <1>4, <2>2, <3>2 DEF IsQuiet
  <2> QED BY <2>1, <2>2
<1>13. RewardIsFirst(block)
  <2>1. all # << >>
    BY <1>9, <1>10
  <2>2. miner # Nobody
    BY MinersAssumption, AccountsAssumption, NobodyAssumption
  <2> QED BY <1>1, <1>6, <1>8, <1>10, <1>11, <1>12, <2>1, <2>2 DEF RewardIsFirst
<1>14. Len(all) \in 0 .. MaxBlockTransactions
  BY <1>3, <1>9, <1>10, BlockSizeAssumption
<1>15. HasProofOfWork(block)
  BY <1>1, <1>6, RequiredBitsType DEF HasProofOfWork
<1>16. ClaimsItsFees(block, AppliedBlock(block, l))
  BY <1>6, <1>7, <1>8, <1>10 DEF ClaimsItsFees, AppliedBlock
<1>17. IsValidChild(block, l)
  BY <1>6, <1>13, <1>14, <1>15, <1>16 DEF IsValidChild, IsWellFormed
<1> QED BY <1>1, <1>6, <1>17 DEF ValidOn, block, l, state

LEMMA AddBlockNoReward ==
    ASSUME IInv, PoolInv, NoRewardWaits, NEW hash \in Hashes, NEW block, AddBlock(hash, block),
           IsSeq(block.transactions)
    PROVE  NoRewardWaits'
<1>1. IInv' /\ BodiesAreSeqs' /\ Stored' = Stored \cup {hash}
  <2>1. Stored' = Stored \cup {hash}
    BY DEF AddBlock, With, Stored
  <2> QED BY <2>1, AddBlockIInv, AddBlockPool DEF PoolInv
<1>2. /\ mainTip \in DOMAIN blocks' \cup {NoHash} /\ mainTip' \in DOMAIN blocks' \cup {NoHash}
      /\ IsTree(blocks', HeightOf')
      /\ \A h \in DOMAIN blocks' : IsSeq(blocks'[h].transactions)
  <2>1. mainTip \in Stored \cup {NoHash}
    BY DEF IInv, TipIsSound, MainTipIsHighest
  <2>2. mainTip' \in Stored' \cup {NoHash}
    BY <1>1 DEF IInv, TipIsSound, MainTipIsHighest
  <2>3. Stored' = DOMAIN blocks'
    BY DEF Stored
  <2>4. IsTree(blocks', HeightOf')
    <3>1. TreeOfBlocks'
      BY <1>1, BlocksStayTree, PTL
    <3> QED BY <3>1 DEF TreeOfBlocks
  <2> QED BY <1>1, <2>1, <2>2, <2>3, <2>4 DEF BodiesAreSeqs
<1>3. /\ pending' = Reconciled(blocks', StateAt(mainTip)', mainTip, mainTip', pending)
      /\ IsSeq(pending)
  BY DEF AddBlock, ReconcilePending, PoolInv, ListsAreSeqs
<1>4. ToSet(pending')
        \subseteq ToSet(pending) \cup {tx \in ToSet(BranchTransactions(blocks', mainTip, NoHash)) :
                                            ~IsReward(tx)}
  BY <1>2, <1>3, ReconciledComesFrom
<1> QED BY <1>4 DEF NoRewardWaits

LEMMA NextNoReward ==
    ASSUME IInv, PoolInv, NoRewardWaits, [Next]_vars
    PROVE  NoRewardWaits'
<1>1. CASE UNCHANGED pending
  BY <1>1 DEF NoRewardWaits
<1>2. ASSUME NEW hash \in Hashes, ReceiveBlock(hash)
      PROVE  NoRewardWaits'
  <2>1. PICK parent \in Stored \cup {NoHash}, body \in PeerBodies \cup {<< >>},
             id \in 0 .. MaxHeight :
            \E work \in {-1, RequiredBits(id)} :
                AddBlock(hash, [ block_id |-> id, previous_hash |-> parent,
                                 transactions |-> body, work |-> work ])
    BY <1>2 DEF ReceiveBlock
  <2>2. PICK work \in {-1, RequiredBits(id)} :
            AddBlock(hash, [ block_id |-> id, previous_hash |-> parent,
                             transactions |-> body, work |-> work ])
    BY <2>1
  <2> DEFINE block == [ block_id |-> id, previous_hash |-> parent,
                        transactions |-> body, work |-> work ]
  <2>3. IsSeq(body)
    BY BodiesAssumption, EmptyIsSeq DEF IsSeq
  <2>4. block.transactions = body /\ AddBlock(hash, block)
    BY <2>2
  <2> HIDE DEF block
  <2> QED BY <2>3, <2>4, AddBlockNoReward
<1>3. ASSUME NEW tx \in Transactions, AddTransaction(tx)
      PROVE  NoRewardWaits'
  BY <1>3, ToSetAppend DEF AddTransaction, PoolInv, ListsAreSeqs, NoRewardWaits
<1>4. ASSUME NEW hash \in Hashes, FinishMining(hash)
      PROVE  NoRewardWaits'
  BY <1>4, AddBlockNoReward DEF FinishMining, PoolInv, ListsAreSeqs
<1>5. CASE VerifyChain
  <2>1. UNCHANGED <<blocks, states, mainTip, candidate>> /\ ReconcilePending
    BY <1>5, RecomputedIsStates, BestTipIsMainTip DEF VerifyChain
  <2>2. pending' = Reconciled(blocks, StateAt(mainTip)', mainTip, mainTip, pending)
        /\ IsSeq(pending)
    BY <2>1 DEF ReconcilePending, PoolInv, ListsAreSeqs
  <2>3. mainTip \in DOMAIN blocks \cup {NoHash} /\ IsTree(blocks, HeightOf)
    BY BlocksAreTree DEF IInv, TipIsSound, MainTipIsHighest, Stored
  <2>4. \A h \in DOMAIN blocks : IsSeq(blocks[h].transactions)
    BY DEF PoolInv, ListsAreSeqs, BodiesAreSeqs, Stored
  <2>5. ToSet(pending')
          \subseteq ToSet(pending) \cup {tx \in ToSet(BranchTransactions(blocks, mainTip, NoHash)) :
                                            ~IsReward(tx)}
    BY <2>2, <2>3, <2>4, ReconciledComesFrom
  <2> QED BY <2>5 DEF NoRewardWaits
<1> QED BY <1>1, <1>2, <1>3, <1>4, <1>5
     DEF Next, StartMining, AbandonMining, chainVars, vars

\* Blocks and their states stay, so a block that could be added still can.
LEMMA ValidStays ==
    ASSUME IInv, [Next]_vars, NEW block, ValidOn(block)
    PROVE  ValidOn(block)'
<1> DEFINE h == block.previous_hash
<1>1. h \in Stored /\ h # NoHash
  BY NoHashAssumption DEF ValidOn, IInv, TypeOK
<1>2. h \in Stored' /\ blocks'[h] = blocks[h] /\ states'[h] = states[h]
  BY <1>1, HistoryStays
<1>3. StateAt(h)' = StateAt(h) /\ Height(h)' = Height(h)
  BY <1>1, <1>2 DEF StateAt, Height
<1> QED BY <1>2, <1>3 DEF ValidOn

CandidateInv == NoRewardWaits /\ (candidate # NoBlock => ValidOn(candidate))

LEMMA NextCandidate ==
    ASSUME IInv, PoolInv, StockInv, CandidateInv, NothingIsExecuted, [Next]_vars
    PROVE  CandidateInv'
<1>1. NoRewardWaits'
  BY NextNoReward DEF CandidateInv
<1>2. CASE UNCHANGED candidate
  <2>1. PICK block : block = candidate
    OBVIOUS
  <2>2. block # NoBlock => ValidOn(block)'
    BY <2>1, ValidStays DEF CandidateInv
  <2> QED BY <1>1, <1>2, <2>1, <2>2 DEF CandidateInv, ValidOn
<1>3. ASSUME NEW miner \in Miners, StartMining(miner)
      PROVE  CandidateInv'
  <2> DEFINE block == MinedBlock(miner, mainTip)
  <2>1. /\ candidate' = block /\ mainTip # NoHash
        /\ UNCHANGED <<blocks, states, mainTip, pending>>
    BY <1>3 DEF StartMining, chainVars
  <2>2. ValidOn(block)
    BY <2>1, MinedBlockIsValid DEF CandidateInv
  <2> HIDE DEF block
  <2>3. ValidOn(candidate)'
    BY <2>1, <2>2 DEF ValidOn, Stored, Height, StateAt
  <2> QED BY <1>1, <2>3 DEF CandidateInv
<1>4. CASE candidate' = NoBlock
  BY <1>1, <1>4 DEF CandidateInv
<1> QED BY <1>2, <1>3, <1>4
     DEF Next, ReceiveBlock, AddTransaction, FinishMining, AbandonMining, VerifyChain, vars

\* A block that is mined is never refused, whatever arrives while its proof of
\* work is sought, as long as no transaction runs a program: the reward that
\* stands in front only adds coins.
THEOREM MinedBlocksAreAccepted ==
    ASSUME NothingIsExecuted
    PROVE  Spec => []CandidateIsValid
<1>1. Init => CandidateInv
  BY EmptyToSet DEF Init, CandidateInv, NoRewardWaits
<1>2. IInv /\ PoolInv /\ StockInv /\ CandidateInv /\ [Next]_vars => CandidateInv'
  BY NextCandidate
<1>3. IInv /\ CandidateInv => CandidateIsValid
  BY NoHashAssumption DEF IInv, TypeOK, CandidateInv, CandidateIsValid, ValidOn, ExtendsParent
<1> QED BY <1>1, <1>2, <1>3, IInvHolds, PoolInvHolds, StockInvHolds, PTL DEF Spec

=============================================================================
