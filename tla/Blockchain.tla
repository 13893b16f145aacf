----------------------------- MODULE Blockchain -----------------------------
(***************************************************************************)
(* The Blockchain object (core/blockchain.py): a tree of blocks with the   *)
(* state of the ledger after each of them, the main tip, the pool of       *)
(* pending transactions, and the block this node is mining.                *)
(*                                                                         *)
(* Blocks and transactions come from peers at any time; mining selects     *)
(* from the pool when it starts and adds its block when the proof of work  *)
(* is found, any number of steps later.  A call that returns an error      *)
(* leaves the object as it was and is a stuttering step here.              *)
(*                                                                         *)
(* children_by_hash is not a variable: it is the inverse of previous_hash, *)
(* the operator IsLeaf.                                                    *)
(***************************************************************************)
EXTENDS Ledger, SequencesExt

CONSTANTS
    Hashes,           \* block hashes
    NoHash,           \* GENESIS_PREVIOUS_HASH, and None for a tip
    NoBlock,          \* nothing is being mined
    Miners,           \* wallets that mine
    Transactions,     \* the transactions that may be submitted
    PeerBodies,       \* the transaction lists of blocks built by other nodes
    MaxHeight,        \* bound: no block higher than this arrives
    MaxPending,       \* bound: submissions stop at this many pending
    DifficultyBits, GenesisDifficultyBits, DifficultyGrowthFactor,
    DifficultyGrowthStartHeight, DifficultyGrowthBits, ScheduleActivationHeight

ASSUME NoHashAssumption == NoHash \notin Hashes
ASSUME MinersAssumption == Miners \subseteq Wallets
ASSUME BodiesAssumption == \A body \in PeerBodies : body \in Seq(ToSet(body))
ASSUME DifficultyAssumption ==
    /\ DifficultyBits \in Nat /\ GenesisDifficultyBits \in Nat
    /\ DifficultyGrowthFactor \in Nat \ {0, 1}
    /\ DifficultyGrowthStartHeight \in Nat \ {0}
    /\ DifficultyGrowthBits \in Nat \ {0}
    /\ ScheduleActivationHeight \in Nat

VARIABLES
    blocks,      \* blocks_by_hash: hash -> block, partial
    states,      \* block_states: hash -> [height, ledger], same domain
    mainTip,     \* main_tip_hash
    pending,     \* pending_transactions
    candidate    \* the block being mined: a local of mine_pending_transactions

vars == <<blocks, states, mainTip, pending, candidate>>
chainVars == <<blocks, states, mainTip, pending>>

----------------------------------------------------------------------------
(* Difficulty.                                                             *)

\* get_difficulty_bits_for_height: the number of thresholds start,
\* start*factor, start*factor^2, ... the height has reached.
GrowthSteps(height) ==
    LET reached[threshold \in Nat \ {0}] ==
            IF height >= threshold THEN 1 + reached[threshold * DifficultyGrowthFactor] ELSE 0
    IN  reached[DifficultyGrowthStartHeight]

RequiredBits(height) ==
    IF height = 0
    THEN GenesisDifficultyBits
    ELSE IF height < ScheduleActivationHeight \/ height < DifficultyGrowthStartHeight
         THEN DifficultyBits
         ELSE DifficultyBits + GrowthSteps(height) * DifficultyGrowthBits

----------------------------------------------------------------------------
(* Chains.  A block is [block_id, previous_hash, transactions, work]; work *)
(* is the number of leading zero bits of its hash, or -1 when the hash is  *)
(* not the hash of its contents.                                           *)

Stored == DOMAIN blocks
Parent(hash) == blocks[hash].previous_hash
Height(hash) == states[hash].height
IsLeaf(hash) == \A other \in Stored : Parent(other) # hash

\* get_chain: the hashes from the genesis block to this one, in the tree tree.
ChainTo(tree, hash) ==
    LET chain[h \in DOMAIN tree \cup {NoHash}] ==
            IF h = NoHash THEN << >> ELSE Append(chain[tree[h].previous_hash], h)
    IN  chain[hash]

FreshState == [height |-> -1, ledger |-> EmptyLedger]   \* ChainState()

\* _get_state_for_tip
StateAt(tip) == IF tip = NoHash THEN FreshState ELSE states[tip]

\* _find_common_ancestor_hash, NoHash if there is none.
CommonAncestor(tree, left, right) ==
    LET leftChain  == ChainTo(tree, left)
        rightChain == ChainTo(tree, right)
        common     == {i \in DOMAIN leftChain \cap DOMAIN rightChain :
                          leftChain[i] = rightChain[i]}
    IN  IF common = {} THEN NoHash ELSE leftChain[Max(common)]

\* _collect_branch_transactions: those of the blocks above stop, an ancestor
\* of head, in order.
BranchTransactions(tree, head, stop) ==
    LET chain == ChainTo(tree, head)
        above == SubSeq(chain, Len(ChainTo(tree, stop)) + 1, Len(chain))
    IN  FlattenSeq([i \in DOMAIN above |-> tree[above[i]].transactions])

----------------------------------------------------------------------------
(* Validation of a block.                                                  *)

\* get_mining_reward_structure_error
RewardIsFirst(block) ==
    IF block.block_id = 0
    THEN ~\E i \in DOMAIN block.transactions : IsReward(block.transactions[i])
    ELSE /\ block.transactions # << >>
         /\ \A i \in DOMAIN block.transactions : IsReward(block.transactions[i]) <=> i = 1
         /\ block.transactions[1].fee = 0
         /\ block.transactions[1].receiver # Nobody

\* get_block_verification_error
HasProofOfWork(block) == block.work >= RequiredBits(block.block_id)

\* get_genesis_block_validation_error
IsGenesis(block) == block.block_id = 0 /\ block.transactions = << >>

\* The transactions of a block, in order, on the state of its parent: the
\* reward is the first of them.
AppliedBlock(block, parentLedger) ==
    ApplyInOrder(block.transactions, parentLedger, block.block_id)

\* What a block must have claimed once its transactions were applied.
ClaimsItsFees(block, applied) ==
    /\ applied.ok
    /\ block.block_id # 0 => block.transactions[1].amount = MiningReward + applied.fees

\* What _build_child_state asks of a block whatever its parent.
IsWellFormed(block) ==
    /\ Len(block.transactions) \in 0 .. MaxBlockTransactions
    /\ RewardIsFirst(block)
    /\ HasProofOfWork(block)

\* _build_child_state returns a state.
IsValidChild(block, parentLedger) ==
    /\ IsWellFormed(block)
    /\ ClaimsItsFees(block, AppliedBlock(block, parentLedger))

ChildState(block, parentLedger) ==
    [height |-> block.block_id, ledger |-> AppliedBlock(block, parentLedger).ledger]

\* _get_parent_state_for_block finds a parent: one genesis block only, and
\* every other block one higher than its parent.
ExtendsParent(block) ==
    IF block.previous_hash = NoHash
    THEN IsGenesis(block) /\ \A h \in Stored : Parent(h) # NoHash
    ELSE /\ block.previous_hash \in Stored
         /\ block.block_id = Height(block.previous_hash) + 1

\* add_block_result would return "accepted".
Accepts(hash, block) ==
    /\ hash \notin Stored
    /\ ExtendsParent(block)
    /\ IsValidChild(block, StateAt(block.previous_hash).ledger)

----------------------------------------------------------------------------
(* The pool.                                                               *)

\* Those that come ahead of the i-th by fee: the dearer ones, and of the same
\* fee those before it.
Ahead(txs, i) ==
    {j \in DOMAIN txs : txs[j].fee > txs[i].fee \/ (txs[j].fee = txs[i].fee /\ j < i)}

\* The transactions by fee, highest first, in their order where fees are equal.
ByFee(txs) ==
    [n \in DOMAIN txs |->
        txs[CHOOSE i \in DOMAIN txs : Cardinality(Ahead(txs, i)) = n - 1]]

\* Mutants of SelectedTransactions: the dearest, whether they apply or not;
\* one round only.
SelectedDearest(txs, state) ==
    SubSeq(ByFee(txs), 1, Min({Len(txs), MaxBlockTransactions - 1}))
SelectedInOneRound(txs, state) ==
    KeepApplicable(ByFee(txs), state.ledger, state.height + 1, MaxBlockTransactions - 1).kept

\* _select_transactions_for_block: highest fee first, round after round,
\* until the block is full or a round adds nothing.
SelectedTransactions(txs, state) ==
    LET limit == MaxBlockTransactions - 1
        round[n \in 0 .. Len(txs)] ==
            IF n = 0
            THEN [kept |-> << >>, rest |-> ByFee(txs), ledger |-> state.ledger]
            ELSE LET prev == round[n - 1]
                     next == KeepApplicable(prev.rest, prev.ledger, state.height + 1,
                                            limit - Len(prev.kept))
                 IN  [next EXCEPT !.kept = prev.kept \o @]
    IN  round[Len(txs)].kept

\* Mutant of Reconciled: the branch that was left is forgotten.
ReconciledPoolOnly(tree, canonical, previousHead, head, txs) ==
    KeepApplicable(txs, canonical.ledger, canonical.height + 1, Len(txs)).kept

\* _reconcile_pending_transactions(previousHead, head) on the tree tree, whose
\* main tip has the state canonical: the transactions of the branch that was
\* left come back ahead of the pool txs, and what then still applies to the
\* main tip, one after the other, stays.  (The code's set of ids already seen
\* is not needed: a second copy has a used nonce.)
Reconciled(tree, canonical, previousHead, head, txs) ==
    LET ancestor   == CommonAncestor(tree, previousHead, head)
        current    == ToSet(BranchTransactions(tree, head, ancestor))
        returned   == BranchTransactions(tree, previousHead, ancestor)
        rewards    == {tx \in ToSet(returned) : IsReward(tx)}
        candidates == Without(returned \o txs, current \cup rewards)
    IN  KeepApplicable(candidates, canonical.ledger, canonical.height + 1,
                       Len(candidates)).kept

\* Mutant of ReconcilePending: the pool is left as it is.
PendingAsItWas == pending' = pending

\* The pool after a step, reconciled on the tree the step leaves behind.
ReconcilePending ==
    pending' = Reconciled(blocks', StateAt(mainTip)', mainTip, mainTip', pending)

\* The transactions txs, one after the other, in the block after state.
PoolOn(txs, state) == ApplyInOrder(txs, state.ledger, state.height + 1)

PendingOn(tip) == PoolOn(pending, StateAt(tip))

----------------------------------------------------------------------------
(* Operations.                                                             *)

Init ==
    /\ blocks = << >>
    /\ states = << >>
    /\ mainTip = NoHash
    /\ pending = << >>
    /\ candidate = NoBlock

\* Mutant of BecomesTip: a block as high as the tip does.
BecomesTipIfAsHigh(block) == mainTip = NoHash \/ block.block_id >= Height(mainTip)

\* _should_update_main_tip: only a strictly higher block becomes the tip.
BecomesTip(block) == mainTip = NoHash \/ block.block_id > Height(mainTip)

\* Mutant of StatesWith: a block and its parent share their balances.
StatesSharing(hash, state, parent) ==
    With([h \in Stored |-> IF h = parent
                           THEN [states[h] EXCEPT !.ledger.balances = state.ledger.balances]
                           ELSE states[h]],
         hash, state)

\* The state after the new block joins those that are kept.
StatesWith(hash, state, parent) == With(states, hash, state)

\* add_block_result, when it accepts the block.
AddBlock(hash, block) ==
    /\ Accepts(hash, block)
    /\ blocks' = With(blocks, hash, block)
    /\ states' = StatesWith(hash, ChildState(block, StateAt(block.previous_hash).ledger),
                            block.previous_hash)
    /\ mainTip' = IF BecomesTip(block) THEN hash ELSE mainTip
    /\ ReconcilePending

\* A block built by another node arrives.
ReceiveBlock(hash) ==
    \E parent \in Stored \cup {NoHash}, body \in PeerBodies \cup {<< >>},
       id \in 0 .. MaxHeight :
        /\ \E work \in {-1, RequiredBits(id)} :
              AddBlock(hash, [ block_id |-> id, previous_hash |-> parent,
                               transactions |-> body, work |-> work ])
        /\ UNCHANGED candidate

\* add_transaction on the main tip: the whole pool must apply, then the
\* transaction after it.
AddTransaction(tx) ==
    /\ Len(pending) < MaxPending
    /\ ~IsReward(tx)
    /\ PendingOn(mainTip).ok
    /\ CanApply(tx, PendingOn(mainTip).ledger)
    /\ pending' = Append(pending, tx)
    /\ UNCHANGED <<blocks, states, mainTip, candidate>>

\* _calculate_transaction_fees_for_block
CollectedFees(txs, state) == ApplyInOrder(txs, state.ledger, state.height + 1).fees

BlockOf(miner, tip, state, selected) ==
    [ block_id |-> state.height + 1,
      previous_hash |-> tip,
      transactions |-> <<RewardTransaction(miner, CollectedFees(selected, state))>> \o selected,
      work |-> RequiredBits(state.height + 1) ]

\* mine_pending_transactions up to the proof of work: select, add up the
\* fees on the state of the tip, build the block.
MinedBlock(miner, tip) ==
    BlockOf(miner, tip, StateAt(tip), SelectedTransactions(pending, StateAt(tip)))

StartMining(miner) ==
    /\ mainTip # NoHash
    /\ candidate = NoBlock
    /\ Height(mainTip) < MaxHeight
    /\ candidate' = MinedBlock(miner, mainTip)
    /\ UNCHANGED chainVars

\* The proof of work is found.
FinishMining(hash) ==
    /\ candidate # NoBlock
    /\ AddBlock(hash, candidate)
    /\ candidate' = NoBlock

\* The proof of work is cancelled, or the block is refused and
\* mine_pending_transactions raises.
AbandonMining ==
    /\ candidate # NoBlock
    /\ candidate' = NoBlock
    /\ UNCHANGED chainVars

----------------------------------------------------------------------------
(* verify_chain: recompute everything from the blocks.                     *)

NoState == [height |-> -2, ledger |-> EmptyLedger]   \* None

\* compute_state: the state of every block, recomputed from the genesis block
\* on; NoState where a block is invalid.  Unlike add_block_result this does
\* not compare a block's id with its parent's height.
Recomputed[h \in Stored] ==
    LET block  == blocks[h]
        parent == IF Parent(h) = NoHash THEN FreshState ELSE Recomputed[Parent(h)]
    IN  IF /\ parent # NoState
           /\ Parent(h) = NoHash => IsGenesis(block)
           /\ IsValidChild(block, parent.ledger)
        THEN ChildState(block, parent.ledger)
        ELSE NoState

VerifySucceeds ==
    /\ \A h \in Stored : Recomputed[h] # NoState
    /\ Cardinality({h \in Stored : Parent(h) = NoHash}) <= 1

HighestLeaves(heights) ==
    {h \in Stored : IsLeaf(h) /\ \A l \in Stored : IsLeaf(l) => heights[l] <= heights[h]}

\* _select_best_tip: a highest leaf, the present tip if it is one; the code
\* takes the smallest of several hashes, here any.
BestAmong(highest) ==
    CASE Stored = {}         -> {NoHash}
      [] mainTip \in highest -> {mainTip}
      [] OTHER               -> highest

BestTips == BestAmong(HighestLeaves([h \in Stored |-> Recomputed[h].height]))

VerifyChain ==
    /\ VerifySucceeds
    /\ states' = Recomputed
    /\ mainTip' \in BestTips
    /\ UNCHANGED <<blocks, candidate>>
    /\ ReconcilePending

Next ==
    \/ \E hash \in Hashes : ReceiveBlock(hash)
    \/ \E tx \in Transactions : AddTransaction(tx)
    \/ \E miner \in Miners : StartMining(miner)
    \/ \E hash \in Hashes : FinishMining(hash)
    \/ AbandonMining
    \/ VerifyChain

Spec == Init /\ [][Next]_vars

----------------------------------------------------------------------------
(* Properties.                                                             *)

\* A transaction is in a chain once, on every branch, even when it was mined,
\* returned to the pool by a reorganisation and mined again.
NoTransactionTwice ==
    \A h \in Stored :
        LET chain   == ChainTo(blocks, h)
            In(i)   == blocks[chain[i]].transactions
            places  == UNION {{i} \X (1 .. Len(In(i))) : i \in DOMAIN chain}
            Paid(p) == In(p[1])[p[2]]
        IN  \A p, q \in places : p # q /\ ~IsReward(Paid(p)) => Paid(p) # Paid(q)

\* What a block pays its miner.
Claim(block) == IF block.transactions = << >> THEN 0 ELSE block.transactions[1].amount

\* The chain to h has amounts that the code's decimals hold: on none of its
\* blocks are there Precision units or more, those counted that the block
\* claims.  The code has no such check.
AmountsFit(h) ==
    \A g \in ToSet(ChainTo(blocks, h)) : MiningReward * Height(g) + Claim(blocks[g]) < Precision

\* The ledger after the first n transactions of a block.
OnTheWay(h, n) ==
    ApplyInOrder(SubSeq(blocks[h].transactions, 1, n), StateAt(Parent(h)).ledger,
                 Height(h)).ledger

\* No coin is made or lost but by mining, and none is spent before it is there:
\* fees reach the miner in full, gas that was not used returns to the sender,
\* failed runs keep the value, and after no transaction of any block is an
\* account overdrawn, whatever a contract moves while its sender's escrow and
\* value are away.  This is claimed of chains whose amounts fit, and on these
\* no balance on the way ever reaches what the code would round.
SupplyIsMined ==
    \A h \in Stored :
        AmountsFit(h) =>
            /\ Total(states[h].ledger.balances) = MiningReward * Height(h)
            /\ \A n \in 0 .. Len(blocks[h].transactions) : \A a \in Accounts :
                  OnTheWay(h, n).balances[a] \in 0 .. Precision - 1

\* The pool applies to the main tip in its order.  add_transaction and
\* get_next_nonce raise when it does not, and the node can then neither
\* take nor create a transaction.
PoolApplies == PendingOn(mainTip).ok

\* The block being mined is accepted when its proof of work is found, however
\* the tree and the pool changed meanwhile (mine_pending_transactions raises
\* "Mined block failed validation" otherwise).
CandidateIsValid ==
    candidate # NoBlock =>
        /\ ExtendsParent(candidate)
        /\ IsValidChild(candidate, StateAt(candidate.previous_hash).ledger)

LeavesNothingOut(selected, after) ==
    \/ Len(selected) = MaxBlockTransactions - 1
    \/ \A i \in DOMAIN pending :
          pending[i] \in ToSet(selected) \/ ~CanApply(pending[i], after.ledger)

\* A block that is mined from the pool leaves nothing out that would still
\* apply after it, unless it is full: going by fee does not hold back a
\* cheap transaction a dearer one of the same sender waits for.
SelectionIsMaximal ==
    \A selected \in {SelectedTransactions(pending, StateAt(mainTip))} :
        LeavesNothingOut(selected, ApplyInOrder(selected, StateAt(mainTip).ledger,
                                                StateAt(mainTip).height + 1))

\* What add_block_result maintains step by step is what verify_chain computes
\* from the blocks alone: the states (with the reward-only fast path) and the
\* main tip, so that a verification always succeeds and changes neither.
VerifyAgrees ==
    /\ VerifySucceeds
    /\ Recomputed = states
    /\ BestTips = {mainTip}

\* The tree of the blocks and of the states after them.
Tree == [h \in Stored |-> [parent |-> Parent(h), height |-> Height(h),
                           content |-> <<blocks[h], states[h]>>]]

LC == INSTANCE LongestChain WITH tree <- Tree, tip <- mainTip, None <- NoHash

\* However branches arrive, are mined and are verified again, the chain keeps
\* the promise of LongestChain: blocks and the states after them, which share
\* parts (_build_reward_only_child_state), never change, the walks from a tip
\* to the genesis block meet a parent one lower at each step, and the tip is a
\* highest block that is left only for a strictly higher one.
ImplementsLongestChain == LC!Spec

\* A reorganisation does not lose payments: if a transaction of the chain or
\* the pool before a step could be mined on the tip after it, the pool still
\* holds a transaction of its sender (itself, or one it conflicts with).
ReorgKeepsTransactions ==
    [][\A tx \in ToSet(BranchTransactions(blocks, mainTip, NoHash) \o pending) :
          (/\ ~IsReward(tx)
           /\ tx \notin ToSet(BranchTransactions(blocks', mainTip', NoHash))
           /\ CanApply(tx, (StateAt(mainTip).ledger)'))
          => \E other \in ToSet(pending') : other.sender = tx.sender]_vars

=============================================================================
